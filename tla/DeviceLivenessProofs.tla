------------------------ MODULE DeviceLivenessProofs ------------------------
(***************************************************************************)
(* Theorems of DeviceLiveness: type correctness, that the last sign of     *)
(* life never goes back, and that only a silent device is switched off,    *)
(* for any number of sessions and all delays.                              *)
(***************************************************************************)
EXTENDS DeviceLiveness, TLAPS

USE TimeAssumption, BoundAssumption, NoneAssumption DEF TimeAssumption, BoundAssumption, NoneAssumption

LEMMA AgeFacts ==
  /\ Never \in Nat /\ Never = MaxAge + 1 /\ Ttl + Lag < Never /\ Never \in Age
  /\ 0 \in Age /\ 0 .. Lag \subseteq Age
  /\ \A n \in Age : n \in Nat /\ Aged(n) \in Age /\ (Aged(n) = Never <=> n = Never)
  /\ \A n, k \in Age : n <= k => Aged(n) <= Aged(k)
  /\ \A n \in Age : Aged(n) <= n + 1
  /\ \A n, k \in Age : n # Never /\ n <= k + Lag => Aged(n) <= Aged(k) + Lag
BY DEF Never, Age, Aged

LEMMA FoundFacts ==
  ASSUME NEW f \in Found
  PROVE  /\ f.grace \in BOOLEAN /\ f.fresh \in BOOLEAN /\ f.stale \in Age
         /\ \A b \in BOOLEAN : /\ [f EXCEPT !.grace = b] \in Found
                               /\ [f EXCEPT !.grace = b].stale = f.stale
                               /\ [f EXCEPT !.fresh = b] \in Found
                               /\ [f EXCEPT !.fresh = b].stale = f.stale
         /\ \A n \in Age : /\ [f EXCEPT !.stale = n] \in Found
                           /\ [f EXCEPT !.stale = n].stale = n
BY SMTT(30) DEF Found

LEMMA LeaseFacts ==
  /\ NoLease \in Lease /\ Nothing \in Found
  /\ \A s \in Session : [by |-> s, left |-> Ttl] \in Lease
  /\ \A l \in Lease : l.left \in Nat /\ (l.left > 1 => [by |-> l.by, left |-> l.left - 1] \in Lease)
<1>1. NoLease \in Lease
  BY SMTT(30) DEF NoLease, Lease
<1>2. Nothing \in Found
  BY AgeFacts, SMTT(30) DEF Nothing, Found
<1>3. \A s \in Session : [by |-> s, left |-> Ttl] \in Lease
  BY SMTT(30) DEF Lease
<1>4. ASSUME NEW l \in Lease
      PROVE  l.left \in Nat /\ (l.left > 1 => [by |-> l.by, left |-> l.left - 1] \in Lease)
  <2>1. l.by \in Session \cup {NoSession} /\ l.left \in 0 .. Ttl
    BY DEF Lease
  <2>2. l.left > 1 => l.left - 1 \in 0 .. Ttl
    BY <2>1
  <2> QED BY <2>1, <2>2, SMTT(30) DEF Lease
<1> QED BY <1>1, <1>2, <1>3, <1>4

-----------------------------------------------------------------------------
LEMMA TypeInit == Init => TypeOK
<1> SUFFICES ASSUME Init PROVE TypeOK
  OBVIOUS
<1>1. /\ pc \in [Session -> {"new", "claim", "loop", "release", "persist", "done"}]
      /\ mark \in [Session -> 0 .. WriteMax]
  BY DEF Init
<1>2. epoch \in 0 .. Ttl + Lag \cup {Never} /\ quiet \in 0 .. Ttl /\ pass \in 0 .. PassMax
  BY DEF Init
<1>3. device \in Session \cup {NoSession} /\ faults \in 0 .. MaxFaults
  BY DEF Init
<1>4. lease \in Lease /\ found \in Found /\ seen \in Age /\ cold \in Age
  BY LeaseFacts, AgeFacts DEF Init
<1>5. active \in BOOLEAN /\ pinged \in BOOLEAN /\ reap = "start"
  BY DEF Init
<1> QED BY <1>1, <1>2, <1>3, <1>4, <1>5 DEF TypeOK

(* What a task of a session does to its own state. *)
LEMMA GotoType ==
  ASSUME TypeOK, NEW s \in Session, NEW from,
         NEW to \in {"new", "claim", "loop", "release", "persist", "done"}, Goto(s, from, to)
  PROVE  pc' \in [Session -> {"new", "claim", "loop", "release", "persist", "done"}]
BY DEF Goto, TypeOK

LEMMA SignType ==
  ASSUME TypeOK, NEW s \in Session, Sign(s)
  PROVE  lease' \in Lease /\ seen' \in Age /\ quiet' \in 0 .. Ttl
BY LeaseFacts, AgeFacts DEF Sign

LEMMA FaultType ==
  ASSUME TypeOK, Fault PROVE faults' \in 0 .. MaxFaults
BY DEF Fault, TypeOK

LEMMA SessionType ==
  ASSUME TypeOK, NEW s \in Session,
         Connect(s) \/ TaskStep(s) \/ Frame(s) \/ Leave(s) \/ Crash(s)
  PROVE  TypeOK'
<1>1. CASE Connect(s)
  <2>1. pc' \in [Session -> {"new", "claim", "loop", "release", "persist", "done"}]
    BY <1>1, GotoType DEF Connect
  <2> QED BY <1>1, <2>1 DEF Connect, TypeOK, valkeyVars, reaperVars, histVars
<1>2. CASE Claim(s)
  <2>1. pc' \in [Session -> {"new", "claim", "loop", "release", "persist", "done"}]
    BY <1>2, GotoType DEF Claim
  <2>2. /\ lease' \in Lease /\ seen' \in Age /\ quiet' \in 0 .. Ttl
        /\ device' \in Session \cup {NoSession} /\ faults' \in 0 .. MaxFaults
    BY <1>2, SignType, FaultType DEF Claim, Hangup, TypeOK
  <2> QED BY <1>2, <2>1, <2>2 DEF Claim, TypeOK, reaperVars
<1>3. CASE Release(s)
  <2>1. pc' \in [Session -> {"new", "claim", "loop", "release", "persist", "done"}]
    BY <1>3, GotoType DEF Release
  <2>2. lease' \in Lease /\ seen' \in Age /\ faults' \in 0 .. MaxFaults
    BY <1>3, LeaseFacts, AgeFacts, FaultType DEF Release, Drop, TypeOK
  <2>3. mark' \in [Session -> 0 .. WriteMax]
    BY <1>3 DEF Release, Drop, TypeOK
  <2> QED BY <1>3, <2>1, <2>2, <2>3 DEF Release, TypeOK, reaperVars, histVars
<1>4. CASE Persist(s)
  <2>1. pc' \in [Session -> {"new", "claim", "loop", "release", "persist", "done"}]
    BY <1>4, GotoType DEF Persist
  <2>2. mark[s] \in Age /\ mark' \in [Session -> 0 .. WriteMax]
    BY <1>4 DEF Persist, TypeOK, Age, Never
  <2>3. cold' \in Age /\ faults' \in 0 .. MaxFaults
    BY <1>4, <2>2, FaultType DEF Persist, TypeOK
  <2> QED BY <1>4, <2>1, <2>2, <2>3 DEF Persist, TypeOK, valkeyVars, reaperVars, histVars
<1>5. CASE Frame(s)
  <2>1. lease' \in Lease /\ seen' \in Age /\ quiet' \in 0 .. Ttl /\ faults' \in 0 .. MaxFaults
    BY <1>5, SignType, FaultType DEF Frame, TypeOK
  <2> QED BY <1>5, <2>1 DEF Frame, TypeOK, sessionVars, reaperVars
<1>6. CASE Leave(s)
  <2>1. pc' \in [Session -> {"new", "claim", "loop", "release", "persist", "done"}]
    BY <1>6, GotoType DEF Leave
  <2> QED BY <1>6, <2>1 DEF Leave, Hangup, TypeOK, valkeyVars, reaperVars, histVars
<1>7. CASE Crash(s)
  <2>1. /\ pc' \in [Session -> {"new", "claim", "loop", "release", "persist", "done"}]
        /\ mark' \in [Session -> 0 .. WriteMax] /\ device' \in Session \cup {NoSession}
    BY <1>7 DEF Crash, Hangup, TypeOK
  <2>2. faults' \in 0 .. MaxFaults
    BY <1>7, FaultType DEF Crash
  <2> QED BY <1>7, <2>1, <2>2 DEF Crash, TypeOK, valkeyVars, reaperVars, histVars
<1> QED BY <1>1, <1>2, <1>3, <1>4, <1>5, <1>6, <1>7 DEF TaskStep

LEMMA ReaperType ==
  ASSUME TypeOK, ReapStep \/ ReapCut
  PROVE  TypeOK'
<1>1. CASE StartPass
  <2>1. epoch' \in 0 .. Ttl + Lag \cup {Never}
    BY <1>1, AgeFacts DEF StartPass, TypeOK
  <2>2. found' \in Found
    <3>1. (epoch' < Ttl + pass') \in BOOLEAN
      OBVIOUS
    <3> QED BY <1>1, <3>1, FoundFacts, Zenon DEF StartPass, TypeOK
  <2>3. pass' \in 0 .. PassMax
    BY <1>1 DEF StartPass
  <2> QED BY <1>1, <2>1, <2>2, <2>3 DEF StartPass, ReapGoto, TypeOK, sessionVars, histVars
<1>2. CASE ReadFresh
  <2>1. found' \in Found
    <3>1. CASE found.grace
      BY <1>2, <3>1, LeaseFacts DEF ReadFresh
    <3>2. CASE ~found.grace
      <4>1. Fresh \in BOOLEAN
        BY DEF Fresh
      <4>2. found' = [found EXCEPT !.fresh = Fresh]
        BY <1>2, <3>2 DEF ReadFresh
      <4> QED BY <4>1, <4>2, FoundFacts, Zenon DEF TypeOK
    <3> QED BY <3>1, <3>2
  <2>2. active' \in BOOLEAN
    BY <1>2, Zenon DEF ReadFresh
  <2> QED BY <1>2, <2>1, <2>2 DEF ReadFresh, ReapGoto, TypeOK, sessionVars, valkeyVars, histVars
<1>3. CASE ReadStale
  <2>1. found' \in Found
    BY <1>3, FoundFacts, AgeFacts DEF ReadStale, TypeOK
  <2> QED BY <1>3, <2>1 DEF ReadStale, ReapGoto, TypeOK, sessionVars, valkeyVars, histVars
<1>4. CASE PersistStale
  <2>1. found' \in Found /\ cold' \in Age
    BY <1>4, FoundFacts, AgeFacts DEF PersistStale, TypeOK
  <2> QED BY <1>4, <2>1 DEF PersistStale, ReapGoto, TypeOK, sessionVars, valkeyVars, histVars
<1>5. CASE RemoveStale
  <2>1. seen' \in Age
    BY <1>5, AgeFacts DEF RemoveStale, TypeOK
  <2> QED BY <1>5, <2>1 DEF RemoveStale, ReapGoto, TypeOK, sessionVars, histVars
<1>6. CASE Deactivate
  <2>1. active' \in BOOLEAN
    BY <1>6, Zenon DEF Deactivate
  <2> QED BY <1>6, <2>1, LeaseFacts DEF Deactivate, ReapGoto, TypeOK, sessionVars, valkeyVars, histVars
<1>7. CASE ReapCut
  BY <1>7, LeaseFacts, FaultType DEF ReapCut, TypeOK, sessionVars, valkeyVars, histVars
<1> QED BY <1>1, <1>2, <1>3, <1>4, <1>5, <1>6, <1>7 DEF ReapStep

LEMMA TickType ==
  ASSUME TypeOK, Tick
  PROVE  TypeOK'
<1>1. pass' \in 0 .. PassMax
  BY DEF Tick, TypeOK
<1>2. mark' \in [Session -> 0 .. WriteMax]
  <2>1. ASSUME NEW s \in Session
        PROVE  (IF pc[s] = "persist" THEN mark[s] + 1 ELSE 0) \in 0 .. WriteMax
    BY DEF Tick, TypeOK
  <2> QED BY <2>1 DEF Tick
<1>3. lease' \in Lease
  BY LeaseFacts DEF Tick, TypeOK
<1>4. seen' \in Age /\ cold' \in Age /\ found' \in Found
  BY AgeFacts, FoundFacts DEF Tick, TypeOK
<1>5. epoch' \in 0 .. Ttl + Lag \cup {Never} /\ quiet' \in 0 .. Ttl
  BY AgeFacts DEF Tick, TypeOK, Capped
<1> QED BY <1>1, <1>2, <1>3, <1>4, <1>5 DEF Tick, TypeOK

LEMMA TypeNext == TypeOK /\ [Next]_vars => TypeOK'
<1> SUFFICES ASSUME TypeOK, [Next]_vars PROVE TypeOK'
  OBVIOUS
<1>1. CASE Cut
  BY <1>1 DEF Cut, TypeOK, valkeyVars, reaperVars, histVars
<1>2. CASE ValkeyRestart
  BY <1>2, LeaseFacts, AgeFacts, FaultType DEF ValkeyRestart, TypeOK, sessionVars, reaperVars, histVars
<1>3. CASE UNCHANGED vars
  BY <1>3 DEF TypeOK, vars, sessionVars, valkeyVars, reaperVars, histVars
<1> QED BY <1>1, <1>2, <1>3, SessionType, ReaperType, TickType DEF Next

(* The type invariant, for any sessions and all delays. *)
THEOREM TypeCorrect == Spec => []TypeOK
BY TypeInit, TypeNext, PTL DEF Spec

-----------------------------------------------------------------------------
(* The last sign of life. *)

(* A restart of Valkey that the reaper has not noticed. *)
Unmarked == seen = Never /\ epoch = Never

(* But for the clocks, a score is never older than what PostgreSQL has. *)
ScoreInv == seen # Never => seen <= cold + Lag

(* What a release is about to write: the device was seen at that instant   *)
(* or later, unless Valkey has forgotten it since.                         *)
ReleaseInv ==
  \A s \in Session : pc[s] = "persist" =>
    \/ seen # Never /\ seen <= mark[s] + Lag
    \/ seen = Never /\ (epoch = Never \/ epoch <= mark[s] + Lag)

(* What the pass is about to write is what it has read of the score, and   *)
(* the score has only been renewed, or forgotten, since.                   *)
PassInv ==
  reap = "persist" =>
    /\ found.stale # Never
    /\ (seen # Never /\ seen <= found.stale + Lag) \/ Unmarked
    /\ Silent => found.stale <= seen

(* A score that is still stale when it is removed is in PostgreSQL.        *)
RemoveInv == reap = "remove" /\ Silent => cold <= seen

SeenInv == ScoreInv /\ ReleaseInv /\ PassInv /\ RemoveInv

LEMMA SeenInit == Init => SeenInv
BY DEF Init, SeenInv, ScoreInv, ReleaseInv, PassInv, RemoveInv

(* Steps of which the invariant sees nothing but tasks that end. *)
LEMMA SeenKept ==
  ASSUME SeenInv, UNCHANGED <<seen, cold, epoch, pass>>,
         \A s \in Session : pc'[s] = "persist" => pc[s] = "persist" /\ mark'[s] = mark[s],
         UNCHANGED <<reap, found>> \/ reap' \notin {"persist", "remove"}
  PROVE  SeenInv'
BY DEF SeenInv, ScoreInv, ReleaseInv, PassInv, RemoveInv, Silent, Fresh, Unmarked

(* A sign of life. *)
LEMMA SeenSigned ==
  ASSUME TypeOK, TypeOK', SeenInv, seen' \in 0 .. Lag,
         UNCHANGED <<cold, epoch, pass, reap, found>>
  PROVE  SeenInv'
<1>1. /\ cold \in Nat /\ found.stale \in Nat /\ pass \in Nat
      /\ seen' \in Nat /\ seen' <= Lag /\ seen' # Never /\ seen' < Ttl
      /\ \A s \in Session : mark'[s] \in Nat
  BY AgeFacts, FoundFacts DEF TypeOK
<1>2. ~Silent'
  BY <1>1 DEF Silent, Fresh
<1> QED BY <1>1, <1>2 DEF SeenInv, ScoreInv, ReleaseInv, PassInv, RemoveInv

(* While a release is about to write, the device is not silent.            *)
LEMMA NotSilent ==
  ASSUME TypeOK, SeenInv, NEW s \in Session, pc[s] = "persist"
  PROVE  ~Silent
<1>1. mark[s] \in 0 .. WriteMax /\ pass \in Nat /\ seen \in Nat
  BY AgeFacts DEF TypeOK
<1> QED BY <1>1 DEF SeenInv, ReleaseInv, Silent, Fresh

LEMMA SeenPersist ==
  ASSUME TypeOK, SeenInv, NEW s \in Session, Persist(s)
  PROVE  SeenInv'
<1>1. /\ pc[s] = "persist" /\ UNCHANGED <<seen, epoch, reap, found, pass>>
      /\ cold' = mark[s] \/ cold' = cold
      /\ \A t \in Session : pc'[t] = "persist" => pc[t] = "persist" /\ mark'[t] = mark[t]
  BY DEF Persist, Goto, valkeyVars, reaperVars, TypeOK
<1>2. ~Silent /\ ~Silent'
  BY <1>1, NotSilent DEF Silent, Fresh
<1>3. seen # Never => seen <= mark[s] + Lag
  BY <1>1 DEF SeenInv, ReleaseInv
<1>4. ScoreInv'
  BY <1>1, <1>3, AgeFacts DEF SeenInv, ScoreInv
<1>5. ReleaseInv'
  BY <1>1, AgeFacts DEF SeenInv, ReleaseInv
<1>6. PassInv' /\ RemoveInv'
  BY <1>1, <1>2, AgeFacts DEF SeenInv, PassInv, RemoveInv, Unmarked
<1> QED BY <1>4, <1>5, <1>6 DEF SeenInv

LEMMA SeenSession ==
  ASSUME TypeOK, SeenInv, NEW s \in Session,
         Connect(s) \/ TaskStep(s) \/ Frame(s) \/ Leave(s) \/ Crash(s)
  PROVE  SeenInv'
<1>1. CASE Connect(s) \/ Leave(s) \/ Crash(s)
  <2>1. \A t \in Session : pc'[t] = "persist" => pc[t] = "persist" /\ mark'[t] = mark[t]
    BY <1>1 DEF Connect, Leave, Crash, Goto, TypeOK
  <2> QED BY <1>1, <2>1, SeenKept DEF Connect, Leave, Crash, valkeyVars, reaperVars
<1>2. CASE Claim(s)
  <2>1. CASE Sign(s)
    BY <1>2, <2>1, SeenSigned, SessionType DEF Sign, Claim, TaskStep, reaperVars
  <2>2. CASE ~Sign(s)
    <3>1. \A t \in Session : pc'[t] = "persist" => pc[t] = "persist" /\ mark'[t] = mark[t]
      BY <1>2, <2>2 DEF Claim, Goto, TypeOK
    <3> QED BY <1>2, <2>2, <3>1, SeenKept DEF Claim, reaperVars
  <2> QED BY <2>1, <2>2
<1>3. CASE Frame(s)
  <2>1. CASE Sign(s)
    BY <1>3, <2>1, SeenSigned, SessionType DEF Sign, Frame, sessionVars, reaperVars
  <2>2. CASE ~Sign(s)
    BY <1>3, <2>2, SeenKept DEF Frame, sessionVars, reaperVars
  <2> QED BY <2>1, <2>2
<1>4. CASE Release(s)
  <2>1. CASE Drop(s)
    BY <1>4, <2>1, SeenSigned, SessionType DEF Drop, Release, TaskStep, reaperVars
  <2>2. CASE ~Drop(s)
    <3>1. UNCHANGED <<seen, mark>> /\ Goto(s, "release", "done")
      BY <1>4, <2>2 DEF Release
    <3>2. \A t \in Session : pc'[t] = "persist" => pc[t] = "persist" /\ mark'[t] = mark[t]
      BY <1>4, <3>1 DEF Release, Goto, TypeOK
    <3> QED BY <1>4, <3>1, <3>2, SeenKept DEF Release, reaperVars
  <2> QED BY <2>1, <2>2
<1>5. CASE Persist(s)
  BY <1>5, SeenPersist
<1> QED BY <1>1, <1>2, <1>3, <1>4, <1>5 DEF TaskStep

LEMMA SeenReaper ==
  ASSUME TypeOK, SeenInv, ReapStep \/ ReapCut
  PROVE  SeenInv'
<1>1. CASE StartPass
  <2>1. UNCHANGED <<seen, cold, pc, mark>> /\ reap' = "fresh"
    BY <1>1 DEF StartPass, ReapGoto, sessionVars
  <2>2. epoch' = epoch \/ (epoch = Never /\ epoch' \in 0 .. Lag)
    BY <1>1 DEF StartPass
  <2>3. \A s \in Session : mark[s] \in Nat
    BY DEF TypeOK
  <2> QED BY <2>1, <2>2, <2>3 DEF SeenInv, ScoreInv, ReleaseInv, PassInv, RemoveInv
<1>2. CASE ReadFresh \/ Deactivate \/ ReapCut
  <2>1. UNCHANGED <<seen, cold, epoch, pass, pc, mark>> /\ reap' \notin {"persist", "remove"}
    BY <1>2 DEF ReadFresh, Deactivate, ReapCut, ReapGoto, sessionVars, valkeyVars
  <2> QED BY <2>1, SeenKept
<1>3. CASE ReadStale
  <2>1. UNCHANGED <<seen, cold, epoch, pass, pc, mark>>
        /\ reap' = IF Silent THEN "persist" ELSE "deactivate"
    BY <1>3 DEF ReadStale, ReapGoto, sessionVars, valkeyVars
  <2>2. CASE Silent
    <3>1. found'.stale = seen /\ seen # Never /\ seen \in Nat
      BY <1>3, <2>2, FoundFacts, AgeFacts DEF ReadStale, TypeOK, Silent
    <3> QED BY <2>1, <2>2, <3>1 DEF SeenInv, ScoreInv, ReleaseInv, PassInv, RemoveInv
  <2>3. CASE ~Silent
    BY <2>1, <2>3, SeenKept
  <2> QED BY <2>2, <2>3
<1>4. CASE PersistStale
  <2>1. /\ UNCHANGED <<seen, epoch, pass, pc, mark>> /\ cold' = found.stale
        /\ reap = "persist" /\ reap' = "remove" /\ Silent' = Silent
    BY <1>4 DEF PersistStale, ReapGoto, sessionVars, valkeyVars, Silent, Fresh
  <2> QED BY <2>1 DEF SeenInv, ScoreInv, ReleaseInv, PassInv, RemoveInv, Unmarked
<1>5. CASE RemoveStale
  <2>1. /\ UNCHANGED <<cold, epoch, pass, pc, mark>> /\ reap' = "deactivate"
        /\ seen' = IF Silent THEN Never ELSE seen
    BY <1>5 DEF RemoveStale, ReapGoto, sessionVars
  <2> QED BY <2>1, NotSilent DEF SeenInv, ScoreInv, ReleaseInv, PassInv, RemoveInv
<1> QED BY <1>1, <1>2, <1>3, <1>4, <1>5 DEF ReapStep

LEMMA SeenTick ==
  ASSUME TypeOK, SeenInv, Tick
  PROVE  SeenInv'
<1>1. /\ UNCHANGED <<pc, reap>> /\ seen' = Aged(seen) /\ cold' = Aged(cold)
      /\ found'.stale = Aged(found.stale) /\ epoch' = Capped(epoch, Ttl + Lag)
      /\ \A s \in Session : pc[s] = "persist" => mark'[s] = mark[s] + 1 /\ mark[s] < WriteMax
      /\ reap # "start" => pass' = pass + 1 /\ pass < PassMax
  BY FoundFacts, AgeFacts DEF Tick, TypeOK
<1>2. /\ seen \in Age /\ cold \in Age /\ found.stale \in Age /\ pass \in Nat
      /\ epoch \in 0 .. Ttl + Lag \cup {Never} /\ \A s \in Session : mark[s] \in 0 .. WriteMax
  BY FoundFacts DEF TypeOK
<1>3. (epoch = Never => epoch' = Never) /\ (epoch # Never => epoch' <= epoch + 1)
  BY <1>1, <1>2, AgeFacts DEF Capped
<1>4. reap # "start" /\ Silent' => Silent
  BY <1>1, <1>2 DEF Silent, Fresh, Aged, Age, Never
<1>5. ScoreInv'
  <2>1. seen # Never => Aged(seen) <= Aged(cold) + Lag
    BY <1>2, AgeFacts DEF SeenInv, ScoreInv
  <2> QED BY <1>1, <1>2, <2>1, AgeFacts DEF ScoreInv
<1>6. ReleaseInv'
  <2>1. ASSUME NEW s \in Session, pc'[s] = "persist"
        PROVE  \/ seen' # Never /\ seen' <= mark'[s] + Lag
               \/ seen' = Never /\ (epoch' = Never \/ epoch' <= mark'[s] + Lag)
    <3>1. pc[s] = "persist" /\ mark'[s] = mark[s] + 1 /\ mark[s] \in Nat
      BY <1>1, <1>2, <2>1
    <3>2. /\ seen \in Nat /\ seen' \in Nat /\ seen' <= seen + 1
          /\ (seen = Never <=> seen' = Never)
      BY <1>1, <1>2, AgeFacts
    <3>3. epoch' \in Nat /\ epoch \in Nat
      BY <1>1, <1>2, AgeFacts DEF Capped
    <3>4. CASE seen # Never /\ seen <= mark[s] + Lag
      BY <3>1, <3>2, <3>4
    <3>5. CASE seen = Never /\ (epoch = Never \/ epoch <= mark[s] + Lag)
      BY <1>3, <3>1, <3>2, <3>3, <3>5
    <3> QED BY <3>1, <3>4, <3>5 DEF SeenInv, ReleaseInv
  <2> QED BY <2>1 DEF ReleaseInv
<1>7. PassInv'
  <2>1. ASSUME reap = "persist"
        PROVE  /\ Aged(found.stale) # Never
               /\ \/ Aged(seen) # Never /\ Aged(seen) <= Aged(found.stale) + Lag
                  \/ Aged(seen) = Never /\ epoch' = Never
               /\ Silent' => Aged(found.stale) <= Aged(seen)
    <3>1. /\ found.stale # Never
          /\ \/ seen # Never /\ seen <= found.stale + Lag
             \/ seen = Never /\ epoch = Never
          /\ Silent => found.stale <= seen
      BY <2>1 DEF SeenInv, PassInv, Unmarked
    <3>2. Aged(found.stale) # Never /\ (seen = Never <=> Aged(seen) = Never)
      BY <1>2, <3>1, AgeFacts
    <3>3. seen # Never /\ seen <= found.stale + Lag => Aged(seen) <= Aged(found.stale) + Lag
      BY <1>2, AgeFacts
    <3>4. found.stale <= seen => Aged(found.stale) <= Aged(seen)
      BY <1>2, AgeFacts
    <3> QED BY <1>3, <1>4, <2>1, <3>1, <3>2, <3>3, <3>4
  <2> QED BY <1>1, <2>1 DEF PassInv, Unmarked
<1>8. RemoveInv'
  BY <1>1, <1>2, <1>4, AgeFacts DEF SeenInv, RemoveInv
<1> QED BY <1>5, <1>6, <1>7, <1>8 DEF SeenInv

LEMMA SeenNext == TypeOK /\ SeenInv /\ [Next]_vars => SeenInv'
<1> SUFFICES ASSUME TypeOK, SeenInv, [Next]_vars PROVE SeenInv'
  OBVIOUS
<1>1. CASE Cut
  BY <1>1, SeenKept DEF Cut, valkeyVars, reaperVars
<1>2. CASE ValkeyRestart
  <2>1. UNCHANGED <<pc, mark, cold, reap, found>> /\ seen' = Never /\ epoch' = Never
    BY <1>2 DEF ValkeyRestart, sessionVars, reaperVars
  <2>2. ~Silent'
    BY <2>1, AgeFacts DEF Silent
  <2> QED BY <2>1, <2>2 DEF SeenInv, ScoreInv, ReleaseInv, PassInv, RemoveInv, Unmarked
<1>3. CASE UNCHANGED vars
  BY <1>3, SeenKept DEF vars, sessionVars, valkeyVars, reaperVars
<1> QED BY <1>1, <1>2, <1>3, SeenSession, SeenReaper, SeenTick DEF Next

(* One step. *)
LEMMA SeenStep ==
  ASSUME TypeOK, SeenInv, [Next]_vars, ~Tick, ~ValkeyRestart, epoch = Ttl + Lag
  PROVE  LastSeen' <= LastSeen + Lag
<1>0. seen \in Nat /\ cold \in Nat /\ Never \in Nat /\ seen <= Never /\ cold <= Never
  BY AgeFacts DEF TypeOK, Age
<1>1. CASE UNCHANGED <<seen, cold>>
  BY <1>0, <1>1 DEF LastSeen
<1>2. CASE seen' \in 0 .. Lag /\ UNCHANGED cold
  BY <1>0, <1>2 DEF LastSeen
<1>3. ASSUME NEW s \in Session, Persist(s) PROVE LastSeen' <= LastSeen + Lag
  <2>1. pc[s] = "persist" /\ UNCHANGED seen /\ cold' \in {mark[s], cold} /\ mark[s] \in 0 .. WriteMax
    BY <1>3 DEF Persist, Goto, valkeyVars, TypeOK
  <2>2. seen # Never
    BY <2>1, AgeFacts DEF SeenInv, ReleaseInv
  <2>3. seen <= cold + Lag
    BY <2>2 DEF SeenInv, ScoreInv
  <2>4. cold' \in Nat /\ seen' = seen
    BY <1>0, <2>1
  <2>5. seen <= LastSeen + Lag /\ LastSeen' <= seen
    BY <1>0, <2>3, <2>4 DEF LastSeen
  <2>6. LastSeen \in Nat /\ LastSeen' \in Nat
    BY <1>0, <2>4 DEF LastSeen
  <2> QED BY <1>0, <2>5, <2>6
<1>4. CASE PersistStale
  <2>1. reap = "persist" /\ UNCHANGED seen /\ cold' = found.stale /\ found.stale \in Age
    BY <1>4, FoundFacts DEF PersistStale, ReapGoto, valkeyVars, TypeOK
  <2>2. seen # Never
    BY <1>0, <2>1, AgeFacts DEF SeenInv, PassInv, Unmarked, Age
  <2>3. seen <= cold + Lag
    BY <2>2 DEF SeenInv, ScoreInv
  <2>4. found.stale \in Nat
    BY <2>1, AgeFacts
  <2>5. seen <= LastSeen + Lag /\ LastSeen' <= seen
    BY <1>0, <2>1, <2>3, <2>4 DEF LastSeen
  <2>6. LastSeen \in Nat /\ LastSeen' \in Nat
    BY <1>0, <2>1, <2>4 DEF LastSeen
  <2> QED BY <1>0, <2>5, <2>6
<1>5. CASE RemoveStale
  <2>1. reap = "remove" /\ UNCHANGED cold /\ seen' = IF Silent THEN Never ELSE seen
    BY <1>5 DEF RemoveStale, ReapGoto
  <2>2. CASE Silent
    <3>1. cold <= seen /\ seen' = Never /\ cold' = cold
      BY <2>1, <2>2 DEF SeenInv, RemoveInv
    <3>2. LastSeen = cold /\ LastSeen' = cold
      BY <1>0, <3>1 DEF LastSeen
    <3> QED BY <1>0, <3>2
  <2>3. CASE ~Silent
    BY <1>1, <2>1, <2>3
  <2> QED BY <2>2, <2>3
<1>6. ASSUME NEW s \in Session, Connect(s) \/ Claim(s) \/ Release(s) \/ Frame(s) \/ Leave(s) \/ Crash(s)
      PROVE  UNCHANGED cold /\ (UNCHANGED seen \/ seen' \in 0 .. Lag)
  BY <1>6 DEF Connect, Claim, Release, Frame, Leave, Crash, Sign, Drop, valkeyVars
<1>7. ASSUME StartPass \/ ReadFresh \/ ReadStale \/ Deactivate \/ ReapCut \/ Cut \/ UNCHANGED vars
      PROVE  UNCHANGED <<seen, cold>>
  BY <1>7 DEF StartPass, ReadFresh, ReadStale, Deactivate, ReapCut, Cut, vars, valkeyVars
<1> QED BY <1>1, <1>2, <1>3, <1>4, <1>5, <1>6, <1>7 DEF Next, TaskStep, ReapStep

(* The last sign of life that is shown does not go back by more than the   *)
(* clocks differ, however releases, passes of the reaper and new sessions  *)
(* interleave and whatever fails (device_liveness.rs), for any sessions,   *)
(* skew and delays.                                                        *)
THEOREM LastSeenGrows == Spec => SeenGrows
<1>1. Init => TypeOK /\ SeenInv
  BY TypeInit, SeenInit
<1>2. TypeOK /\ SeenInv /\ [Next]_vars => (TypeOK /\ SeenInv)'
  BY TypeNext, SeenNext
<1>3. TypeOK /\ SeenInv /\ [Next]_vars =>
        [Tick \/ ValkeyRestart \/ epoch # Ttl + Lag \/ LastSeen' <= LastSeen + Lag]_vars
  BY SeenStep
<1> QED BY <1>1, <1>2, <1>3, PTL DEF Spec, SeenGrows

-----------------------------------------------------------------------------
(* Once the marker of the reaper is older than the last sign of life, no   *)
(* restart of Valkey has lost that sign, and the score has it.             *)
SignInv == epoch # Never /\ quiet + Lag < Ttl /\ quiet + Lag < epoch => seen <= quiet + Lag

(* A pass that is not in grace has found a marker as old as the TTL.       *)
GraceInv == reap = "fresh" /\ ~found.grace => epoch >= Ttl

(* A pass that has not found the device fresh may switch it off.           *)
OffInv ==
  reap \in {"stale", "persist", "remove", "deactivate"} /\ ~found.fresh =>
    quiet + Lag >= Ttl \/ quiet <= pass \/ epoch = Never

QuietInv == SignInv /\ GraceInv /\ OffInv

LEMMA QuietTypes ==
  ASSUME TypeOK
  PROVE  /\ quiet \in Nat /\ quiet <= Ttl /\ pass \in Nat /\ seen \in Nat /\ epoch \in Nat
         /\ epoch <= Ttl + Lag \/ epoch = Never
         /\ found \in Found /\ active \in BOOLEAN
BY AgeFacts DEF TypeOK

LEMMA FoundFields ==
  ASSUME NEW f \in Found
  PROVE  /\ \A b \in BOOLEAN : /\ [f EXCEPT !.grace = b].grace = b
                               /\ [f EXCEPT !.fresh = b].fresh = b
         /\ \A n \in Age : /\ [f EXCEPT !.stale = n].grace = f.grace
                           /\ [f EXCEPT !.stale = n].fresh = f.fresh
BY SMTT(30) DEF Found

LEMMA QuietInit == Init => QuietInv
BY DEF Init, QuietInv, SignInv, GraceInv, OffInv

(* A sign of life is not lost and does not harm the pass. *)
LEMMA QuietSession ==
  ASSUME TypeOK, QuietInv, NEW s \in Session,
         Connect(s) \/ TaskStep(s) \/ Frame(s) \/ Leave(s) \/ Crash(s)
  PROVE  QuietInv'
<1>1. UNCHANGED <<epoch, pass, reap, found>>
  BY DEF Connect, TaskStep, Claim, Release, Persist, Frame, Leave, Crash, valkeyVars, reaperVars
<1>2. \/ UNCHANGED <<seen, quiet>>
      \/ seen' \in 0 .. Lag /\ (UNCHANGED quiet \/ quiet' = 0)
  BY DEF Connect, TaskStep, Claim, Release, Persist, Frame, Leave, Crash, Sign, Drop, valkeyVars, histVars
<1> QED BY <1>1, <1>2, QuietTypes DEF QuietInv, SignInv, GraceInv, OffInv

LEMMA QuietReaper ==
  ASSUME TypeOK, QuietInv, ReapStep \/ ReapCut
  PROVE  QuietInv'
<1>0. quiet \in Nat /\ pass \in Nat /\ seen \in Nat /\ epoch \in Nat /\ found \in Found
      /\ quiet <= Ttl /\ (epoch <= Ttl + Lag \/ epoch = Never)
  BY QuietTypes
<1>1. UNCHANGED quiet
  BY DEF ReapStep, StartPass, ReadFresh, ReadStale, PersistStale, RemoveStale, Deactivate, ReapCut, histVars
<1>2. CASE StartPass
  <2>1. reap' = "fresh" /\ UNCHANGED seen /\ pass' \in 0 .. Lag
        /\ epoch' = (IF epoch = Never THEN pass' ELSE epoch)
    BY <1>2 DEF StartPass, ReapGoto
  <2>2. ~found'.grace => ~(epoch' < Ttl + pass')
    <3> DEFINE young == (epoch' < Ttl + pass')
    <3>1. found' = [found EXCEPT !.grace = young]
      BY <1>2 DEF StartPass
    <3>2. young \in BOOLEAN
      BY <1>0, <2>1
    <3> HIDE DEF young
    <3>3. found'.grace = young
      BY <1>0, <3>1, <3>2, FoundFields, Zenon
    <3>4. ~found'.grace => ~young
      BY <3>3, Zenon
    <3> QED BY <3>4, Zenon DEF young
  <2>3. ~found'.grace => epoch' >= Ttl
    <3>1. epoch' \in Nat /\ pass' \in Nat /\ Ttl \in Nat
      BY <1>0, <2>1
    <3>2. \A e, p, n \in Nat : e < n + p \/ e >= n
      OBVIOUS
    <3>3. epoch' < Ttl + pass' \/ epoch' >= Ttl
      BY <3>1, <3>2, Zenon
    <3> QED BY <2>2, <3>3, Zenon
  <2>4. SignInv'
    BY <1>0, <1>1, <2>1 DEF QuietInv, SignInv
  <2> QED BY <2>1, <2>3, <2>4 DEF QuietInv, GraceInv, OffInv
<1>3. CASE ReadFresh
  <2>1. /\ reap = "fresh" /\ reap' = (IF found.grace THEN "start" ELSE "stale")
        /\ UNCHANGED <<seen, epoch, pass>>
    BY <1>3 DEF ReadFresh, ReapGoto, valkeyVars
  <2>2. SignInv'
    BY <1>1, <2>1 DEF QuietInv, SignInv
  <2>3. CASE found.grace
    BY <2>1, <2>2, <2>3 DEF QuietInv, GraceInv, OffInv
  <2>4. CASE ~found.grace
    <3>1. found'.fresh = Fresh
      <4>1. Fresh \in BOOLEAN
        BY DEF Fresh
      <4>2. found' = [found EXCEPT !.fresh = Fresh]
        BY <1>3, <2>4 DEF ReadFresh
      <4> QED BY <1>0, <4>1, <4>2, FoundFields, Zenon
    <3>2. epoch >= Ttl
      BY <2>1, <2>4 DEF QuietInv, GraceInv
    <3>3. ~Fresh => quiet + Lag >= Ttl \/ epoch = Never
      BY <1>0, <3>2, AgeFacts DEF QuietInv, SignInv, Fresh
    <3> QED BY <1>1, <2>1, <2>2, <2>4, <3>1, <3>3 DEF QuietInv, GraceInv, OffInv
  <2> QED BY <2>3, <2>4
<1>4. CASE ReadStale
  <2>1. reap = "stale" /\ reap' \in {"persist", "deactivate"} /\ UNCHANGED <<seen, epoch, pass>>
    BY <1>4 DEF ReadStale, ReapGoto, valkeyVars
  <2>2. found'.fresh = found.fresh
    BY <1>0, <1>4, AgeFacts, FoundFields DEF ReadStale, TypeOK
  <2> QED BY <1>1, <2>1, <2>2 DEF QuietInv, SignInv, GraceInv, OffInv
<1>5. CASE PersistStale
  <2>1. reap = "persist" /\ reap' = "remove" /\ UNCHANGED <<seen, epoch, pass>>
    BY <1>5 DEF PersistStale, ReapGoto, valkeyVars
  <2>2. found'.fresh = found.fresh
    BY <1>0, <1>5, AgeFacts, FoundFields DEF PersistStale
  <2> QED BY <1>1, <2>1, <2>2 DEF QuietInv, SignInv, GraceInv, OffInv
<1>6. CASE RemoveStale
  <2>1. /\ reap = "remove" /\ reap' = "deactivate" /\ UNCHANGED <<epoch, pass, found>>
        /\ seen' = IF Silent THEN Never ELSE seen
    BY <1>6 DEF RemoveStale, ReapGoto
  <2>2. SignInv'
    BY <1>0, <1>1, <2>1 DEF QuietInv, SignInv, Silent, Fresh
  <2> QED BY <1>1, <2>1, <2>2 DEF QuietInv, GraceInv, OffInv
<1>7. CASE Deactivate \/ ReapCut
  <2>1. reap' = "start" /\ UNCHANGED <<seen, epoch>>
    BY <1>7 DEF Deactivate, ReapCut, ReapGoto, valkeyVars
  <2> QED BY <1>1, <2>1 DEF QuietInv, SignInv, GraceInv, OffInv
<1> QED BY <1>2, <1>3, <1>4, <1>5, <1>6, <1>7 DEF ReapStep

LEMMA QuietTick ==
  ASSUME TypeOK, QuietInv, Tick
  PROVE  QuietInv'
<1>0. quiet \in Nat /\ pass \in Nat /\ seen \in Age /\ seen \in Nat /\ epoch \in Nat /\ found \in Found
      /\ quiet <= Ttl /\ (epoch <= Ttl + Lag \/ epoch = Never)
  BY QuietTypes DEF TypeOK
<1>1. /\ UNCHANGED reap /\ seen' = Aged(seen) /\ epoch' = Capped(epoch, Ttl + Lag) /\ quiet' = Capped(quiet, Ttl)
      /\ pass' = IF reap = "start" THEN 0 ELSE pass + 1
  BY DEF Tick
<1>2. found'.fresh = found.fresh /\ found'.grace = found.grace
  BY <1>0, FoundFacts, FoundFields, AgeFacts DEF Tick
<1>3. /\ quiet < Ttl => quiet' = quiet + 1
      /\ quiet = Ttl => quiet' = Ttl
      /\ epoch < Ttl + Lag => epoch' = epoch + 1
      /\ epoch >= Ttl + Lag => epoch' = epoch
  BY <1>0, <1>1 DEF Capped
<1>4. seen' \in Nat /\ seen' <= seen + 1
  BY <1>0, <1>1, AgeFacts
<1>5. Ttl + Lag < Never
  BY AgeFacts
<1>6. SignInv'
  BY <1>0, <1>3, <1>4, <1>5 DEF QuietInv, SignInv
<1>7. GraceInv'
  BY <1>0, <1>1, <1>2, <1>3, <1>5 DEF QuietInv, GraceInv
<1>8. OffInv'
  BY <1>0, <1>1, <1>2, <1>3, <1>5 DEF QuietInv, OffInv
<1> QED BY <1>6, <1>7, <1>8 DEF QuietInv

LEMMA QuietNext == TypeOK /\ QuietInv /\ [Next]_vars => QuietInv'
<1> SUFFICES ASSUME TypeOK, QuietInv, [Next]_vars PROVE QuietInv'
  OBVIOUS
<1>1. CASE Cut \/ UNCHANGED vars
  BY <1>1
  DEF Cut, vars, valkeyVars, reaperVars, histVars, QuietInv, SignInv, GraceInv, OffInv
<1>2. CASE ValkeyRestart
  BY <1>2, AgeFacts
  DEF ValkeyRestart, reaperVars, histVars, QuietInv, SignInv, GraceInv, OffInv
<1> QED BY <1>1, <1>2, QuietSession, QuietReaper, QuietTick DEF Next

(* Only the end of a pass switches the device off, if the pass has not     *)
(* found it fresh.                                                         *)
LEMMA QuietStep ==
  ASSUME TypeOK, QuietInv, [Next]_vars, active, ~active'
  PROVE  quiet + Lag >= Ttl \/ quiet <= pass \/ epoch = Never
<1>1. CASE Deactivate
  <2>1. reap = "deactivate" /\ ~found.fresh
    BY <1>1 DEF Deactivate, ReapGoto
  <2> QED BY <2>1 DEF QuietInv, OffInv
<1>2. CASE ~Deactivate
  <2>1. UNCHANGED active \/ active'
    BY <1>2
    DEF Next, TaskStep, ReapStep, Connect, Claim, Release, Persist, Frame, Leave, Crash, Cut, StartPass,
        ReadFresh, ReadStale, PersistStale, RemoveStale, ReapCut, ValkeyRestart, Tick, vars
  <2> QED BY <2>1
<1> QED BY <1>1, <1>2

(* A device is switched off only when it was silent for the TTL, less what *)
(* the clocks differ, or has come back since the pass began, or Valkey was *)
(* restarted in the middle of the pass (deactivate_stale and its grace),   *)
(* for any sessions, skew and delays.                                      *)
THEOREM OffWhenSilent == Spec => OffOnlyIfSilent
<1>1. Init => TypeOK /\ QuietInv
  BY TypeInit, QuietInit
<1>2. TypeOK /\ QuietInv /\ [Next]_vars => (TypeOK /\ QuietInv)'
  BY TypeNext, QuietNext
<1>3. TypeOK /\ QuietInv /\ [Next]_vars =>
        [active /\ ~active' => quiet + Lag >= Ttl \/ quiet <= pass \/ epoch = Never]_vars
  BY QuietStep
<1> QED BY <1>1, <1>2, <1>3, PTL DEF Spec, OffOnlyIfSilent
=============================================================================
