--------------------------- MODULE DeviceLiveness ---------------------------
(***************************************************************************)
(* The signs of life of one device (crates/pnex-backend services           *)
(* device_liveness.rs): its sessions claim and touch a lease in Valkey     *)
(* with the last sign of life, a release writes it to PostgreSQL, and the  *)
(* reaper switches the device on and off and moves the sign of life of a   *)
(* silent one to PostgreSQL.  How sessions replace each other is in        *)
(* DeviceSessions: here a session may end at any moment.                   *)
(*                                                                         *)
(* The unit of time is the interval of the pings of a device (5 s).  What  *)
(* is kept of an instant is its age, up to MaxAge, by the clock that is    *)
(* most ahead.  Scores, cutoffs and the marker are readings of the clock   *)
(* of a pod before its call: an instant of up to Lag ago.                  *)
(***************************************************************************)
EXTENDS Naturals

CONSTANTS
  Session,   \* numbers
  Ttl,       \* silence_ttl_secs
  Lag,       \* bound on the skew of the pods' clocks and the delay of a call
  WriteMax,  \* bound on how long the write of a release takes
  PassMax,   \* bound on how long a pass of the reaper takes
  MaxAge,
  MaxFaults, \* bound on restarts of Valkey, crashes and calls that fail
  NoSession

ASSUME TimeAssumption ==
  /\ Ttl \in Nat \ {0} /\ Lag \in Nat /\ WriteMax \in Nat /\ PassMax \in Nat
  /\ Lag <= WriteMax /\ WriteMax + Lag < Ttl /\ Lag <= PassMax
  /\ MaxAge \in Nat /\ Ttl + PassMax <= MaxAge
ASSUME BoundAssumption == MaxFaults \in Nat
ASSUME NoneAssumption == Session \subseteq Nat /\ NoSession \notin Session

VARIABLES
  device, \* the session the device is connected on
  pc,     \* where the task of a session is
  mark,   \* age of the instant that its release writes
  lease,  \* owner, and what is left of it
  seen,   \* age of the score of the device
  epoch,  \* age of the marker of the reaper, up to Ttl + Lag
  cold,   \* age of device_states.last_seen_at
  active, \* device_registries.active
  reap,   \* next call of the reaper
  pass,   \* age of the instant it has taken for its pass
  found,  \* what the pass has found: in grace, fresh, age of the stale score
  pinged, \* the device has sent a frame in this unit of time
  quiet,  \* history: age of the last claim or touch, up to Ttl
  faults

sessionVars == <<device, pc, mark>>
valkeyVars == <<lease, seen, epoch>>
reaperVars == <<reap, pass, found>>
histVars == <<pinged, quiet>>
vars == <<sessionVars, valkeyVars, reaperVars, cold, active, histVars, faults>>

Never == MaxAge + 1
Age == 0 .. Never

Lease == [by : Session \cup {NoSession}, left : 0 .. Ttl]
Found == [grace : BOOLEAN, fresh : BOOLEAN, stale : Age]

TypeOK ==
  /\ device \in Session \cup {NoSession}
  /\ pc \in [Session -> {"new", "claim", "loop", "release", "persist", "done"}]
  /\ mark \in [Session -> 0 .. WriteMax] /\ lease \in Lease
  /\ seen \in Age /\ epoch \in 0 .. Ttl + Lag \cup {Never} /\ cold \in Age /\ active \in BOOLEAN
  /\ reap \in {"start", "fresh", "stale", "persist", "remove", "deactivate"}
  /\ pass \in 0 .. PassMax /\ found \in Found
  /\ pinged \in BOOLEAN /\ quiet \in 0 .. Ttl /\ faults \in 0 .. MaxFaults

NoLease == [by |-> NoSession, left |-> 0]
Nothing == [grace |-> FALSE, fresh |-> FALSE, stale |-> Never]

(* A new device of a fleet that has been running. *)
Init ==
  /\ device = NoSession
  /\ pc = [s \in Session |-> "new"] /\ mark = [s \in Session |-> 0]
  /\ lease = NoLease /\ seen = Never /\ epoch = Ttl + Lag /\ cold = Never /\ active = FALSE
  /\ reap = "start" /\ pass = 0 /\ found = Nothing
  /\ pinged = FALSE /\ quiet = Ttl /\ faults = 0

Fault == faults < MaxFaults /\ faults' = faults + 1

Goto(s, from, to) == pc[s] = from /\ pc' = [pc EXCEPT ![s] = to]

Hangup(s) == device' = IF device = s THEN NoSession ELSE device

Free(s) == lease.by \in {s, NoSession}

-----------------------------------------------------------------------------
(* A session. *)

(* The next session of the device. *)
Connect(s) ==
  /\ device = NoSession /\ device' = s
  /\ \A t \in Session : t < s => pc[t] # "new"
  /\ Goto(s, "new", "claim")
  /\ UNCHANGED <<mark, valkeyVars, reaperVars, cold, active, histVars, faults>>

(* Mutant: the script does not note the sign of life. *)
SignLease(s) ==
  /\ Free(s)
  /\ lease' = [by |-> s, left |-> Ttl] /\ quiet' = 0 /\ UNCHANGED seen

(* CLAIM and TOUCH *)
Sign(s) ==
  /\ Free(s)
  /\ lease' = [by |-> s, left |-> Ttl] /\ quiet' = 0 /\ seen' \in 0 .. Lag

(* Granted; refused, as another session holds the lease; or the call has   *)
(* failed, whether the script has run or not.                              *)
Claim(s) ==
  /\ \/ Goto(s, "claim", "loop") /\ Sign(s) /\ UNCHANGED <<device, faults>>
     \/ /\ Goto(s, "claim", "done") /\ Hangup(s)
        /\ \/ ~Free(s) /\ UNCHANGED <<lease, seen, quiet, faults>>
           \/ (Sign(s) \/ UNCHANGED <<lease, seen, quiet>>) /\ Fault
  /\ UNCHANGED <<mark, epoch, reaperVars, cold, active, pinged>>

(* A frame of the device, which touches the lease. *)
Frame(s) ==
  /\ device = s /\ pc[s] = "loop"
  /\ pinged' = TRUE
  /\ (Sign(s) /\ UNCHANGED faults) \/ (UNCHANGED <<lease, seen, quiet>> /\ Fault)
  /\ UNCHANGED <<sessionVars, epoch, reaperVars, cold, active>>

(* The session ends: replaced, outrun, silent, closed or revoked. *)
Leave(s) ==
  /\ Goto(s, "loop", "release") /\ Hangup(s)
  /\ UNCHANGED <<mark, valkeyVars, reaperVars, cold, active, histVars, faults>>

(* RELEASE *)
Drop(s) == Free(s) /\ lease' = NoLease /\ seen' \in 0 .. Lag

(* The last sign of life is now, for both stores; or the release is not of *)
(* the owner, or has failed, whether the script has run or not.            *)
Release(s) ==
  /\ \/ /\ Goto(s, "release", "persist") /\ Drop(s)
        /\ mark' = [mark EXCEPT ![s] = seen'] /\ UNCHANGED faults
     \/ /\ Goto(s, "release", "done") /\ UNCHANGED mark
        /\ \/ ~Free(s) /\ UNCHANGED <<lease, seen, faults>>
           \/ (Drop(s) \/ UNCHANGED <<lease, seen>>) /\ Fault
  /\ UNCHANGED <<device, epoch, reaperVars, cold, active, histVars>>

(* persist_last_seen, which may fail *)
Persist(s) ==
  /\ Goto(s, "persist", "done")
  /\ (cold' = mark[s] /\ UNCHANGED faults) \/ (UNCHANGED cold /\ Fault)
  /\ mark' = [mark EXCEPT ![s] = 0]
  /\ UNCHANGED <<device, valkeyVars, reaperVars, active, histVars>>

(* The device loses its connection.  The task may not know for long. *)
Cut ==
  /\ device # NoSession /\ device' = NoSession
  /\ UNCHANGED <<pc, mark, valkeyVars, reaperVars, cold, active, histVars, faults>>

-----------------------------------------------------------------------------
(* The reaper, deactivate_stale. *)

ReapGoto(from, to) == reap = from /\ reap' = to

(* Mutant: a marker that was missing does not hold the pass back. *)
StartPassUngraced ==
  /\ ReapGoto("start", "fresh")
  /\ pass' \in 0 .. Lag
  /\ epoch' = (IF epoch = Never THEN pass' ELSE epoch) /\ UNCHANGED found
  /\ UNCHANGED <<sessionVars, lease, seen, cold, active, histVars, faults>>

(* The cutoff is fixed, and the marker set if it is missing. *)
StartPass ==
  /\ ReapGoto("start", "fresh")
  /\ pass' \in 0 .. Lag
  /\ epoch' = (IF epoch = Never THEN pass' ELSE epoch)
  /\ found' = [found EXCEPT !.grace = (epoch' < Ttl + pass')]
  /\ UNCHANGED <<sessionVars, lease, seen, cold, active, histVars, faults>>

Fresh == seen < Ttl + pass
Silent == seen # Never /\ ~Fresh

(* The fresh devices are read, then activated: nobody else writes active.  *)
(* In grace that is all.                                                   *)
ReadFresh ==
  /\ ReapGoto("fresh", IF found.grace THEN "start" ELSE "stale")
  /\ active' = (active \/ Fresh)
  /\ found' = IF found.grace THEN Nothing ELSE [found EXCEPT !.fresh = Fresh]
  /\ UNCHANGED <<pass, sessionVars, valkeyVars, cold, histVars, faults>>

ReadStale ==
  /\ ReapGoto("stale", IF Silent THEN "persist" ELSE "deactivate")
  /\ found' = [found EXCEPT !.stale = IF Silent THEN seen ELSE Never]
  /\ UNCHANGED <<pass, sessionVars, valkeyVars, cold, active, histVars, faults>>

PersistStale ==
  /\ ReapGoto("persist", "remove")
  /\ cold' = found.stale /\ found' = [found EXCEPT !.stale = Never]
  /\ UNCHANGED <<pass, sessionVars, valkeyVars, active, histVars, faults>>

(* Mutant: what was read is removed, whatever its score is by now. *)
RemoveRead ==
  /\ ReapGoto("remove", "deactivate")
  /\ seen' = Never
  /\ UNCHANGED <<pass, found, sessionVars, lease, epoch, cold, active, histVars, faults>>

RemoveStale ==
  /\ ReapGoto("remove", "deactivate")
  /\ seen' = IF Silent THEN Never ELSE seen
  /\ UNCHANGED <<pass, found, sessionVars, lease, epoch, cold, active, histVars, faults>>

Deactivate ==
  /\ ReapGoto("deactivate", "start")
  /\ active' = (active /\ found.fresh) /\ found' = Nothing
  /\ UNCHANGED <<pass, sessionVars, valkeyVars, cold, histVars, faults>>

ReapStep ==
  \/ StartPass \/ ReadFresh \/ ReadStale \/ PersistStale \/ RemoveStale \/ Deactivate

(* A call of the pass fails, or its pod ends. *)
ReapCut ==
  /\ reap # "start" /\ Fault
  /\ reap' = "start" /\ found' = Nothing
  /\ UNCHANGED <<pass, sessionVars, valkeyVars, cold, active, histVars>>

-----------------------------------------------------------------------------
(* The environment. *)

(* Nothing is kept. *)
ValkeyRestart ==
  /\ Fault
  /\ lease' = NoLease /\ seen' = Never /\ epoch' = Never
  /\ UNCHANGED <<sessionVars, reaperVars, cold, active, histVars>>

(* The pod of a session ends. *)
Crash(s) ==
  /\ pc[s] \notin {"new", "done"} /\ Fault
  /\ pc' = [pc EXCEPT ![s] = "done"] /\ mark' = [mark EXCEPT ![s] = 0] /\ Hangup(s)
  /\ UNCHANGED <<valkeyVars, reaperVars, cold, active, histVars>>

(* Mutant: an age grows beyond its bound. *)
AgedBeyond(n) == n + 1

Aged(n) == IF n < MaxAge THEN n + 1 ELSE n
Capped(n, max) == IF n < max THEN n + 1 ELSE n

(* A device that is connected has sent its ping; writes and passes end in  *)
(* time.                                                                   *)
Tick ==
  /\ device \in Session => (pc[device] = "loop" => pinged)
  /\ \A s \in Session : pc[s] = "persist" => mark[s] < WriteMax
  /\ reap # "start" => pass < PassMax
  /\ pinged' = FALSE
  /\ pass' = IF reap = "start" THEN 0 ELSE pass + 1
  /\ mark' = [s \in Session |-> IF pc[s] = "persist" THEN mark[s] + 1 ELSE 0]
  /\ lease' = IF lease.left <= 1 THEN NoLease ELSE [by |-> lease.by, left |-> lease.left - 1]
  /\ seen' = Aged(seen) /\ cold' = Aged(cold)
  /\ found' = [found EXCEPT !.stale = Aged(@)]
  /\ epoch' = Capped(epoch, Ttl + Lag) /\ quiet' = Capped(quiet, Ttl)
  /\ UNCHANGED <<device, pc, reap, active, faults>>

TaskStep(s) == Claim(s) \/ Release(s) \/ Persist(s)

Next ==
  \/ \E s \in Session : Connect(s) \/ TaskStep(s) \/ Frame(s) \/ Leave(s) \/ Crash(s)
  \/ Cut \/ ReapStep \/ ReapCut \/ ValkeyRestart \/ Tick

Spec == Init /\ [][Next]_vars

(* Time passes, tasks and reaper go on, a device that is connected sends   *)
(* frames, and the watchdog ends a session that is not connected any more. *)
Fairness ==
  /\ WF_vars(Tick) /\ WF_vars(ReapStep)
  /\ \A s \in Session :
       WF_vars(TaskStep(s)) /\ WF_vars(Frame(s)) /\ WF_vars(device # s /\ Leave(s))

LiveSpec == Spec /\ Fairness

-----------------------------------------------------------------------------
(* The last sign of life that seen_many finds. *)
LastSeen == IF seen < cold THEN seen ELSE cold

(* The last sign of life that the API shows does not go back in time, by   *)
(* more than the clocks differ, when the reaper, a release and a new       *)
(* session write it.  Restarts of Valkey lose it (device_liveness.rs:16-18 *)
(* says they do not): they are excepted, up to the end of the grace.       *)
SeenGrows ==
  [][Tick \/ ValkeyRestart \/ epoch # Ttl + Lag \/ LastSeen' <= LastSeen + Lag]_vars

(* A device is switched off only when it was silent for the TTL, less what *)
(* the clocks differ, or has come back since the pass began.  A restart of *)
(* Valkey switches no device off, unless it comes in the middle of the     *)
(* pass.                                                                   *)
OffOnlyIfSilent ==
  [][active /\ ~active' => quiet + Lag >= Ttl \/ quiet <= pass \/ epoch = Never]_vars

(* A device that stays connected ends up active, one that stays away       *)
(* inactive.                                                               *)
ActiveFollows ==
  /\ <>[](device # NoSession) => <>[]active
  /\ <>[](device = NoSession) => <>[]~active
=============================================================================
