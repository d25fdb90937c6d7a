------------------------------ MODULE RowLease ------------------------------
(***************************************************************************)
(* One row of flow_leases and the processes that compete for it: the       *)
(* placement controllers (lease "flow-placement") and the singleton sweeps *)
(* (leases "task:<name>").                                                 *)
(*                                                                         *)
(* The expiry is written and compared with the database clock, so one      *)
(* clock is enough.  Instants are kept as time left: a duration of -1      *)
(* stands for every instant in the past, which makes the model finite      *)
(* without bounding time.                                                  *)
(*                                                                         *)
(* What other modules also name carries the prefix Lease, so that one      *)
(* module can extend this one and that of the rounds run under the lease.  *)
(***************************************************************************)
EXTENDS Integers

CONSTANTS
  Holder,   \* process identities; a restarted process has a new boot, hence a new identity
  NoHolder, \* the row is absent
  Ttl       \* duration of a grant, in clock ticks

ASSUME TtlAssumption == Ttl \in Nat \ {0}
ASSUME HolderAssumption == NoHolder \notin Holder

VARIABLES
  holder,  \* flow_leases.holder, NoHolder when there is no row
  left,    \* flow_leases.expires_at - now()
  grant,   \* what the database last promised each process: time left of its grant
  loop,    \* where each process is in its periodic loop
  gaveBack \* processes that released the lease in their shutdown hook

leaseVars == <<holder, left, grant, loop, gaveBack>>

Left == -1 .. Ttl
LoopState == {"idle", "insert", "round", "exited"}

LeaseTypeOK ==
  /\ holder \in Holder \cup {NoHolder}
  /\ left \in Left
  /\ grant \in [Holder -> Left]
  /\ loop \in [Holder -> LoopState]
  /\ gaveBack \in SUBSET Holder

LeaseInit ==
  /\ holder = NoHolder
  /\ left = -1
  /\ grant = [h \in Holder |-> -1]
  /\ loop = [h \in Holder |-> "idle"]
  /\ gaveBack = {}

-----------------------------------------------------------------------------
(* Mutant: expires_at = expires_at + interval. *)
GrantedFromExpiry(h) ==
  /\ holder' = h
  /\ left' = left + Ttl
  /\ grant' = [grant EXCEPT ![h] = left + Ttl]
  /\ loop' = [loop EXCEPT ![h] = "round"]
  /\ UNCHANGED gaveBack

(* The row belongs to h for Ttl from now on, and h starts its round. *)
Granted(h) ==
  /\ holder' = h
  /\ left' = Ttl
  /\ grant' = [grant EXCEPT ![h] = Ttl]
  /\ loop' = [loop EXCEPT ![h] = "round"]
  /\ UNCHANGED gaveBack

(* Mutant: expires_at <= now(). *)
MayTakeOnExpiry(h) == holder = h \/ left <= 0

(* Mutant: the row is only ever renewed. *)
MayTakeOwnOnly(h) == holder = h

(* WHERE holder = me OR expires_at < now() *)
MayTake(h) == holder = h \/ left < 0

(* First statement of try_lease: renew or take over the existing row. *)
TryUpdate(h) ==
  /\ loop[h] = "idle"
  /\ holder # NoHolder /\ MayTake(h)
  /\ Granted(h)

(* The update matched no row: the insert follows, in a later statement. *)
UpdateMatchesNothing(h) ==
  /\ loop[h] = "idle"
  /\ ~(holder # NoHolder /\ MayTake(h))
  /\ loop' = [loop EXCEPT ![h] = "insert"]
  /\ UNCHANGED <<holder, left, grant, gaveBack>>

(* Mutant: ON CONFLICT DO UPDATE. *)
TryInsertOverwriting(h) ==
  /\ loop[h] = "insert"
  /\ Granted(h)

(* Second statement: INSERT ... ON CONFLICT DO NOTHING. *)
TryInsert(h) ==
  /\ loop[h] = "insert"
  /\ holder = NoHolder
  /\ Granted(h)

(* The statement is executed but its reply is lost (an error for try_lease): *)
(* the row is h's, h does not know it and skips its round.                   *)
GrantReplyLost(h) ==
  /\ \/ loop[h] = "idle" /\ holder # NoHolder /\ MayTake(h)
     \/ loop[h] = "insert" /\ holder = NoHolder
  /\ holder' = h
  /\ left' = Ttl
  /\ loop' = [loop EXCEPT ![h] = "idle"]
  /\ UNCHANGED <<grant, gaveBack>>

(* The insert conflicts or the database fails: no lease, round skipped. *)
RoundSkipped(h) ==
  /\ loop[h] = "insert"
  /\ loop' = [loop EXCEPT ![h] = "idle"]
  /\ UNCHANGED <<holder, left, grant, gaveBack>>

(* The work done under the lease ends, whatever time it took. *)
RoundEnds(h) ==
  /\ loop[h] = "round"
  /\ loop' = [loop EXCEPT ![h] = "idle"]
  /\ UNCHANGED <<holder, left, grant, gaveBack>>

(* Mutant: the DELETE filters on the name alone. *)
ReleaseAnyHolder(h) ==
  /\ loop[h] # "exited" /\ h \notin gaveBack
  /\ holder' = NoHolder
  /\ left' = -1
  /\ grant' = [grant EXCEPT ![h] = -1]
  /\ gaveBack' = gaveBack \cup {h}
  /\ UNCHANGED loop

(* release_lease / release_task_leases, once, from the shutdown hook: the  *)
(* row goes if it is still h's.  The periodic loop is not told.            *)
Release(h) ==
  /\ loop[h] # "exited" /\ h \notin gaveBack
  /\ holder' = IF holder = h THEN NoHolder ELSE holder
  /\ left' = IF holder = h THEN -1 ELSE left
  /\ grant' = [grant EXCEPT ![h] = -1]
  /\ gaveBack' = gaveBack \cup {h}
  /\ UNCHANGED loop

(* The process ends: killed, or at the end of its shutdown. *)
Exit(h) ==
  /\ loop[h] # "exited"
  /\ loop' = [loop EXCEPT ![h] = "exited"]
  /\ UNCHANGED <<holder, left, grant, gaveBack>>

Elapse(d) == IF d < 0 THEN d ELSE d - 1

(* The database clock advances. *)
Tick ==
  /\ left' = Elapse(left)
  /\ grant' = [h \in Holder |-> Elapse(grant[h])]
  /\ UNCHANGED <<holder, loop, gaveBack>>

LeaseNext ==
  \/ \E h \in Holder :
       \/ TryUpdate(h)
       \/ UpdateMatchesNothing(h)
       \/ TryInsert(h)
       \/ GrantReplyLost(h)
       \/ RoundSkipped(h)
       \/ RoundEnds(h)
       \/ Release(h)
       \/ Exit(h)
  \/ Tick

LeaseSpec == LeaseInit /\ [][LeaseNext]_leaseVars

(***************************************************************************)
(* Fairness: every loop keeps ticking while its process lives, its round   *)
(* ends, and time passes.  Strong fairness on the two statements of        *)
(* try_lease: the database does not fail them, nor lose their replies, for *)
(* ever.                                                                   *)
(***************************************************************************)
LeaseFairness ==
  /\ \A h \in Holder :
       /\ SF_leaseVars(TryUpdate(h))
       /\ WF_leaseVars(UpdateMatchesNothing(h))
       /\ SF_leaseVars(TryInsert(h))
       /\ WF_leaseVars(RoundSkipped(h))
       /\ WF_leaseVars(RoundEnds(h))
  /\ WF_leaseVars(Tick)

LeaseLiveSpec == LeaseSpec /\ LeaseFairness

-----------------------------------------------------------------------------
(* What makes the lease exclusive: a grant of try_lease that has not run   *)
(* out is backed by the row, which lasts at least as long.                 *)
GrantBackedByRow ==
  \A h \in Holder : grant[h] >= 0 => (holder = h /\ left >= grant[h])

(* The database never promises the lease to two processes at once: while a *)
(* grant of store::try_lease runs, no other process has one.               *)
ExclusiveGrant ==
  \A g, h \in Holder : (grant[g] >= 0 /\ grant[h] >= 0) => g = h

(* A lease changes hands only when its grant has run out or its holder has *)
(* given it back; in particular a late release never removes the row of    *)
(* the process that took over.                                             *)
NeverStolen ==
  [][\A h \in Holder :
       (holder = h /\ holder' # h)
         => (left < 0 \/ h \in gaveBack' \ gaveBack)]_leaseVars

(* A crashed or stuck holder never blocks the others for good: as long as  *)
(* one process lives, rounds keep being run.                               *)
RoundsGoOn ==
  \/ []<>(\E h \in Holder : loop[h] = "round")
  \/ <>[](\A h \in Holder : loop[h] = "exited")

(* Contradicted by the code.  store.rs says of the release at shutdown     *)
(* that "the next candidate takes over at once instead of waiting for the  *)
(* expiry": the process that gave the lease back would not take it again.  *)
GivenBackForGood ==
  [][\A h \in gaveBack : holder' = h => holder = h]_leaseVars

(* Contradicted by the code.  singleton.rs says that a periodic sweep      *)
(* "runs on ONE pod": no two processes would be in a round at once.        *)
OneSweeper ==
  \A g, h \in Holder : (loop[g] = "round" /\ loop[h] = "round") => g = h
=============================================================================
