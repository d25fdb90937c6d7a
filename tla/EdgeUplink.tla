----------------------------- MODULE EdgeUplink -----------------------------
(***************************************************************************)
(* The way of measured points from the durable queue of an edge agent to   *)
(* the server (crates/pnex-edge-agent queue.rs, uplink.rs, and on the      *)
(* server services/edge_agent.rs): numbered points, a window of batches    *)
(* per connection, cumulative acknowledgements, and a high-water mark that *)
(* the server keeps in the session and in Valkey to skip what it has.      *)
(*                                                                         *)
(* Either end may go away at any moment.  The server notices the end of a  *)
(* connection late: an old session goes on with what it has received while *)
(* the next one is served, possibly by another pod.                        *)
(***************************************************************************)
EXTENDS Naturals, Sequences, FiniteSets

CONSTANTS
  Window,    \* batches in flight
  MaxBatch,  \* points in a batch
  MaxPoints, \* bound of the queue
  MaxSeq,    \* bound on the points committed
  MaxConn,   \* bound on the connections
  MaxFaults, \* bound on the faults of the server and of the disk
  NoMark     \* the session has not read the mark

ASSUME SizeAssumption == Window \in Nat \ {0} /\ MaxBatch \in Nat \ {0} /\ MaxPoints \in Nat
ASSUME BoundAssumption == MaxSeq \in Nat /\ MaxConn \in Nat /\ MaxFaults \in Nat
ASSUME MarkAssumption == NoMark \notin Nat

VARIABLES
  (* the agent: the file of the queue and the memory of the process *)
  queue,    \* numbers of the points stored
  next,     \* next_seq
  acked,    \* Shared::acked_up_to
  link,     \* "down" or "up"
  cur,      \* connections made so far, the last one is the current one
  sentUpTo, \* last number sent on it
  inflight, \* last numbers of the batches sent and not acknowledged
  (* the network, per connection *)
  up, down, \* batches and acknowledgements under way
  (* the server *)
  sess,     \* state of the session of each connection
  hwm,      \* the mark it has in memory
  top,      \* last point of the batch it has just ingested
  mark,     \* the mark in Valkey, 0 when absent
  (* history *)
  ingested, \* points handed to the telemetry sink or dropped by the quota
  twice,    \* points ingested more than once
  trimmed,  \* points the queue gave up
  faults,
  calm      \* no mark was lost and no two sessions ingested side by side

agentVars == <<queue, next, acked, link, cur, sentUpTo, inflight>>
sessVars == <<sess, hwm, top>>
serverVars == <<sessVars, mark>>
histVars == <<ingested, twice, trimmed, faults, calm>>
vars == <<agentVars, up, down, serverVars, histVars>>

Conn == 1 .. MaxConn
Seqno == 1 .. MaxSeq

(* Some consecutive points of the queue; top is the number of the last. *)
Batch == [points : SUBSET Seqno, top : Seqno]

(* "ingested": the session has processed a batch, and has neither stored   *)
(* the mark nor answered; "skipped": it had all of it already.             *)
Session == {"none", "read", "ingested", "skipped", "closed"}

TypeOK ==
  /\ queue \subseteq Seqno /\ next \in 1 .. MaxSeq + 1
  /\ acked \in 0 .. MaxSeq /\ link \in {"down", "up"} /\ cur \in 0 .. MaxConn
  /\ sentUpTo \in 0 .. MaxSeq /\ inflight \in Seq(Seqno) /\ Len(inflight) <= Window
  /\ up \in [Conn -> Seq(Batch)] /\ down \in [Conn -> Seq(0 .. MaxSeq)]
  /\ sess \in [Conn -> Session]
  /\ hwm \in [Conn -> 0 .. MaxSeq \cup {NoMark}] /\ top \in [Conn -> 0 .. MaxSeq]
  /\ mark \in 0 .. MaxSeq
  /\ ingested \subseteq Seqno /\ twice \subseteq Seqno /\ trimmed \subseteq Seqno
  /\ faults \in 0 .. MaxFaults /\ calm \in BOOLEAN
  /\ link = "up" => cur > 0
  /\ \A c \in Conn : sess[c] = "ingested" => hwm[c] # NoMark

Init ==
  /\ queue = {} /\ next = 1
  /\ acked = 0 /\ link = "down" /\ cur = 0 /\ sentUpTo = 0 /\ inflight = <<>>
  /\ up = [c \in Conn |-> <<>>] /\ down = [c \in Conn |-> <<>>]
  /\ sess = [c \in Conn |-> "none"] /\ hwm = [c \in Conn |-> NoMark]
  /\ top = [c \in Conn |-> 0] /\ mark = 0
  /\ ingested = {} /\ twice = {} /\ trimmed = {} /\ faults = 0 /\ calm = TRUE

Fault == faults < MaxFaults /\ faults' = faults + 1

Larger(m, n) == IF m < n THEN n ELSE m

-----------------------------------------------------------------------------
(* The queue. *)

(* One point is committed, with the next number. *)
Append1 ==
  /\ next <= MaxSeq
  /\ queue' = queue \cup {next}
  /\ next' = next + 1
  /\ UNCHANGED <<acked, link, cur, sentUpTo, inflight, up, down, serverVars, histVars>>

(* trim: the oldest points go, at least those beyond the bound, and any    *)
(* number more by their age.                                               *)
Trim ==
  /\ \E keep \in SUBSET queue :
       /\ keep # queue /\ Cardinality(keep) <= MaxPoints
       /\ \A k \in keep, v \in queue \ keep : v < k
       /\ queue' = keep
       /\ trimmed' = trimmed \cup (queue \ keep)
  /\ UNCHANGED <<next, acked, link, cur, sentUpTo, inflight, up, down, serverVars,
                 ingested, twice, faults, calm>>

-----------------------------------------------------------------------------
(* The uplink of the agent. *)

(* Mutant: a session goes on where the previous one stopped sending. *)
ConnectResumes ==
  /\ link = "down" /\ cur < MaxConn
  /\ link' = "up" /\ cur' = cur + 1
  /\ inflight' = <<>>
  /\ sess' = [sess EXCEPT ![cur + 1] = "read"]
  /\ UNCHANGED <<queue, next, acked, sentUpTo, up, down, hwm, top, mark, histVars>>

(* A connection is open on both sides: nothing is sent or in flight on it. *)
Connect ==
  /\ link = "down" /\ cur < MaxConn
  /\ link' = "up" /\ cur' = cur + 1
  /\ sentUpTo' = acked /\ inflight' = <<>>
  /\ sess' = [sess EXCEPT ![cur + 1] = "read"]
  /\ UNCHANGED <<queue, next, acked, up, down, hwm, top, mark, histVars>>

(* read_after: the next points in order, up to t. *)
ReadAfter(t) == [points |-> {s \in queue : sentUpTo < s /\ s <= t}, top |-> t]

(* Mutant: one batch too many. *)
SendBeyondWindow ==
  /\ link = "up" /\ Len(inflight) <= Window
  /\ \E t \in queue :
       /\ sentUpTo < t /\ Cardinality(ReadAfter(t).points) <= MaxBatch
       /\ up' = [up EXCEPT ![cur] = Append(@, ReadAfter(t))]
       /\ sentUpTo' = t
       /\ inflight' = Append(inflight, t)
  /\ UNCHANGED <<queue, next, acked, link, cur, down, serverVars, histVars>>

(* As many of the next points as fit are sent, if the window has room. *)
Send ==
  /\ link = "up" /\ Len(inflight) < Window
  /\ \E t \in queue :
       /\ sentUpTo < t /\ Cardinality(ReadAfter(t).points) <= MaxBatch
       /\ up' = [up EXCEPT ![cur] = Append(@, ReadAfter(t))]
       /\ sentUpTo' = t
       /\ inflight' = Append(inflight, t)
  /\ UNCHANGED <<queue, next, acked, link, cur, down, serverVars, histVars>>

(* Mutant: acknowledged batches stay in the window. *)
NonePopped(k, upTo) == k = 0

(* The first k batches in flight are all that upTo acknowledges. *)
Popped(k, upTo) ==
  /\ \A i \in 1 .. k : inflight[i] <= upTo
  /\ k < Len(inflight) => upTo < inflight[k + 1]

(* BatchAck: the points leave the queue, unless the purge fails. *)
RecvAck ==
  /\ link = "up" /\ down[cur] # <<>>
  /\ LET upTo == Head(down[cur])
     IN /\ \/ queue' = {s \in queue : s > upTo} /\ UNCHANGED faults
           \/ UNCHANGED queue /\ Fault
        /\ acked' = Larger(acked, upTo)
        /\ \E k \in 0 .. Len(inflight) :
             Popped(k, upTo) /\ inflight' = SubSeq(inflight, k + 1, Len(inflight))
  /\ down' = [down EXCEPT ![cur] = Tail(@)]
  /\ UNCHANGED <<next, link, cur, sentUpTo, up, serverVars, ingested, twice, trimmed, calm>>

(* The connection fails or its acknowledgement is overdue.  What was sent  *)
(* may still reach the server, the answers reach nobody.                   *)
Hangup ==
  /\ link' = "down"
  /\ down' = [down EXCEPT ![cur] = <<>>]

Disconnect ==
  /\ link = "up" /\ cur < MaxConn
  /\ Hangup
  /\ UNCHANGED <<queue, next, acked, cur, sentUpTo, inflight, up, serverVars, histVars>>

(* The agent restarts: the file stays. *)
Restart ==
  /\ link = "up" /\ cur < MaxConn
  /\ Hangup
  /\ acked' = 0 /\ sentUpTo' = 0 /\ inflight' = <<>>
  /\ UNCHANGED <<queue, next, cur, up, serverVars, histVars>>

-----------------------------------------------------------------------------
(* The server: ingest_batch in the session of connection c. *)

(* Mutant: the mark in Valkey is not consulted. *)
MarkIgnored(c, stored) == IF hwm[c] = NoMark THEN 0 ELSE hwm[c]

(* The mark that a session works with: its own, or the one stored. *)
Mark(c, stored) == IF hwm[c] = NoMark THEN stored ELSE hwm[c]

(* Another session has read the mark before, or is about to store one: the *)
(* two do not know what the other ingests.                                 *)
SideBySide(c) ==
  \/ \E d \in Conn : d > c /\ hwm[d] # NoMark
  \/ hwm[c] = NoMark /\ \E d \in Conn : d < c /\ sess[d] = "ingested"

(* Points above the mark are ingested.  A mark that cannot be read is 0.   *)
Ingest(c) ==
  /\ sess[c] = "read" /\ up[c] # <<>>
  /\ \E stored \in {mark, 0} :
       LET b == Head(up[c])
           fresh == {s \in b.points : s > Mark(c, stored)}
       IN /\ IF stored = mark THEN UNCHANGED faults ELSE hwm[c] = NoMark /\ Fault
          /\ ingested' = ingested \cup fresh
          /\ twice' = twice \cup (fresh \cap ingested)
          /\ sess' = [sess EXCEPT ![c] =
               IF Mark(c, stored) < b.top THEN "ingested" ELSE "skipped"]
          /\ hwm' = [hwm EXCEPT ![c] = Larger(Mark(c, stored), b.top)]
          /\ top' = [top EXCEPT ![c] = b.top]
          /\ calm' = (calm /\ stored = mark /\ ~SideBySide(c))
  /\ up' = [up EXCEPT ![c] = Tail(@)]
  /\ UNCHANGED <<agentVars, down, mark, trimmed>>

(* A mark that rose is stored, or cannot be, and the batch is acknowledged. *)
(* An answer to a connection the agent has left is lost.                    *)
Reply(c) ==
  /\ \/ sess[c] = "ingested" /\ mark' = hwm[c] /\ UNCHANGED <<faults, calm>>
     \/ sess[c] = "ingested" /\ UNCHANGED mark /\ Fault /\ calm' = FALSE
     \/ sess[c] = "skipped" /\ UNCHANGED <<mark, faults, calm>>
  /\ sess' = [sess EXCEPT ![c] = "read"]
  /\ down' = IF c = cur /\ link = "up" THEN [down EXCEPT ![c] = Append(@, top[c])] ELSE down
  /\ UNCHANGED <<agentVars, up, hwm, top, ingested, twice, trimmed>>

(* The session ends: it notices that the agent has left, it is superseded, *)
(* or its pod dies.  What it had not read is lost.  So is all that follows *)
(* a frame that does not open: the nonces of the channel are counters.     *)
Close(c) ==
  /\ sess[c] \in {"read", "ingested", "skipped"}
  /\ c < cur \/ link = "down" \/ cur < MaxConn
  /\ IF sess[c] = "ingested" THEN Fault /\ calm' = FALSE ELSE UNCHANGED <<faults, calm>>
  /\ sess' = [sess EXCEPT ![c] = "closed"]
  /\ up' = [up EXCEPT ![c] = <<>>]
  /\ UNCHANGED <<agentVars, down, hwm, top, mark, ingested, twice, trimmed>>

(* Valkey loses the mark, or it expires. *)
MarkLost ==
  /\ mark # 0 /\ Fault
  /\ mark' = 0 /\ calm' = FALSE
  /\ UNCHANGED <<agentVars, up, down, sessVars, ingested, twice, trimmed>>

-----------------------------------------------------------------------------
Agent == Append1 \/ Trim \/ Connect \/ Send \/ RecvAck \/ Disconnect \/ Restart

Server == (\E c \in Conn : Ingest(c) \/ Reply(c) \/ Close(c)) \/ MarkLost

Next == Agent \/ Server

Spec == Init /\ [][Next]_vars

(* The loops of both ends run, and the agent notices a session that ended  *)
(* (read error, or an acknowledgement overdue).                            *)
Fairness ==
  /\ WF_vars(Connect) /\ WF_vars(Send) /\ WF_vars(RecvAck)
  /\ WF_vars(Disconnect /\ cur > 0 /\ sess[cur] = "closed")
  /\ \A c \in Conn : WF_vars(Ingest(c)) /\ WF_vars(Reply(c))

LiveSpec == Spec /\ Fairness

-----------------------------------------------------------------------------
(* The abstract specification: the queue is the custody. *)
Delivery == INSTANCE EdgeDelivery WITH
  held <- queue, delivered <- ingested, discarded <- trimmed

(* Whatever connections, sessions, pods, the agent or Valkey do: a         *)
(* committed point leaves the queue only when the server has ingested it,  *)
(* or as the oldest under the bounds (queue.rs:10-11).                     *)
Delivers == Delivery!Spec

(* As long as no mark is lost and no two sessions of the agent ingest side *)
(* by side, every point is ingested at most once and in the order of its   *)
(* commit, however often it was sent (queue.rs:3-5).                       *)
OnceInOrder ==
  [][calm' => /\ twice' = {}
              /\ \A s \in ingested' \ ingested, r \in ingested : r < s]_vars

(* A committed point reaches the server or is trimmed: no lost answer,     *)
(* restart or full window stops the uplink for good.                       *)
Settles == \A s \in Seqno : s \in queue ~> s \in ingested \cup trimmed

-----------------------------------------------------------------------------
(* queue.rs:3-5: "a server-side high-water mark per `epoch` deduplicates   *)
(* replays across reconnects and restarts".  An old session that is still  *)
(* reading its socket and the new one ingest the same points.              *)
Deduplicated == faults = 0 => twice = {}
=============================================================================
