-------------------------- MODULE EdgeUplinkProofs --------------------------
(***************************************************************************)
(* Proofs about EdgeUplink: for any window, batch and queue size and any   *)
(* number of points, connections and faults, the uplink implements the     *)
(* delivery that EdgeDelivery specifies.                                   *)
(***************************************************************************)
EXTENDS EdgeUplink, SequenceTheorems, TLAPS

USE SizeAssumption, BoundAssumption, MarkAssumption

(* The count of faults stays within its bound. *)
LEMMA FaultFacts ==
  ASSUME faults \in 0 .. MaxFaults, UNCHANGED faults \/ Fault
  PROVE  faults' \in 0 .. MaxFaults
BY DEF Fault

(* Every variable keeps its type, for all sizes and bounds. *)
THEOREM TypeCorrect == Spec => []TypeOK
<1>1. Init => TypeOK
  BY DEF Init, TypeOK, Conn, Seqno, Batch, Session
<1>2. TypeOK /\ [Next]_vars => TypeOK'
  <2> SUFFICES ASSUME TypeOK, [Next]_vars
               PROVE  TypeOK'
    OBVIOUS
  <2> USE DEF TypeOK, Conn, Seqno, Session, Fault, histVars, serverVars, sessVars, agentVars
  <2>1. CASE Append1
    BY <2>1 DEF Append1
  <2>2. CASE Trim
    BY <2>2 DEF Trim
  <2>3. CASE Connect
    <3>1. inflight' \in Seq(Seqno) /\ Len(inflight') <= Window
      BY <2>3, EmptySeq DEF Connect
    <3>2. cur + 1 \in Conn /\ sess' \in [Conn -> Session]
      BY <2>3 DEF Connect
    <3>3. \A c \in Conn : sess'[c] = "ingested" => hwm'[c] # NoMark
      BY <2>3, <3>2 DEF Connect
    <3>4. link' = "up" /\ cur' \in 0 .. MaxConn /\ cur' > 0 /\ sentUpTo' \in 0 .. MaxSeq
      BY <2>3 DEF Connect
    <3>5. UNCHANGED <<queue, next, acked, up, down, hwm, top, mark, ingested, twice,
                      trimmed, faults, calm>>
      BY <2>3 DEF Connect
    <3> QED
      BY <3>1, <3>2, <3>3, <3>4, <3>5
  <2>4. CASE Send
    <3> PICK t \in queue : /\ sentUpTo < t
                           /\ up' = [up EXCEPT ![cur] = Append(@, ReadAfter(t))]
                           /\ sentUpTo' = t
                           /\ inflight' = Append(inflight, t)
      BY <2>4 DEF Send
    <3>1. ReadAfter(t) \in Batch
      BY DEF ReadAfter, Batch
    <3>2. Len(inflight) < Window /\ cur \in Conn
      BY <2>4 DEF Send
    <3>3. up' \in [Conn -> Seq(Batch)]
      BY <3>1, <3>2
    <3>4. inflight' \in Seq(Seqno) /\ Len(inflight') <= Window
      BY <3>2, LenProperties
    <3>5. UNCHANGED <<queue, next, acked, link, cur, down, sess, hwm, top, mark,
                      ingested, twice, trimmed, faults, calm>>
      BY <2>4 DEF Send
    <3>6. sentUpTo' \in 0 .. MaxSeq
      OBVIOUS
    <3> QED
      BY <3>3, <3>4, <3>5, <3>6
  <2>5. CASE RecvAck
    <3> DEFINE upTo == Head(down[cur])
    <3>1. cur \in Conn /\ down[cur] \in Seq(0 .. MaxSeq) /\ down[cur] # <<>>
      BY <2>5 DEF RecvAck
    <3>2. upTo \in 0 .. MaxSeq /\ Tail(down[cur]) \in Seq(0 .. MaxSeq)
      BY <3>1
    <3>3. PICK k \in 0 .. Len(inflight) : inflight' = SubSeq(inflight, k + 1, Len(inflight))
      BY <2>5 DEF RecvAck
    <3>4. inflight' \in Seq(Seqno) /\ Len(inflight') <= Window
      <4>1. k \in Nat /\ Len(inflight) \in Nat
        BY LenProperties
      <4>2. \A i \in k + 1 .. Len(inflight) : inflight[i] \in Seqno
        BY <4>1, ElementOfSeq
      <4>3. inflight' \in Seq(Seqno)
        BY <3>3, <4>1, <4>2, SubSeqProperties
      <4>4. Len(inflight') <= Len(inflight)
        BY <3>3, <4>1, <4>2, SubSeqProperties
      <4>5. Len(inflight') \in Nat
        BY <4>3, LenProperties
      <4> QED BY <4>1, <4>3, <4>4, <4>5
    <3>5. /\ queue' \subseteq queue
          /\ UNCHANGED faults \/ Fault
          /\ acked' = Larger(acked, upTo)
          /\ down' = [down EXCEPT ![cur] = Tail(@)]
          /\ UNCHANGED <<next, link, cur, sentUpTo, up, sess, hwm, top, mark,
                         ingested, twice, trimmed, calm>>
      BY <2>5 DEF RecvAck
    <3>6. acked' \in 0 .. MaxSeq
      BY <3>2, <3>5 DEF Larger
    <3>7. down' \in [Conn -> Seq(0 .. MaxSeq)]
      BY <3>1, <3>2, <3>5
    <3>8. queue' \subseteq Seqno
      BY <3>5
    <3>9. faults' \in 0 .. MaxFaults
      BY <3>5, FaultFacts
    <3> QED
      BY <3>4, <3>5, <3>6, <3>7, <3>8, <3>9
  <2>6. CASE Disconnect
    <3>1. cur \in Conn /\ down' = [down EXCEPT ![cur] = <<>>] /\ link' = "down"
      BY <2>6 DEF Disconnect, Hangup
    <3>2. down' \in [Conn -> Seq(0 .. MaxSeq)]
      BY <3>1, EmptySeq
    <3>3. UNCHANGED <<queue, next, acked, cur, sentUpTo, inflight, up, serverVars, histVars>>
      BY <2>6 DEF Disconnect
    <3> QED
      BY <3>1, <3>2, <3>3
  <2>7. CASE Restart
    <3>1. cur \in Conn /\ down' = [down EXCEPT ![cur] = <<>>] /\ link' = "down"
      BY <2>7 DEF Restart, Hangup
    <3>2. down' \in [Conn -> Seq(0 .. MaxSeq)]
      BY <3>1, EmptySeq
    <3>3. inflight' \in Seq(Seqno) /\ Len(inflight') <= Window
      BY <2>7, EmptySeq DEF Restart
    <3>4. acked' = 0 /\ sentUpTo' = 0 /\ UNCHANGED <<queue, next, cur, up>>
      BY <2>7 DEF Restart
    <3>5. UNCHANGED <<serverVars, histVars>>
      BY <2>7 DEF Restart
    <3>6. acked' \in 0 .. MaxSeq /\ sentUpTo' \in 0 .. MaxSeq
      BY <3>4
    <3> QED
      BY <3>1, <3>2, <3>3, <3>4, <3>5, <3>6
  <2>8. ASSUME NEW c \in Conn, Ingest(c) PROVE TypeOK'
    <3> DEFINE b == Head(up[c])
    <3>1. up[c] \in Seq(Batch) /\ up[c] # <<>>
      BY <2>8 DEF Ingest
    <3>2. b \in Batch /\ Tail(up[c]) \in Seq(Batch)
      BY <3>1
    <3>3. b.points \subseteq Seqno /\ b.top \in Seqno
      BY <3>2 DEF Batch
    <3> HIDE DEF b
    <3>4. PICK stored \in {mark, 0} :
            /\ UNCHANGED faults \/ Fault
            /\ ingested' = ingested \cup {s \in b.points : s > Mark(c, stored)}
            /\ twice' = twice \cup ({s \in b.points : s > Mark(c, stored)} \cap ingested)
            /\ sess' = [sess EXCEPT ![c] =
                 IF Mark(c, stored) < b.top THEN "ingested" ELSE "skipped"]
            /\ hwm' = [hwm EXCEPT ![c] = Larger(Mark(c, stored), b.top)]
            /\ top' = [top EXCEPT ![c] = b.top]
            /\ calm' = (calm /\ stored = mark /\ ~SideBySide(c))
      BY <2>8 DEF Ingest, b
    <3>5. Mark(c, stored) \in 0 .. MaxSeq
      BY DEF Mark
    <3>6. Larger(Mark(c, stored), b.top) \in 0 .. MaxSeq
      BY <3>3, <3>5 DEF Larger
    <3>7. /\ hwm' \in [Conn -> 0 .. MaxSeq \cup {NoMark}]
          /\ top' \in [Conn -> 0 .. MaxSeq]
          /\ sess' \in [Conn -> Session]
          /\ \A d \in Conn : sess'[d] = "ingested" => hwm'[d] # NoMark
      BY <3>3, <3>4, <3>6
    <3>8. ingested' \subseteq Seqno /\ twice' \subseteq Seqno
      BY <3>3, <3>4
    <3>9. faults' \in 0 .. MaxFaults /\ calm' \in BOOLEAN
      <4>1. faults' \in 0 .. MaxFaults
        BY <3>4
      <4>2. calm' \in BOOLEAN
        BY <3>4, Zenon
      <4> QED BY <4>1, <4>2
    <3>10. up' \in [Conn -> Seq(Batch)]
      BY <2>8, <3>2 DEF Ingest
    <3>11. UNCHANGED <<agentVars, down, mark, trimmed>>
      BY <2>8 DEF Ingest
    <3> QED
      BY <3>7, <3>8, <3>9, <3>10, <3>11
  <2>9. ASSUME NEW c \in Conn, Reply(c) PROVE TypeOK'
    <3>1. top[c] \in 0 .. MaxSeq
      OBVIOUS
    <3>2. down' \in [Conn -> Seq(0 .. MaxSeq)]
      BY <2>9, <3>1 DEF Reply
    <3>3. mark' \in 0 .. MaxSeq
      BY <2>9 DEF Reply
    <3>7. faults' \in 0 .. MaxFaults
      <4>1. UNCHANGED faults \/ Fault
        BY <2>9, Zenon DEF Reply
      <4> QED BY <4>1, FaultFacts
    <3>6. calm' \in BOOLEAN
      BY <2>9, Zenon DEF Reply
    <3>4. sess' = [sess EXCEPT ![c] = "read"]
      BY <2>9 DEF Reply
    <3>5. UNCHANGED <<agentVars, up, hwm, top, ingested, twice, trimmed>>
      BY <2>9 DEF Reply
    <3> QED
      BY <3>2, <3>3, <3>4, <3>5, <3>6, <3>7
  <2>10. ASSUME NEW c \in Conn, Close(c) PROVE TypeOK'
    <3>1. up' \in [Conn -> Seq(Batch)]
      BY <2>10, EmptySeq DEF Close
    <3>2. faults' \in 0 .. MaxFaults
      <4>1. UNCHANGED faults \/ Fault
        BY <2>10, Zenon DEF Close
      <4> QED BY <4>1, FaultFacts
    <3>3. calm' \in BOOLEAN
      BY <2>10, Zenon DEF Close
    <3>4. sess' = [sess EXCEPT ![c] = "closed"]
      BY <2>10 DEF Close
    <3>5. UNCHANGED <<agentVars, down, hwm, top, mark, ingested, twice, trimmed>>
      BY <2>10 DEF Close
    <3> QED
      BY <3>1, <3>2, <3>3, <3>4, <3>5
  <2>11. CASE MarkLost
    <3>1. calm' \in BOOLEAN
      BY <2>11, Zenon DEF MarkLost
    <3>2. mark' = 0 /\ faults' \in 0 .. MaxFaults
      BY <2>11 DEF MarkLost
    <3>3. UNCHANGED <<agentVars, up, down, sess, hwm, top, ingested, twice, trimmed>>
      BY <2>11 DEF MarkLost
    <3> QED
      BY <3>1, <3>2, <3>3
  <2>12. CASE UNCHANGED vars
    BY <2>12 DEF vars
  <2> QED
    BY <2>1, <2>2, <2>3, <2>4, <2>5, <2>6, <2>7, <2>8, <2>9, <2>10, <2>11, <2>12
    DEF Next, Agent, Server
<1> QED
  BY <1>1, <1>2, PTL DEF Spec

-----------------------------------------------------------------------------
(* The inductive invariant.  The server has, or the queue has given up:    *)
Settled == ingested \cup trimmed
Covered(n) == \A s \in 1 .. n : s \in Settled

Serving(c) == sess[c] \in {"read", "ingested", "skipped"}

(* Every number given out is accounted for, and nothing is trimmed twice.  *)
Numbered ==
  /\ queue \cup Settled = 1 .. next - 1
  /\ queue \cap trimmed = {}

(* Whatever is or will be acknowledged, and whatever a mark lets a session *)
(* skip, is settled.                                                       *)
MarksCovered ==
  /\ Covered(acked) /\ Covered(mark)
  /\ \A c \in Conn : Covered(top[c]) /\ (hwm[c] # NoMark => Covered(hwm[c]))
  /\ \A c \in Conn : \A i \in 1 .. Len(down[c]) : Covered(down[c][i])

(* What a session will read is without gaps: below the last point of a     *)
(* batch there are settled points and points of this or earlier batches.   *)
NoGap ==
  \A c \in Conn : Serving(c) =>
    \A i \in 1 .. Len(up[c]) :
      /\ up[c][i].points \subseteq 1 .. next - 1
      /\ \A s \in 1 .. up[c][i].top :
           s \in Settled \/ \E j \in 1 .. i : s \in up[c][j].points

(* The current session is served, or has been sent, all up to sentUpTo.    *)
SentBelow ==
  (link = "up" /\ Serving(cur)) =>
    \A s \in 1 .. sentUpTo :
      s \in Settled \/ \E j \in 1 .. Len(up[cur]) : s \in up[cur][j].points

(* A connection yet to be made is blank. *)
Blank == \A c \in Conn : c > cur => up[c] = <<>>

IInv == TypeOK /\ Numbered /\ MarksCovered /\ NoGap /\ SentBelow /\ Blank

LEMMA InitIInv == Init => Numbered /\ MarksCovered /\ NoGap /\ SentBelow /\ Blank
<1> SUFFICES ASSUME Init PROVE Numbered /\ MarksCovered /\ NoGap /\ SentBelow /\ Blank
  OBVIOUS
<1> USE DEF Init, Conn
<1>1. Numbered
  BY DEF Numbered, Settled
<1>2. MarksCovered
  BY DEF MarksCovered, Covered
<1>3. NoGap /\ SentBelow /\ Blank
  BY DEF NoGap, SentBelow, Blank, Serving
<1> QED
  BY <1>1, <1>2, <1>3

(* What a batch says of the session that ingests it: all its points, and   *)
(* all points below the last of them, are settled afterwards.              *)
LEMMA IngestSettles ==
  ASSUME TypeOK, NoGap, MarksCovered, NEW c \in Conn, Ingest(c)
  PROVE  /\ ingested \subseteq ingested' /\ trimmed' = trimmed
         /\ ingested' \subseteq ingested \cup Head(up[c]).points
         /\ \A s \in 1 .. Head(up[c]).top : s \in Settled'
         /\ Head(up[c]).points \subseteq Settled'
         /\ Head(up[c]).points \subseteq 1 .. next - 1
         /\ Head(up[c]).top \in Seqno
         /\ up[c] \in Seq(Batch) /\ up[c] # <<>>
         /\ up' = [up EXCEPT ![c] = Tail(@)]
         /\ Serving(c)
         /\ top' = [top EXCEPT ![c] = Head(up[c]).top]
         /\ \E n \in 0 .. MaxSeq : Covered(n)' /\ hwm' = [hwm EXCEPT ![c] = n]
<1> DEFINE b == Head(up[c])
<1>1. /\ up[c] \in Seq(Batch) /\ up[c] # <<>>
      /\ sess[c] = "read"
      /\ up' = [up EXCEPT ![c] = Tail(@)]
      /\ UNCHANGED <<agentVars, down, mark, trimmed>>
  BY DEF Ingest, TypeOK
<1>2. b \in Batch /\ 1 \in 1 .. Len(up[c]) /\ b = up[c][1]
  BY <1>1, LenProperties
<1>3. b.points \subseteq Seqno /\ b.top \in Seqno
  BY <1>2 DEF Batch
<1>4. b.points \subseteq 1 .. next - 1
  BY <1>1, <1>2 DEF NoGap, Serving
<1>5. \A s \in 1 .. b.top : s \in Settled \/ s \in b.points
  BY <1>1, <1>2 DEF NoGap, Serving
<1> HIDE DEF b
<1>6. PICK stored \in {mark, 0} :
        /\ ingested' = ingested \cup {s \in b.points : s > Mark(c, stored)}
        /\ hwm' = [hwm EXCEPT ![c] = Larger(Mark(c, stored), b.top)]
        /\ top' = [top EXCEPT ![c] = b.top]
  BY DEF Ingest, b
<1>7. Mark(c, stored) \in 0 .. MaxSeq /\ Covered(Mark(c, stored))
  BY DEF Mark, TypeOK, MarksCovered, Covered
<1>8. Settled \subseteq Settled'
  BY <1>1, <1>6 DEF Settled
<1>9. b.points \subseteq Settled'
  <2> SUFFICES ASSUME NEW s \in b.points PROVE s \in Settled'
    OBVIOUS
  <2>1. s \in 1 .. MaxSeq
    BY <1>3 DEF Seqno
  <2>2. CASE s > Mark(c, stored)
    BY <2>2, <1>6 DEF Settled
  <2>3. CASE ~(s > Mark(c, stored))
    BY <2>1, <2>3, <1>7, <1>8 DEF Covered
  <2> QED BY <2>2, <2>3
<1>10. \A s \in 1 .. b.top : s \in Settled'
  BY <1>5, <1>8, <1>9
<1>11. \E n \in 0 .. MaxSeq : Covered(n)' /\ hwm' = [hwm EXCEPT ![c] = n]
  <2>1. Larger(Mark(c, stored), b.top) \in 0 .. MaxSeq
    BY <1>3, <1>7 DEF Larger, Seqno
  <2>2. \A s \in 1 .. Larger(Mark(c, stored), b.top) : s \in Settled'
    BY <1>3, <1>5, <1>7, <1>8, <1>9 DEF Larger, Covered, Seqno
  <2> QED BY <2>1, <2>2, <1>6 DEF Covered
<1> QED
  BY <1>1, <1>3, <1>4, <1>6, <1>9, <1>10, <1>11 DEF Serving, b

(* Points are accounted for: they leave the queue settled. *)
LEMMA NumberedStep == IInv /\ [Next]_vars => Numbered'
<1> SUFFICES ASSUME IInv, [Next]_vars PROVE Numbered'
  OBVIOUS
<1> USE DEF IInv, Numbered, Settled
<1> next \in Nat \ {0}
  BY DEF TypeOK
<1>1. CASE Append1
  <2>1. /\ queue' = queue \cup {next} /\ next' = next + 1
        /\ UNCHANGED <<ingested, trimmed>>
    BY <1>1 DEF Append1, histVars
  <2>2. 1 .. next' - 1 = (1 .. next - 1) \cup {next}
    BY <2>1
  <2>3. next \notin trimmed
    OBVIOUS
  <2> QED BY <2>1, <2>2, <2>3
<1>2. CASE Trim
  BY <1>2 DEF Trim
<1>3. CASE RecvAck
  <2> DEFINE upTo == Head(down[cur])
  <2>1. /\ cur \in Conn /\ down[cur] \in Seq(0 .. MaxSeq) /\ down[cur] # <<>>
        /\ UNCHANGED <<next, ingested, trimmed>>
        /\ queue' = {s \in queue : s > upTo} \/ UNCHANGED queue
    BY <1>3 DEF RecvAck, TypeOK, Conn
  <2>2. upTo \in 0 .. MaxSeq /\ 1 \in 1 .. Len(down[cur]) /\ upTo = down[cur][1]
    BY <2>1, LenProperties
  <2>3. Covered(upTo)
    BY <2>1, <2>2 DEF MarksCovered
  <2> HIDE DEF upTo
  <2>4. \A s \in queue : s > upTo \/ s \in ingested \cup trimmed
    BY <2>2, <2>3 DEF Covered
  <2> QED
    BY <2>1, <2>4
<1>4. ASSUME NEW c \in Conn, Ingest(c) PROVE Numbered'
  <2>1. UNCHANGED <<queue, next, trimmed>>
    BY <1>4 DEF Ingest, agentVars
  <2>2. ingested \subseteq ingested' /\ ingested' \subseteq ingested \cup 1 .. next - 1
    BY <1>4, IngestSettles
  <2> QED
    BY <2>1, <2>2
<1>5. CASE Connect \/ Send \/ Disconnect \/ Restart \/ MarkLost
  BY <1>5 DEF Connect, Send, Disconnect, Restart, MarkLost, agentVars, histVars
<1>6. ASSUME NEW c \in Conn, Reply(c) \/ Close(c) PROVE Numbered'
  BY <1>6 DEF Reply, Close, agentVars
<1>7. CASE UNCHANGED vars
  BY <1>7 DEF vars, agentVars, histVars
<1> QED
  BY <1>1, <1>2, <1>3, <1>4, <1>5, <1>6, <1>7 DEF Next, Agent, Server

(* Settled points stay settled. *)
LEMMA SettledGrows == IInv /\ [Next]_vars => Settled \subseteq Settled'
<1> SUFFICES ASSUME IInv, [Next]_vars PROVE Settled \subseteq Settled'
  OBVIOUS
<1> USE DEF Settled
<1>1. CASE Append1 \/ RecvAck \/ Connect \/ Send \/ Disconnect \/ Restart \/ MarkLost
  BY <1>1 DEF Append1, RecvAck, Connect, Send, Disconnect, Restart, MarkLost, histVars
<1>2. CASE Trim
  BY <1>2 DEF Trim
<1>3. ASSUME NEW c \in Conn, Ingest(c) PROVE Settled \subseteq Settled'
  BY <1>3, IngestSettles DEF IInv
<1>4. ASSUME NEW c \in Conn, Reply(c) \/ Close(c) PROVE Settled \subseteq Settled'
  BY <1>4 DEF Reply, Close
<1>5. CASE UNCHANGED vars
  BY <1>5 DEF vars, histVars
<1> QED
  BY <1>1, <1>2, <1>3, <1>4, <1>5 DEF Next, Agent, Server

(* Marks and acknowledgements stay covered: a new one is the last point of *)
(* a batch just ingested, or a copy of an old one.                         *)
LEMMA MarksStep == IInv /\ [Next]_vars => MarksCovered'
<1> SUFFICES ASSUME IInv, [Next]_vars PROVE MarksCovered'
  OBVIOUS
<1>0. Settled \subseteq Settled'
  BY SettledGrows
<1> USE DEF IInv, MarksCovered, Covered
<1>1. CASE Append1 \/ Trim \/ Send
  <2>1. UNCHANGED <<acked, mark, hwm, top, down>>
    BY <1>1 DEF Append1, Trim, Send, serverVars, sessVars
  <2> QED BY <2>1, <1>0
<1>2. CASE Connect
  <2>1. UNCHANGED <<acked, mark, hwm, top, down>>
    BY <1>2 DEF Connect
  <2> QED BY <2>1, <1>0
<1>3. CASE RecvAck
  <2> DEFINE upTo == Head(down[cur])
  <2>1. /\ cur \in Conn /\ down[cur] \in Seq(0 .. MaxSeq) /\ down[cur] # <<>>
        /\ acked' = Larger(acked, upTo)
        /\ down' = [down EXCEPT ![cur] = Tail(@)]
        /\ UNCHANGED <<mark, hwm, top>>
    BY <1>3 DEF RecvAck, TypeOK, Conn, serverVars, sessVars
  <2>2. upTo \in 0 .. MaxSeq /\ 1 \in 1 .. Len(down[cur]) /\ upTo = down[cur][1]
    BY <2>1, LenProperties
  <2>3. \A s \in 1 .. upTo : s \in Settled
    BY <2>1, <2>2
  <2> HIDE DEF upTo
  <2>4. acked' = acked \/ acked' = upTo
    BY <2>1 DEF Larger
  <2>5. \A s \in 1 .. acked' : s \in Settled'
    BY <1>0, <2>3, <2>4
  <2>6. \A i \in 1 .. Len(Tail(down[cur])) :
          i + 1 \in 1 .. Len(down[cur]) /\ Tail(down[cur])[i] = down[cur][i + 1]
    BY <2>1, LenProperties, HeadTailProperties
  <2>7. ASSUME NEW c \in Conn, NEW i \in 1 .. Len(down'[c])
        PROVE  \A s \in 1 .. down'[c][i] : s \in Settled'
    <3>1. CASE c = cur
      <4>1. down'[c] = Tail(down[cur])
        BY <2>1, <3>1 DEF TypeOK
      <4> QED BY <4>1, <2>1, <2>6, <1>0
    <3>2. CASE c # cur
      <4>1. down'[c] = down[c]
        BY <2>1, <3>2 DEF TypeOK
      <4> QED BY <4>1, <1>0
    <3> QED BY <3>1, <3>2
  <2> QED BY <1>0, <2>1, <2>5, <2>7
<1>4. CASE Disconnect \/ Restart
  <2>1. /\ acked' = acked \/ acked' = 0
        /\ down' = [down EXCEPT ![cur] = <<>>]
        /\ UNCHANGED <<mark, hwm, top>>
    BY <1>4 DEF Disconnect, Restart, Hangup, serverVars, sessVars
  <2>2. \A s \in 1 .. acked' : s \in Settled'
    BY <1>0, <2>1 DEF TypeOK
  <2>3. ASSUME NEW c \in Conn, NEW i \in 1 .. Len(down'[c])
        PROVE  down'[c] = down[c]
    <3>1. CASE c = cur
      BY <2>1, <2>3, <3>1, EmptySeq DEF TypeOK
    <3>2. CASE c # cur
      BY <2>1, <3>2 DEF TypeOK
    <3> QED BY <3>1, <3>2
  <2> QED BY <1>0, <2>1, <2>2, <2>3
<1>5. ASSUME NEW c \in Conn, Ingest(c) PROVE MarksCovered'
  <2>1. UNCHANGED <<acked, mark, down>>
    BY <1>5 DEF Ingest, agentVars
  <2>2. /\ \A s \in 1 .. Head(up[c]).top : s \in Settled'
        /\ top' = [top EXCEPT ![c] = Head(up[c]).top]
    BY <1>5, IngestSettles
  <2>3. \A d \in Conn : \A s \in 1 .. top'[d] : s \in Settled'
    BY <1>0, <2>2 DEF TypeOK
  <2>4. PICK n \in 0 .. MaxSeq : (\A s \in 1 .. n : s \in Settled') /\ hwm' = [hwm EXCEPT ![c] = n]
    BY <1>5, IngestSettles
  <2>5. \A d \in Conn : hwm'[d] # NoMark => \A s \in 1 .. hwm'[d] : s \in Settled'
    BY <1>0, <2>4 DEF TypeOK
  <2> QED BY <1>0, <2>1, <2>3, <2>5
<1>6. ASSUME NEW c \in Conn, Reply(c) PROVE MarksCovered'
  <2>1. UNCHANGED <<acked, hwm, top>>
    BY <1>6 DEF Reply, agentVars
  <2>2. mark' = mark \/ (mark' = hwm[c] /\ hwm[c] # NoMark)
    BY <1>6 DEF Reply, TypeOK
  <2>3. \A s \in 1 .. mark' : s \in Settled'
    BY <1>0, <2>2
  <2>4. down' = [down EXCEPT ![c] = Append(@, top[c])] \/ down' = down
    BY <1>6 DEF Reply
  <2>5. ASSUME NEW d \in Conn, NEW i \in 1 .. Len(down'[d])
        PROVE  \A s \in 1 .. down'[d][i] : s \in Settled'
    <3>1. CASE down'[d] = down[d]
      BY <3>1, <1>0
    <3>2. CASE d = c /\ down'[d] = Append(down[c], top[c])
      <4>1. down[c] \in Seq(0 .. MaxSeq) /\ top[c] \in 0 .. MaxSeq
        BY DEF TypeOK
      <4>2. \/ i \in 1 .. Len(down[c]) /\ down'[d][i] = down[c][i]
            \/ down'[d][i] = top[c]
        BY <3>2, <4>1, LenProperties
      <4> QED BY <4>2, <1>0
    <3> QED BY <2>4, <3>1, <3>2 DEF TypeOK
  <2> QED BY <1>0, <2>1, <2>3, <2>5
<1>7. ASSUME NEW c \in Conn, Close(c) PROVE MarksCovered'
  <2>1. UNCHANGED <<acked, mark, hwm, top, down>>
    BY <1>7 DEF Close, agentVars
  <2> QED BY <2>1, <1>0
<1>8. CASE MarkLost
  <2>1. UNCHANGED <<acked, hwm, top, down>> /\ mark' = 0
    BY <1>8 DEF MarkLost, agentVars, sessVars
  <2> QED BY <2>1, <1>0
<1>9. CASE UNCHANGED vars
  <2>1. UNCHANGED <<acked, mark, hwm, top, down>>
    BY <1>9 DEF vars, agentVars, serverVars, sessVars
  <2> QED BY <2>1, <1>0
<1> QED
  BY <1>1, <1>2, <1>3, <1>4, <1>5, <1>6, <1>7, <1>8, <1>9 DEF Next, Agent, Server

LEMMA BlankStep == IInv /\ [Next]_vars => Blank'
<1> SUFFICES ASSUME IInv, [Next]_vars PROVE Blank'
  OBVIOUS
<1> USE DEF IInv, Blank
<1> cur \in 0 .. MaxConn /\ DOMAIN up = Conn /\ (link = "up" => cur > 0)
  BY DEF TypeOK
<1>1. CASE UNCHANGED <<up, cur>>
  BY <1>1
<1>2. CASE Connect
  BY <1>2 DEF Connect, Conn
<1>3. CASE Send
  <2>1. link = "up" /\ UNCHANGED cur
    BY <1>3 DEF Send
  <2>2. PICK b : up' = [up EXCEPT ![cur] = Append(@, b)]
    BY <1>3 DEF Send
  <2>3. \A c \in Conn : c # cur => up'[c] = up[c]
    BY <2>2
  <2> QED BY <2>1, <2>3 DEF Conn
<1>4. ASSUME NEW c \in Conn, Ingest(c) PROVE Blank'
  <2>1. up[c] # <<>> /\ up' = [up EXCEPT ![c] = Tail(@)] /\ UNCHANGED cur
    BY <1>4 DEF Ingest, agentVars
  <2> QED BY <2>1
<1>5. ASSUME NEW c \in Conn, Close(c) PROVE Blank'
  BY <1>5 DEF Close, agentVars
<1>6. CASE Append1 \/ Trim \/ RecvAck \/ Disconnect \/ Restart \/ MarkLost \/ UNCHANGED vars
  BY <1>1, <1>6 DEF Append1, Trim, RecvAck, Disconnect, Restart, MarkLost, vars, agentVars
<1>7. ASSUME NEW c \in Conn, Reply(c) PROVE Blank'
  BY <1>1, <1>7 DEF Reply, agentVars
<1> QED
  BY <1>2, <1>3, <1>4, <1>5, <1>6, <1>7 DEF Next, Agent, Server

(* What is sent follows what was sent before it: the current session is    *)
(* served, or has been sent, all up to the last point of the new batch.    *)
LEMMA SendCovers ==
  ASSUME IInv, Send, Serving(cur)
  PROVE  \A s \in 1 .. sentUpTo' :
           s \in Settled' \/ \E j \in 1 .. Len(up'[cur]) : s \in up'[cur][j].points
<1> USE DEF IInv
<1>1. PICK t \in queue : /\ sentUpTo < t /\ sentUpTo' = t
                         /\ up' = [up EXCEPT ![cur] = Append(@, ReadAfter(t))]
  BY DEF Send
<1>2. link = "up" /\ UNCHANGED <<ingested, trimmed>>
  BY DEF Send, histVars
<1>3. cur \in Conn /\ up[cur] \in Seq(Batch) /\ Len(up[cur]) \in Nat
  BY <1>2, LenProperties DEF TypeOK, Conn
<1> DEFINE l == Len(up[cur])
<1>4. Len(up'[cur]) = l + 1 /\ up'[cur][l + 1] = ReadAfter(t)
  BY <1>1, <1>3 DEF TypeOK
<1>5. \A i \in 1 .. l : up'[cur][i] = up[cur][i]
  BY <1>1, <1>3 DEF TypeOK
<1>6. queue \subseteq 1 .. next - 1 /\ t \in Nat /\ sentUpTo \in Nat /\ next \in Nat
  BY DEF Numbered, TypeOK, Seqno
<1> SUFFICES ASSUME NEW s \in 1 .. t
             PROVE  s \in Settled \/ \E j \in 1 .. l + 1 : s \in up'[cur][j].points
  BY <1>1, <1>2, <1>4 DEF Settled
<1>7. CASE s <= sentUpTo
  <2>1. s \in Settled \/ \E j \in 1 .. l : s \in up[cur][j].points
    BY <1>2, <1>6, <1>7 DEF SentBelow
  <2>2. ASSUME NEW j \in 1 .. l, s \in up[cur][j].points
        PROVE  \E k \in 1 .. l + 1 : s \in up'[cur][k].points
    BY <1>3, <1>5, <2>2
  <2> QED BY <2>1, <2>2
<1>8. CASE sentUpTo < s
  <2>1. s \in Settled \/ s \in queue
    BY <1>6 DEF Numbered
  <2>2. s \in queue => s \in up'[cur][l + 1].points
    BY <1>4, <1>6, <1>8 DEF ReadAfter
  <2> QED BY <1>3, <2>1, <2>2
<1> QED BY <1>6, <1>7, <1>8

(* The connections read without gaps: a batch follows what was sent before *)
(* it, and one that is ingested leaves settled points.                     *)
LEMMA NoGapStep == IInv /\ [Next]_vars => NoGap'
<1> SUFFICES ASSUME IInv, [Next]_vars PROVE NoGap'
  OBVIOUS
<1>0. Settled \subseteq Settled' /\ next \in Nat \ {0}
  BY SettledGrows DEF IInv, TypeOK
<1> USE DEF IInv, NoGap
<1>1. CASE /\ UNCHANGED up /\ next' >= next /\ next' \in Nat
           /\ \A c \in Conn : Serving(c)' => Serving(c)
  BY <1>0, <1>1
<1>2. CASE Append1
  <2>1. UNCHANGED <<up, sess>> /\ next' = next + 1
    BY <1>2 DEF Append1, serverVars, sessVars
  <2> QED BY <1>0, <1>1, <2>1 DEF Serving
<1>3. CASE Trim \/ RecvAck \/ Disconnect \/ Restart \/ MarkLost \/ UNCHANGED vars
  <2>1. UNCHANGED <<up, sess, next>>
    BY <1>3 DEF Trim, RecvAck, Disconnect, Restart, MarkLost, vars, agentVars, serverVars, sessVars
  <2> QED BY <1>0, <1>1, <2>1 DEF Serving
<1>4. CASE Connect
  <2>1. UNCHANGED <<up, next>> /\ sess' = [sess EXCEPT ![cur + 1] = "read"]
    BY <1>4 DEF Connect
  <2>2. ASSUME NEW c \in Conn, c # cur + 1, Serving(c)' PROVE Serving(c)
    BY <2>1, <2>2 DEF Serving, TypeOK
  <2>3. cur + 1 \in Conn => up[cur + 1] = <<>>
    BY DEF Blank, TypeOK, Conn
  <2>4. ASSUME NEW c \in Conn, c = cur + 1 PROVE Len(up'[c]) = 0
    BY <2>1, <2>3, <2>4, EmptySeq
  <2>5. ASSUME NEW c \in Conn, Serving(c)', NEW i \in 1 .. Len(up'[c])
        PROVE  /\ up'[c][i].points \subseteq 1 .. next' - 1
               /\ \A s \in 1 .. up'[c][i].top :
                    s \in Settled' \/ \E j \in 1 .. i : s \in up'[c][j].points
    <3>1. c # cur + 1
      BY <2>4, <2>5
    <3>2. Serving(c) /\ up'[c] = up[c]
      BY <2>1, <2>2, <2>5, <3>1
    <3>3. /\ up[c][i].points \subseteq 1 .. next - 1
          /\ \A s \in 1 .. up[c][i].top :
               s \in Settled \/ \E j \in 1 .. i : s \in up[c][j].points
      BY <2>5, <3>2
    <3> HIDE DEF IInv, NoGap
    <3> QED BY <1>0, <2>1, <3>2, <3>3
  <2> HIDE DEF IInv
  <2> QED BY <2>5
<1>5. CASE Send
  <2>1. PICK t \in queue : /\ sentUpTo < t /\ sentUpTo' = t
                           /\ up' = [up EXCEPT ![cur] = Append(@, ReadAfter(t))]
    BY <1>5 DEF Send
  <2>2. link = "up" /\ UNCHANGED <<next, sess, ingested, trimmed>>
    BY <1>5 DEF Send, serverVars, sessVars, histVars
  <2>3. cur \in Conn /\ up[cur] \in Seq(Batch) /\ Len(up[cur]) \in Nat
    BY <2>2, LenProperties DEF TypeOK, Conn
  <2> DEFINE l == Len(up[cur])
  <2>4. Len(up'[cur]) = l + 1 /\ up'[cur][l + 1] = ReadAfter(t)
    BY <2>1, <2>3 DEF TypeOK
  <2>5. \A i \in 1 .. l : up'[cur][i] = up[cur][i]
    BY <2>1, <2>3 DEF TypeOK
  <2>6. queue \subseteq 1 .. next - 1 /\ t \in Nat /\ sentUpTo \in Nat
    BY DEF Numbered, TypeOK, Seqno
  <2>7. /\ ReadAfter(t).top = t
        /\ ReadAfter(t).points = {s \in queue : sentUpTo < s /\ s <= t}
    BY DEF ReadAfter
  <2> HIDE DEF l
  <2>8. ASSUME Serving(cur), NEW s \in 1 .. t
        PROVE  s \in Settled' \/ \E j \in 1 .. l + 1 : s \in up'[cur][j].points
    BY <1>5, <2>1, <2>4, <2>8, SendCovers
  <2>9. ASSUME Serving(cur), NEW i \in 1 .. l + 1
        PROVE  /\ up'[cur][i].points \subseteq 1 .. next - 1
               /\ \A s \in 1 .. up'[cur][i].top :
                    s \in Settled' \/ \E j \in 1 .. i : s \in up'[cur][j].points
    <3>1. CASE i = l + 1
      BY <2>4, <2>6, <2>7, <2>8, <2>9, <3>1
    <3>2. CASE i \in 1 .. l
      <4>1. /\ up[cur][i].points \subseteq 1 .. next - 1
            /\ \A s \in 1 .. up[cur][i].top :
                 s \in Settled \/ \E j \in 1 .. i : s \in up[cur][j].points
        BY <2>3, <2>9, <3>2 DEF l
      <4>2. l \in Nat /\ \A j \in 1 .. i : j \in 1 .. l
        BY <2>3, <3>2 DEF l
      <4>3. \A j \in 1 .. i : up'[cur][j] = up[cur][j]
        BY <2>5, <4>2
      <4>4. i \in 1 .. i
        BY <3>2, <4>2
      <4> HIDE DEF IInv, NoGap
      <4> QED BY <1>0, <4>1, <4>3, <4>4
    <3> QED BY <3>1, <3>2, <2>3 DEF l
  <2>10. \A c \in Conn : c # cur => up'[c] = up[c]
    BY <2>1 DEF TypeOK
  <2>11. \A c \in Conn : Serving(c)' <=> Serving(c)
    BY <2>2 DEF Serving
  <2>12. ASSUME NEW c \in Conn, Serving(c)', NEW i \in 1 .. Len(up'[c])
         PROVE  /\ up'[c][i].points \subseteq 1 .. next' - 1
                /\ \A s \in 1 .. up'[c][i].top :
                     s \in Settled' \/ \E j \in 1 .. i : s \in up'[c][j].points
    <3>1. CASE c = cur
      BY <2>2, <2>4, <2>9, <2>11, <2>12, <3>1
    <3>2. CASE c # cur
      BY <1>0, <2>2, <2>10, <2>11, <2>12, <3>2
    <3> QED BY <3>1, <3>2
  <2> QED BY <2>12
<1>6. ASSUME NEW c \in Conn, Ingest(c) PROVE NoGap'
  <2>1. /\ up[c] \in Seq(Batch) /\ up[c] # <<>>
        /\ up' = [up EXCEPT ![c] = Tail(@)]
        /\ Serving(c) /\ Head(up[c]).points \subseteq Settled'
    BY <1>6, IngestSettles
  <2>2. UNCHANGED next /\ \A d \in Conn : d # c => sess'[d] = sess[d]
    BY <1>6 DEF Ingest, agentVars, TypeOK
  <2>3. up'[c] = Tail(up[c]) /\ \A d \in Conn : d # c => up'[d] = up[d]
    BY <2>1 DEF TypeOK
  <2>4. /\ Len(up[c]) \in Nat /\ Len(Tail(up[c])) = Len(up[c]) - 1
        /\ \A i \in 1 .. Len(up[c]) - 1 : Tail(up[c])[i] = up[c][i + 1]
        /\ Head(up[c]) = up[c][1]
    BY <2>1, LenProperties, HeadTailProperties
  <2>5. ASSUME NEW i \in 1 .. Len(up'[c])
        PROVE  /\ up'[c][i].points \subseteq 1 .. next' - 1
               /\ \A s \in 1 .. up'[c][i].top :
                    s \in Settled' \/ \E j \in 1 .. i : s \in up'[c][j].points
    <3>1. i + 1 \in 1 .. Len(up[c]) /\ up'[c][i] = up[c][i + 1]
      BY <2>3, <2>4
    <3>2. up'[c][i].points \subseteq 1 .. next' - 1
      BY <2>1, <2>2, <3>1
    <3>3. ASSUME NEW s \in 1 .. up'[c][i].top
          PROVE  s \in Settled' \/ \E j \in 1 .. i : s \in up'[c][j].points
      <4>1. s \in Settled \/ \E j \in 1 .. i + 1 : s \in up[c][j].points
        BY <2>1, <3>1
      <4>2. CASE s \in Settled
        BY <4>2, <1>0
      <4>3. ASSUME NEW j \in 1 .. i + 1, s \in up[c][j].points
            PROVE  s \in Settled' \/ \E k \in 1 .. i : s \in up'[c][k].points
        <5>1. CASE j = 1
          BY <5>1, <4>3, <2>1, <2>4
        <5>2. CASE j # 1
          <6>1. j - 1 \in 1 .. i /\ j - 1 \in 1 .. Len(up[c]) - 1
            BY <5>2, <3>1, <2>4
          <6>2. up'[c][j - 1] = up[c][j]
            BY <6>1, <2>3, <2>4
          <6> QED BY <6>1, <6>2, <4>3
        <5> QED BY <5>1, <5>2
      <4> QED BY <4>1, <4>2, <4>3
    <3> QED BY <3>2, <3>3
  <2>6. ASSUME NEW d \in Conn, d # c, Serving(d)', NEW i \in 1 .. Len(up'[d])
        PROVE  /\ up'[d][i].points \subseteq 1 .. next' - 1
               /\ \A s \in 1 .. up'[d][i].top :
                    s \in Settled' \/ \E j \in 1 .. i : s \in up'[d][j].points
    <3>1. Serving(d) /\ up'[d] = up[d]
      BY <2>2, <2>3, <2>6 DEF Serving
    <3> QED BY <3>1, <1>0, <2>2, <2>6
  <2> QED BY <2>5, <2>6
<1>7. ASSUME NEW c \in Conn, Reply(c) PROVE NoGap'
  <2>1. UNCHANGED <<up, next>> /\ sess' = [sess EXCEPT ![c] = "read"]
    BY <1>7 DEF Reply, agentVars
  <2>2. \A d \in Conn : Serving(d)' => Serving(d)
    BY <1>7, <2>1 DEF Reply, Serving, TypeOK
  <2> QED BY <1>0, <1>1, <2>1, <2>2
<1>8. ASSUME NEW c \in Conn, Close(c) PROVE NoGap'
  <2>1. /\ up' = [up EXCEPT ![c] = <<>>] /\ UNCHANGED next
        /\ sess' = [sess EXCEPT ![c] = "closed"]
    BY <1>8 DEF Close, agentVars
  <2>2. ASSUME NEW d \in Conn, Serving(d)' PROVE Serving(d) /\ up'[d] = up[d]
    BY <2>1, <2>2 DEF Serving, TypeOK
  <2> QED BY <1>0, <2>1, <2>2
<1> QED
  BY <1>2, <1>3, <1>4, <1>5, <1>6, <1>7, <1>8 DEF Next, Agent, Server

(* What the current session was sent stays served or under way. *)
LEMMA SentStep == IInv /\ [Next]_vars => SentBelow'
<1> SUFFICES ASSUME IInv, [Next]_vars PROVE SentBelow'
  OBVIOUS
<1>0. Settled \subseteq Settled'
  BY SettledGrows
<1> USE DEF IInv, SentBelow
<1>1. CASE UNCHANGED <<up, link, cur, sentUpTo>> /\ (Serving(cur)' => Serving(cur))
  BY <1>0, <1>1
<1>2. CASE Append1 \/ Trim \/ RecvAck \/ MarkLost \/ UNCHANGED vars
  <2>1. UNCHANGED <<up, link, cur, sentUpTo, sess>>
    BY <1>2 DEF Append1, Trim, RecvAck, MarkLost, vars, agentVars, serverVars, sessVars
  <2> QED BY <1>1, <2>1 DEF Serving
<1>3. CASE Disconnect \/ Restart
  BY <1>3 DEF Disconnect, Restart, Hangup
<1>4. CASE Connect
  <2>1. sentUpTo' = acked
    BY <1>4 DEF Connect
  <2>2. \A s \in 1 .. sentUpTo' : s \in Settled'
    BY <1>0, <2>1 DEF MarksCovered, Covered
  <2> QED BY <2>2
<1>5. CASE Send
  <2>1. UNCHANGED <<cur, sess>>
    BY <1>5 DEF Send, serverVars, sessVars
  <2>2. Serving(cur)' => Serving(cur)
    BY <2>1 DEF Serving
  <2> QED BY <1>5, <2>1, <2>2, SendCovers
<1>6. ASSUME NEW c \in Conn, Ingest(c), link' = "up", Serving(cur)', NEW s \in 1 .. sentUpTo'
      PROVE  s \in Settled' \/ \E j \in 1 .. Len(up'[cur']) : s \in up'[cur'][j].points
  <2>1. UNCHANGED <<link, cur, sentUpTo>> /\ cur \in Conn
    BY <1>6 DEF Ingest, agentVars, TypeOK, Conn
  <2>2. /\ up[c] \in Seq(Batch) /\ up[c] # <<>>
        /\ up' = [up EXCEPT ![c] = Tail(@)]
        /\ Serving(c) /\ Head(up[c]).points \subseteq Settled'
    BY <1>6, IngestSettles
  <2>3. CASE c # cur
    <3>1. up'[cur] = up[cur] /\ sess'[cur] = sess[cur]
      BY <1>6, <2>1, <2>2, <2>3 DEF Ingest, TypeOK
    <3> QED BY <1>0, <1>6, <2>1, <3>1 DEF Serving
  <2>4. CASE c = cur
    <3>1. /\ Len(up[c]) \in Nat /\ Len(Tail(up[c])) = Len(up[c]) - 1
          /\ \A i \in 1 .. Len(up[c]) - 1 : Tail(up[c])[i] = up[c][i + 1]
          /\ Head(up[c]) = up[c][1]
      BY <2>2, LenProperties, HeadTailProperties
    <3>2. up'[c] = Tail(up[c])
      BY <2>2 DEF TypeOK
    <3>3. s \in Settled \/ \E j \in 1 .. Len(up[c]) : s \in up[c][j].points
      BY <1>6, <2>1, <2>2, <2>4
    <3>4. ASSUME NEW j \in 1 .. Len(up[c]), s \in up[c][j].points
          PROVE  s \in Settled' \/ \E k \in 1 .. Len(up'[c]) : s \in up'[c][k].points
      <4>1. CASE j = 1
        BY <2>2, <3>1, <3>4, <4>1
      <4>2. CASE j # 1
        <5>1. j - 1 \in 1 .. Len(up'[c]) /\ up'[c][j - 1] = up[c][j]
          BY <3>1, <3>2, <4>2
        <5> QED BY <3>4, <5>1
      <4> QED BY <4>1, <4>2
    <3> QED BY <1>0, <2>1, <2>4, <3>3, <3>4
  <2> QED BY <2>3, <2>4
<1>7. ASSUME NEW c \in Conn, Reply(c) PROVE SentBelow'
  <2>1. UNCHANGED <<up, link, cur, sentUpTo>> /\ sess' = [sess EXCEPT ![c] = "read"]
    BY <1>7 DEF Reply, agentVars
  <2>2. sess[c] \in {"ingested", "skipped"}
    BY <1>7 DEF Reply
  <2>3. link = "up" /\ Serving(cur)' => Serving(cur)
    BY <2>1, <2>2 DEF Serving, TypeOK, Conn
  <2> QED BY <1>0, <2>1, <2>3
<1>8. ASSUME NEW c \in Conn, Close(c) PROVE SentBelow'
  <2>1. /\ up' = [up EXCEPT ![c] = <<>>] /\ UNCHANGED <<link, cur, sentUpTo>>
        /\ sess' = [sess EXCEPT ![c] = "closed"]
    BY <1>8 DEF Close, agentVars
  <2>2. ASSUME link' = "up", Serving(cur)' PROVE Serving(cur) /\ up'[cur] = up[cur]
    BY <2>1, <2>2 DEF Serving, TypeOK, Conn
  <2> QED BY <1>0, <2>1, <2>2
<1> QED
  BY <1>2, <1>3, <1>4, <1>5, <1>6, <1>7, <1>8 DEF Next, Agent, Server

(* The inductive invariant holds for all sizes and bounds. *)
LEMMA Inductive == Spec => []IInv
<1>1. Init => IInv
  <2>1. Init => TypeOK
    BY DEF Init, TypeOK, Conn, Seqno, Batch, Session
  <2> QED BY <2>1, InitIInv DEF IInv
<1>2. IInv /\ TypeOK' /\ [Next]_vars => IInv'
  BY NumberedStep, MarksStep, NoGapStep, SentStep, BlankStep DEF IInv
<1> QED BY <1>1, <1>2, TypeCorrect, PTL DEF Spec

-----------------------------------------------------------------------------
(* The step of the abstract specification that a step of the uplink is. *)
LEMMA StepSimulated == IInv /\ [Next]_vars => [Delivery!Next]_(Delivery!vars)
<1> SUFFICES ASSUME IInv, [Next]_vars PROVE [Delivery!Next]_(Delivery!vars)
  OBVIOUS
<1> USE DEF IInv, Delivery!Next, Delivery!vars
<1>1. CASE Append1
  BY <1>1 DEF Append1, histVars, Delivery!Commit
<1>2. CASE Trim
  <2>1. PICK keep \in SUBSET queue : /\ \A k \in keep, v \in queue \ keep : v < k
                                     /\ queue' = keep
                                     /\ trimmed' = trimmed \cup (queue \ keep)
    BY <1>2 DEF Trim
  <2>2. UNCHANGED <<next, ingested>>
    BY <1>2 DEF Trim
  <2>3. Delivery!Discard
    <3>1. queue' = queue \ (queue \ keep)
      BY <2>1
    <3> QED BY <2>1, <2>2, <3>1 DEF Delivery!Discard
  <2> QED BY <2>3
<1>3. CASE RecvAck
  <2> DEFINE upTo == Head(down[cur])
  <2>1. /\ cur \in Conn /\ down[cur] \in Seq(0 .. MaxSeq) /\ down[cur] # <<>>
        /\ UNCHANGED <<next, ingested, trimmed>>
        /\ queue' = {s \in queue : s > upTo} \/ UNCHANGED queue
    BY <1>3 DEF RecvAck, TypeOK, Conn
  <2>2. upTo \in 0 .. MaxSeq /\ 1 \in 1 .. Len(down[cur]) /\ upTo = down[cur][1]
    BY <2>1, LenProperties
  <2>3. \A s \in 1 .. upTo : s \in ingested \cup trimmed
    BY <2>1, <2>2 DEF MarksCovered, Covered, Settled
  <2> HIDE DEF upTo
  <2> DEFINE S == {s \in queue : s <= upTo}
  <2>4. S \in SUBSET (queue \cap ingested)
    BY <2>2, <2>3 DEF Numbered, TypeOK, Seqno
  <2>5. UNCHANGED queue \/ queue' = queue \ S
    <3>1. \A s \in queue : s > upTo <=> ~(s <= upTo)
      BY <2>2 DEF TypeOK, Seqno
    <3>2. {s \in queue : s > upTo} = queue \ S
      BY <3>1
    <3> QED BY <2>1, <3>2
  <2> QED BY <2>1, <2>4, <2>5 DEF Delivery!Release
<1>4. ASSUME NEW c \in Conn, Ingest(c) PROVE Delivery!Deliver
  <2>1. UNCHANGED <<queue, next, trimmed>>
    BY <1>4 DEF Ingest, agentVars
  <2>2. /\ ingested \subseteq ingested' /\ ingested' \subseteq ingested \cup Head(up[c]).points
        /\ Head(up[c]).points \subseteq 1 .. next - 1
    BY <1>4, IngestSettles
  <2>3. ingested' = ingested \cup (ingested' \cap Head(up[c]).points)
    BY <2>2
  <2> QED BY <2>1, <2>2, <2>3 DEF Delivery!Deliver
<1>5. CASE Connect \/ Send \/ Disconnect \/ Restart \/ MarkLost
  BY <1>5 DEF Connect, Send, Disconnect, Restart, MarkLost, agentVars, histVars
<1>6. ASSUME NEW c \in Conn, Reply(c) \/ Close(c) PROVE UNCHANGED Delivery!vars
  BY <1>6 DEF Reply, Close, agentVars
<1>7. CASE UNCHANGED vars
  BY <1>7 DEF vars, agentVars, histVars
<1> QED
  BY <1>1, <1>2, <1>3, <1>4, <1>5, <1>6, <1>7 DEF Next, Agent, Server

(* The uplink implements the delivery: whatever connections, sessions,     *)
(* pods, the agent or Valkey do, a committed point leaves the queue only   *)
(* when the server has ingested it, or as the oldest under the bounds.     *)
THEOREM Implements == Spec => Delivers
<1>1. Init => Delivery!Init
  BY DEF Init, Delivery!Init
<1> QED BY <1>1, Inductive, StepSimulated, PTL DEF Spec, Delivers, Delivery!Spec

(* No point is lost without a trace: every number given out is in the      *)
(* queue, has been ingested, or has been trimmed.                          *)
THEOREM AllAccounted == Spec => []Delivery!Accounted
<1>1. IInv => Delivery!Accounted
  BY DEF IInv, Numbered, Settled, Delivery!Accounted
<1> QED BY <1>1, Inductive, PTL
-----------------------------------------------------------------------------
(* A batch holds no point beyond its last one. *)
Topped == {b \in Batch : \A s \in b.points : s <= b.top}
Within == up \in [Conn -> Seq(Topped)]

(* No later connection has read the mark. *)
LastReader(c) == hwm[c] # NoMark /\ \A d \in Conn : d > c => hwm[d] = NoMark

(* While all is calm, the last session that has read the mark knows all    *)
(* that was ingested, it alone may have a mark to store, and the mark is   *)
(* complete when it has none.                                              *)
Known ==
  /\ twice = {}
  /\ \A c \in Conn : LastReader(c) => \A s \in ingested : s <= hwm[c]
  /\ \A c \in Conn : sess[c] = "ingested" => LastReader(c)
  /\ (\A c \in Conn : sess[c] # "ingested") => \A s \in ingested : s <= mark

(* A connection yet to be made has no session. *)
Unmade == \A c \in Conn : c > cur => sess[c] = "none"

OrderInv == Within /\ Unmade /\ (calm => Known)

(* Points that are ingested for the first time, above all the others. *)
Fresh ==
  /\ twice' = {}
  /\ \A s \in ingested' \ ingested, r \in ingested : r < s

LEMMA OrderInit == Init => OrderInv
<1> SUFFICES ASSUME Init PROVE OrderInv
  OBVIOUS
<1>1. Within
  BY DEF Init, Within
<1>2. Known
  BY DEF Init, Known
<1>3. Unmade
  BY DEF Init, Unmade
<1> QED BY <1>1, <1>2, <1>3 DEF OrderInv

(* The batches under way stay within their bounds. *)
LEMMA WithinStep == TypeOK /\ Within /\ [Next]_vars => Within'
<1> SUFFICES ASSUME TypeOK, Within, [Next]_vars PROVE Within'
  OBVIOUS
<1>1. CASE UNCHANGED up
  BY <1>1 DEF Within
<1>2. CASE Send
  <2>1. PICK t \in queue : up' = [up EXCEPT ![cur] = Append(@, ReadAfter(t))]
    BY <1>2 DEF Send
  <2>2. ReadAfter(t) \in Topped
    BY DEF ReadAfter, Topped, Batch, TypeOK
  <2>3. cur \in Conn
    BY <1>2 DEF Send, TypeOK, Conn
  <2> QED BY <2>1, <2>2, <2>3 DEF Within
<1>3. ASSUME NEW c \in Conn, Ingest(c) PROVE Within'
  <2>1. up' = [up EXCEPT ![c] = Tail(@)] /\ up[c] # <<>> /\ up[c] \in Seq(Topped)
    BY <1>3 DEF Ingest, Within
  <2>2. Tail(up[c]) \in Seq(Topped)
    BY <2>1
  <2> QED BY <2>1, <2>2 DEF Within
<1>4. ASSUME NEW c \in Conn, Close(c) PROVE Within'
  <2>1. up' = [up EXCEPT ![c] = <<>>]
    BY <1>4 DEF Close
  <2> QED BY <2>1, EmptySeq DEF Within
<1>5. ASSUME NEW c \in Conn, Reply(c) PROVE UNCHANGED up
  BY <1>5 DEF Reply
<1>6. CASE Append1 \/ Trim \/ Connect \/ RecvAck \/ Disconnect \/ Restart \/ MarkLost \/ UNCHANGED vars
  <2>1. UNCHANGED up
    BY <1>6 DEF Append1, Trim, Connect, RecvAck, Disconnect, Restart, MarkLost, vars
  <2> QED BY <1>1, <2>1
<1> QED BY <1>1, <1>2, <1>3, <1>4, <1>5, <1>6 DEF Next, Agent, Server

LEMMA UnmadeStep == TypeOK /\ Unmade /\ [Next]_vars => Unmade'
<1> SUFFICES ASSUME TypeOK, Unmade, [Next]_vars PROVE Unmade'
  OBVIOUS
<1>1. CASE UNCHANGED <<cur, sess>>
  BY <1>1 DEF Unmade
<1>2. CASE Connect
  <2>1. cur' = cur + 1 /\ sess' = [sess EXCEPT ![cur + 1] = "read"]
    BY <1>2 DEF Connect
  <2> QED BY <2>1 DEF Unmade, TypeOK, Conn
<1>3. ASSUME NEW c \in Conn, Ingest(c) \/ Reply(c) \/ Close(c) PROVE Unmade'
  <2>1. UNCHANGED cur /\ sess[c] # "none" /\ \A d \in Conn : d # c => sess'[d] = sess[d]
    BY <1>3 DEF Ingest, Reply, Close, agentVars, TypeOK
  <2> QED BY <2>1 DEF Unmade
<1>4. CASE Append1 \/ Trim \/ Send \/ RecvAck \/ Disconnect \/ Restart \/ MarkLost \/ UNCHANGED vars
  <2>1. UNCHANGED <<cur, sess>>
    BY <1>4 DEF Append1, Trim, Send, RecvAck, Disconnect, Restart, MarkLost, vars, agentVars,
                serverVars, sessVars
  <2> QED BY <1>1, <2>1
<1> QED BY <1>1, <1>2, <1>3, <1>4 DEF Next, Agent, Server

(* A calm session ingests a batch with the mark that covers all there is. *)
LEMMA CalmIngest ==
  ASSUME TypeOK, Within, calm => Known, NEW c \in Conn, Ingest(c), calm'
  PROVE  Known' /\ Fresh
<1> DEFINE b == Head(up[c])
           m == Mark(c, mark)
           fresh == {s \in b.points : s > m}
<1>1. up[c] \in Seq(Topped) /\ up[c] # <<>> /\ sess[c] = "read"
  BY DEF Ingest, Within
<1>2. b \in Topped
  BY <1>1
<1>3. b.points \subseteq Seqno /\ b.top \in Seqno /\ \A s \in b.points : s <= b.top
  BY <1>2 DEF Topped, Batch
<1> HIDE DEF b
<1>4. /\ calm /\ ~SideBySide(c)
      /\ ingested' = ingested \cup fresh
      /\ twice' = twice \cup (fresh \cap ingested)
      /\ sess' = [sess EXCEPT ![c] = IF m < b.top THEN "ingested" ELSE "skipped"]
      /\ hwm' = [hwm EXCEPT ![c] = Larger(m, b.top)]
      /\ UNCHANGED mark
  <2>1. PICK stored \in {mark, 0} :
          /\ ingested' = ingested \cup {s \in b.points : s > Mark(c, stored)}
          /\ twice' = twice \cup ({s \in b.points : s > Mark(c, stored)} \cap ingested)
          /\ sess' = [sess EXCEPT ![c] =
               IF Mark(c, stored) < b.top THEN "ingested" ELSE "skipped"]
          /\ hwm' = [hwm EXCEPT ![c] = Larger(Mark(c, stored), b.top)]
          /\ calm' = (calm /\ stored = mark /\ ~SideBySide(c))
    BY DEF Ingest, b
  <2>2. calm /\ stored = mark /\ ~SideBySide(c)
    BY <2>1, Zenon
  <2>3. UNCHANGED mark
    BY DEF Ingest
  <2> QED BY <2>1, <2>2, <2>3
<1>5. Known
  BY <1>4
<1>6. /\ \A d \in Conn : d > c => hwm[d] = NoMark
      /\ hwm[c] = NoMark => \A d \in Conn : d < c => sess[d] # "ingested"
  BY <1>4 DEF SideBySide
<1>7. \A d \in Conn : d # c => sess[d] # "ingested"
  <2> SUFFICES ASSUME NEW d \in Conn, d # c, sess[d] = "ingested" PROVE FALSE
    OBVIOUS
  <2>1. LastReader(d)
    BY <1>5 DEF Known
  <2>2. CASE d > c
    BY <1>6, <2>1, <2>2 DEF LastReader
  <2>3. CASE d < c
    BY <1>6, <2>1, <2>3 DEF LastReader
  <2> QED BY <2>2, <2>3 DEF Conn
<1>8. \A d \in Conn : sess[d] # "ingested"
  BY <1>1, <1>7
<1>9. m \in 0 .. MaxSeq /\ \A s \in ingested : s <= m
  <2>1. CASE hwm[c] = NoMark
    BY <1>5, <1>8, <2>1 DEF Known, Mark, TypeOK
  <2>2. CASE hwm[c] # NoMark
    BY <1>5, <1>6, <2>2 DEF Known, LastReader, Mark, TypeOK
  <2> QED BY <2>1, <2>2
<1> HIDE DEF m
<1>10. ingested \subseteq Seqno
  BY DEF TypeOK
<1>11. fresh \cap ingested = {}
  BY <1>9, <1>3, <1>10 DEF Seqno
<1>12. Fresh
  <2>1. twice' = {}
    BY <1>4, <1>5, <1>11 DEF Known
  <2>2. \A s \in fresh, r \in ingested : r < s
    BY <1>3, <1>9, <1>10 DEF Seqno
  <2> QED BY <1>4, <2>1, <2>2 DEF Fresh
<1>13. hwm'[c] = Larger(m, b.top) /\ \A d \in Conn : d # c => hwm'[d] = hwm[d]
  BY <1>4 DEF TypeOK
<1>14. Larger(m, b.top) \in Nat /\ Larger(m, b.top) >= m /\ Larger(m, b.top) >= b.top
  BY <1>3, <1>9 DEF Larger, Seqno
<1>15. LastReader(c)'
  BY <1>6, <1>13, <1>14 DEF LastReader, Conn
<1>16. \A s \in ingested' : s <= hwm'[c]
  BY <1>3, <1>4, <1>9, <1>10, <1>13, <1>14 DEF Seqno
<1>17. \A d \in Conn : LastReader(d)' => d = c
  BY <1>15 DEF LastReader, Conn
<1>18. \A d \in Conn : sess'[d] = "ingested" => d = c
  BY <1>4, <1>7 DEF TypeOK
<1>19. (\A d \in Conn : sess'[d] # "ingested") => \A s \in ingested' : s <= mark'
  <2> SUFFICES ASSUME \A d \in Conn : sess'[d] # "ingested"
               PROVE  \A s \in ingested' : s <= mark'
    OBVIOUS
  <2>1. ~(m < b.top)
    BY <1>4 DEF TypeOK
  <2>2. fresh = {}
    BY <1>3, <1>9, <2>1 DEF Seqno
  <2>3. ingested' = ingested /\ mark' = mark
    BY <1>4, <2>2
  <2> QED BY <1>5, <1>8, <2>3 DEF Known
<1>20. twice' = {}
  BY <1>12 DEF Fresh
<1> QED
  BY <1>12, <1>15, <1>16, <1>17, <1>18, <1>19, <1>20 DEF Known

(* Every step that leaves all calm found it calm, keeps what the sessions  *)
(* know, and ingests nothing twice or out of order.                        *)
LEMMA CalmStep ==
  ASSUME TypeOK, OrderInv, [Next]_vars, calm'
  PROVE  Known' /\ Fresh
<1> USE DEF OrderInv
<1>1. ASSUME calm, UNCHANGED <<hwm, mark, ingested, twice>>,
             \A c \in Conn : (sess'[c] = "ingested") <=> (sess[c] = "ingested")
      PROVE  Known' /\ Fresh
  BY <1>1 DEF Known, LastReader, Fresh
<1>2. CASE Append1 \/ Trim \/ Send \/ RecvAck \/ Disconnect \/ Restart \/ UNCHANGED vars
  <2>1. UNCHANGED <<hwm, mark, ingested, twice, sess, calm>>
    BY <1>2 DEF Append1, Trim, Send, RecvAck, Disconnect, Restart, vars, serverVars, sessVars, histVars
  <2> QED BY <1>1, <2>1
<1>3. CASE Connect
  <2>1. /\ UNCHANGED <<hwm, mark, ingested, twice, calm>>
        /\ sess' = [sess EXCEPT ![cur + 1] = "read"]
    BY <1>3 DEF Connect, histVars
  <2>2. cur + 1 \in Conn /\ sess[cur + 1] = "none"
    BY <1>3 DEF Connect, Unmade, TypeOK, Conn
  <2> QED BY <1>1, <2>1, <2>2 DEF TypeOK
<1>4. ASSUME NEW c \in Conn, Reply(c) PROVE Known' /\ Fresh
  <2>1. /\ UNCHANGED <<hwm, ingested, twice>>
        /\ sess' = [sess EXCEPT ![c] = "read"]
        /\ calm
        /\ \/ sess[c] = "ingested" /\ mark' = hwm[c]
           \/ sess[c] = "skipped" /\ UNCHANGED mark
    BY <1>4 DEF Reply
  <2>2. CASE sess[c] = "skipped"
    BY <1>1, <2>1, <2>2 DEF TypeOK
  <2>3. CASE sess[c] = "ingested"
    <3>1. Known /\ LastReader(c)
      BY <2>1, <2>3 DEF Known
    <3>2. \A s \in ingested' : s <= mark'
      BY <2>1, <2>3, <3>1 DEF Known
    <3>3. \A d \in Conn : sess'[d] = "ingested" => sess[d] = "ingested"
      BY <2>1 DEF TypeOK
    <3> QED BY <2>1, <3>1, <3>2, <3>3 DEF Known, LastReader, Fresh
  <2> QED BY <2>1, <2>2, <2>3
<1>5. ASSUME NEW c \in Conn, Close(c) PROVE Known' /\ Fresh
  <2>1. /\ UNCHANGED <<hwm, mark, ingested, twice>>
        /\ sess' = [sess EXCEPT ![c] = "closed"]
    BY <1>5 DEF Close
  <2>2. calm /\ sess[c] # "ingested"
    BY <1>5 DEF Close
  <2> QED BY <1>1, <2>1, <2>2 DEF TypeOK
<1>6. ~MarkLost
  BY DEF MarkLost
<1> QED
  BY <1>2, <1>3, <1>4, <1>5, <1>6, CalmIngest DEF Next, Agent, Server

(* Each point is ingested at most once, and in the order of its commit, as *)
(* long as no mark is lost and no two sessions of the agent ingest side by *)
(* side, however often it was sent (queue.rs:3-5), for all sizes.          *)
THEOREM PointsOnceInOrder == Spec => OnceInOrder
<1>1. Init => OrderInv
  BY OrderInit
<1>2. TypeOK /\ OrderInv /\ [Next]_vars => OrderInv' /\ [calm' => Fresh]_vars
  BY WithinStep, UnmadeStep, CalmStep DEF OrderInv
<1>3. [calm' => Fresh]_vars =>
        [calm' => /\ twice' = {}
                  /\ \A s \in ingested' \ ingested, r \in ingested : r < s]_vars
  BY DEF Fresh
<1> QED BY <1>1, <1>2, <1>3, TypeCorrect, PTL DEF Spec, OnceInOrder
=============================================================================
