-------------------------- MODULE RunnerJobsProofs --------------------------
(***************************************************************************)
(* Proofs about RunnerJobs, for any jobs, runners, leases and timeouts.    *)
(***************************************************************************)
EXTENDS RunnerJobs, FiniteSetTheorems, TLAPS

USE TimeAssumption, BoundAssumption, NoneAssumption

(* Rows that have ended stay as they are, except that a runner is forgotten. *)
Kept ==
  \A j \in Job : row[j].state \in Ended =>
    row'[j].state = row[j].state /\ row'[j].runner \in {row[j].runner, NoRunner}

LEMMA FaultFacts ==
  ASSUME faults \in 0 .. MaxFaults, UNCHANGED faults \/ Fault
  PROVE  faults' \in 0 .. MaxFaults
BY DEF Fault

LEMMA MinusFacts ==
  ASSUME NEW m \in Nat, NEW n \in 0 .. m, NEW k \in Nat
  PROVE  Minus(n, k) \in 0 .. m
BY DEF Minus

State == {"none", "queued", "running"} \cup Ended

LEMMA EntryFacts ==
  ASSUME NEW s \in State, NEW r \in Runner \cup {NoRunner}, NEW n \in 0 .. MaxClaims,
         NEW l \in 0 .. Lease, NEW t \in 0 .. QueueTtl
  PROVE  /\ Entry(s, r, n, l, t) \in Row
         /\ Entry(s, r, n, l, t).state = s /\ Entry(s, r, n, l, t).runner = r
BY DEF Entry, Row, State

LEMMA FieldFacts ==
  ASSUME NEW w \in Row
  PROVE  /\ w.state \in State /\ w.runner \in Runner \cup {NoRunner}
         /\ w.attempts \in 0 .. MaxClaims /\ w.lease \in 0 .. Lease /\ w.ttl \in 0 .. QueueTtl
BY DEF Row, State

LEMMA EndRowFacts ==
  ASSUME NEW w \in Row, NEW s \in Ended
  PROVE  EndRow(w, s) \in Row /\ EndRow(w, s).state = s /\ EndRow(w, s).runner = w.runner
<1>1. s \in State /\ 0 \in 0 .. Lease /\ 0 \in 0 .. QueueTtl
  BY DEF State
<1>2. w.runner \in Runner \cup {NoRunner} /\ w.attempts \in 0 .. MaxClaims
  BY FieldFacts
<1>3. /\ Entry(s, w.runner, w.attempts, 0, 0) \in Row
      /\ Entry(s, w.runner, w.attempts, 0, 0).state = s
      /\ Entry(s, w.runner, w.attempts, 0, 0).runner = w.runner
  BY <1>1, <1>2, SMTT(30) DEF Entry, Row, State
<1> QED BY <1>3 DEF EndRow

LEMMA ReapedFacts ==
  ASSUME NEW w \in Row
  PROVE  /\ Failed(w) \in Row /\ (w.state \in Ended => Failed(w) = w)
         /\ Requeued(w) \in Row /\ (w.state \in Ended => Requeued(w) = w)
<1>1. EndRow(w, "lapsed") \in Row /\ EndRow(w, "expired") \in Row
  BY EndRowFacts DEF Ended
<1>2. Entry("queued", NoRunner, w.attempts, 0, QueueTtl) \in Row
  BY FieldFacts, EntryFacts DEF State
<1> QED BY <1>1, <1>2 DEF Failed, Requeued, Lapsed, Ended

(* A request that the server executes keeps the type of the rows, and      *)
(* changes none that has ended.                                            *)
LEMMA ExecutedFacts ==
  ASSUME TypeOK, NEW r \in Runner, NEW q \in Request, NEW ans, NEW k \in Job \cup {NoJob},
         Executed(r, q, ans, k)
  PROVE  row' \in [Job -> Row] /\ Kept
<1> USE DEF TypeOK
<1>1. CASE UNCHANGED row
  BY <1>1 DEF Kept
<1>2. CASE k \in Job /\ Claim(r, k)
  <2> DEFINE w == Entry("running", r, row[k].attempts + 1, Lease, row[k].ttl)
  <2>1. row' = [row EXCEPT ![k] = w] /\ row[k].state = "queued" /\ row[k] \in Row
    BY <1>2 DEF Claim
  <2>2. w \in Row
    <3>1. row[k].attempts + 1 \in 0 .. MaxClaims
      BY <1>2, <2>1, FieldFacts DEF Claim
    <3>2. /\ row[k].ttl \in 0 .. QueueTtl /\ Lease \in 0 .. Lease
          /\ "running" \in State /\ r \in Runner \cup {NoRunner}
      BY <2>1, FieldFacts DEF State
    <3> QED BY <3>1, <3>2, SMTT(30) DEF Entry, Row, State
  <2> HIDE DEF w
  <2> QED BY <1>2, <2>1, <2>2 DEF Kept, Ended
<1>3. CASE k \in Job /\ HeldBy(r, k) /\ Renew(k)
  <2> DEFINE w == Entry(row[k].state, row[k].runner, row[k].attempts, Lease, row[k].ttl)
  <2>1. row' = [row EXCEPT ![k] = w] /\ row[k].state = "running" /\ row[k] \in Row
    BY <1>3 DEF Renew, HeldBy
  <2>2. w \in Row
    BY <2>1, SMTT(30) DEF Entry, Row
  <2> HIDE DEF w
  <2> QED BY <1>3, <2>1, <2>2 DEF Kept, Ended
<1>4. CASE k \in Job /\ HeldBy(r, k) /\ Report(r, k, ans)
  <2>1. /\ row' = [row EXCEPT ![k] = EndRow(row[k], "reported")]
        /\ row[k].state = "running" /\ row[k] \in Row
    BY <1>4 DEF Report, HeldBy
  <2>2. EndRow(row[k], "reported") \in Row
    BY <2>1, EndRowFacts DEF Ended
  <2> QED BY <1>4, <2>1, <2>2 DEF Kept, Ended
<1>5. CASE k \in Job /\ Refuse(r, k)
  <2> DEFINE w == Entry("reported", r, row[k].attempts + 1, 0, 0)
  <2>1. row' = [row EXCEPT ![k] = w] /\ row[k].state = "queued" /\ row[k] \in Row
    BY <1>5 DEF Refuse
  <2>2. w \in Row
    <3>1. row[k].attempts + 1 \in 0 .. MaxClaims
      BY <1>5, <2>1, FieldFacts DEF Refuse
    <3>2. /\ 0 \in 0 .. QueueTtl /\ 0 \in 0 .. Lease
          /\ "reported" \in State /\ r \in Runner \cup {NoRunner}
      BY DEF State, Ended
    <3> QED BY <3>1, <3>2, SMTT(30) DEF Entry, Row, State
  <2> HIDE DEF w
  <2> QED BY <1>5, <2>1, <2>2 DEF Kept, Ended
<1>6. CASE k \notin Job /\ ~UNCHANGED row
  BY <1>6 DEF Executed, Finish, Claim, Renew, Report
<1> QED
  BY <1>1, <1>2, <1>3, <1>4, <1>5, <1>6 DEF Executed, Finish

(* The same for every step. *)
LEMMA RowStep == TypeOK /\ [Next]_vars => row' \in [Job -> Row] /\ Kept
<1> SUFFICES ASSUME TypeOK, [Next]_vars PROVE row' \in [Job -> Row] /\ Kept
  OBVIOUS
<1> USE DEF TypeOK
<1>0. CASE UNCHANGED row
  BY <1>0 DEF Kept
<1>1. ASSUME NEW j \in Job, Create(j) PROVE row' \in [Job -> Row] /\ Kept
  <2> DEFINE w == Entry("queued", NoRunner, 0, 0, QueueTtl)
  <2>1. row' = [row EXCEPT ![j] = w] /\ row[j].state = "none" /\ row[j] \in Row
    BY <1>1 DEF Create
  <2>2. w \in Row
    BY EntryFacts DEF State
  <2> HIDE DEF w
  <2> QED BY <2>1, <2>2 DEF Kept, Ended
<1>2. ASSUME NEW j \in Job, StopJob(j) PROVE row' \in [Job -> Row] /\ Kept
  <2>1. /\ row' = [row EXCEPT ![j] = EndRow(row[j], "stopped")]
        /\ row[j].state \in {"queued", "running"} /\ row[j] \in Row
    BY <1>2 DEF StopJob
  <2>2. EndRow(row[j], "stopped") \in Row
    BY <2>1, EndRowFacts DEF Ended
  <2> QED BY <2>1, <2>2 DEF Kept, Ended
<1>3. ASSUME NEW r \in Runner, Serve(r) PROVE row' \in [Job -> Row] /\ Kept
  <2>1. call[r].req \in Request
    BY DEF Call
  <2> QED BY <1>3, <2>1, ExecutedFacts DEF Serve
<1>4. ASSUME NEW r \in Runner, ServeStray(r) PROVE row' \in [Job -> Row] /\ Kept
  <2>1. stray[r] \in Request
    OBVIOUS
  <2> QED BY <1>4, <2>1, ExecutedFacts DEF ServeStray
<1>5. ASSUME NEW r \in Runner, DeleteRunner(r) PROVE row' \in [Job -> Row] /\ Kept
  <2>1. row' = [j \in Job |-> IF HeldBy(r, j)
                              THEN Entry("queued", NoRunner, row[j].attempts, 0, row[j].ttl)
                              ELSE IF row[j].runner = r THEN Forgotten(row[j]) ELSE row[j]]
    BY <1>5 DEF DeleteRunner
  <2>2. ASSUME NEW j \in Job
        PROVE  /\ row'[j] \in Row
               /\ ~HeldBy(r, j) => /\ row'[j].state = row[j].state
                                  /\ row'[j].runner \in {row[j].runner, NoRunner}
    <3>1. row[j] \in Row
      OBVIOUS
    <3>2. /\ row[j].state \in State /\ row[j].attempts \in 0 .. MaxClaims
          /\ row[j].lease \in 0 .. Lease /\ row[j].ttl \in 0 .. QueueTtl
      BY <3>1, FieldFacts
    <3>3. 0 \in 0 .. Lease /\ "queued" \in State
      BY DEF State
    <3>4. /\ Entry("queued", NoRunner, row[j].attempts, 0, row[j].ttl) \in Row
          /\ Forgotten(row[j]) \in Row
          /\ Forgotten(row[j]).state = row[j].state /\ Forgotten(row[j]).runner = NoRunner
      BY <3>2, <3>3, SMTT(30) DEF Forgotten, Entry, Row, State
    <3> QED BY <2>1, <3>1, <3>4
  <2>3. \A j \in Job : HeldBy(r, j) => row[j].state \notin Ended
    BY DEF HeldBy, Ended
  <2> QED BY <2>1, <2>2, <2>3 DEF Kept
<1>6. CASE ReapPauses
  <2>1. row' = [j \in Job |-> Failed(row[j])]
    BY <1>6 DEF ReapPauses
  <2> QED BY <2>1, ReapedFacts DEF Kept
<1>7. CASE Reap \/ ReapGoesOn
  <2>1. CASE row' = [j \in Job |-> Requeued(row[j])]
    BY <2>1, ReapedFacts DEF Kept
  <2>2. CASE row' = [j \in Job |-> Requeued(Failed(row[j]))]
    BY <2>2, ReapedFacts DEF Kept
  <2> QED BY <1>7, <2>1, <2>2 DEF Reap, ReapGoesOn
<1>8. CASE Tick
  <2>1. row' = [j \in Job |-> Older(row[j])]
    BY <1>8 DEF Tick
  <2>2. ASSUME NEW j \in Job
        PROVE  row'[j] \in Row /\ row'[j].state = row[j].state /\ row'[j].runner = row[j].runner
    <3>1. row[j] \in Row
      OBVIOUS
    <3>2. Minus(row[j].lease, 1) \in 0 .. Lease /\ Minus(row[j].ttl, 1) \in 0 .. QueueTtl
      BY <3>1, FieldFacts, MinusFacts
    <3>3. /\ row[j].state \in State /\ row[j].runner \in Runner \cup {NoRunner}
          /\ row[j].attempts \in 0 .. MaxClaims
      BY <3>1, FieldFacts
    <3>4. /\ Older(row[j]) \in Row /\ Older(row[j]).state = row[j].state
          /\ Older(row[j]).runner = row[j].runner
      BY <3>2, <3>3, SMTT(30) DEF Older, Entry, Row, State
    <3> QED BY <2>1, <3>4
  <2> QED BY <2>1, <2>2 DEF Kept
<1>9. ASSUME NEW r \in Runner, LoopStep(r) \/ CallDelayed(r) \/ Crash(r) \/ Restart(r)
      PROVE  UNCHANGED row
  BY <1>9 DEF LoopStep, Collect, ReportAgain, Heartbeat, LetRun, RemoveStrays, Start, Renewed,
              Lost, Abandon, LogsTaken, Reported, CallFails, CallDelayed, Crash, Restart
<1>10. ASSUME NEW r \in Runner, NEW j \in Job, PodEnds(r, j) PROVE UNCHANGED row
  BY <1>10 DEF PodEnds
<1>11. CASE ReapCut \/ UNCHANGED vars
  BY <1>0, <1>11 DEF ReapCut, vars
<1> QED
  BY <1>0, <1>1, <1>2, <1>3, <1>4, <1>5, <1>6, <1>7, <1>8, <1>9, <1>10, <1>11
  DEF Next, ServerStep

-----------------------------------------------------------------------------
(* The other variables. *)
LoopTyped ==
  /\ pc' \in [Runner -> {"down", "sleep", "follow", "call"}]
  /\ todo' \in [Runner -> SUBSET Job]
  /\ held' \in [Runner -> [Job -> {"no", "run", "end"}]]
  /\ left' \in [Runner -> [Job -> 0 .. Lease]] /\ beat' \in [Runner -> [Job -> 0 .. Beat]]
  /\ late' \in [Runner -> BOOLEAN]
  /\ pod' \in [Runner -> [Job -> {"none", "running", "ended"}]]
  /\ faults' \in 0 .. MaxFaults

(* A value that belongs to a runner and a job. *)
LEMMA PairFacts ==
  ASSUME NEW S, NEW f \in [Runner -> [Job -> S]], NEW r \in Runner, NEW j, NEW v \in S
  PROVE  [f EXCEPT ![r][j] = v] \in [Runner -> [Job -> S]]
<1>1. [f[r] EXCEPT ![j] = v] \in [Job -> S]
  OBVIOUS
<1>2. [f EXCEPT ![r][j] = v] = [f EXCEPT ![r] = [f[r] EXCEPT ![j] = v]]
  OBVIOUS
<1> QED BY <1>1, <1>2

LEMMA ClockFacts ==
  ASSUME TypeOK, NEW r \in Runner, NEW j
  PROVE  /\ \A v \in 0 .. Lease : [left EXCEPT ![r][j] = v] \in [Runner -> [Job -> 0 .. Lease]]
         /\ \A v \in 0 .. Beat : [beat EXCEPT ![r][j] = v] \in [Runner -> [Job -> 0 .. Beat]]
<1>1. ASSUME NEW v \in 0 .. Lease
      PROVE  [left EXCEPT ![r][j] = v] \in [Runner -> [Job -> 0 .. Lease]]
  BY PairFacts DEF TypeOK
<1>2. ASSUME NEW v \in 0 .. Beat
      PROVE  [beat EXCEPT ![r][j] = v] \in [Runner -> [Job -> 0 .. Beat]]
  BY PairFacts DEF TypeOK
<1> QED BY <1>1, <1>2

CallTyped == call' \in [Runner -> Call]

LEMMA CallFacts ==
  ASSUME NEW op \in {"none", "claim", "beat", "logs", "finish"}, NEW j \in Job \cup {NoJob},
         NEW a \in 0 .. CallMax, NEW ans \in Answer \cup {"none"}
  PROVE  Exchange(op, j, a, ans) \in Call
BY DEF Exchange, Call, Request

LEMMA CallFields ==
  ASSUME NEW c \in Call
  PROVE  /\ c.req \in Request /\ c.age \in 0 .. CallMax
         /\ c.ans \in Answer \cup {"none"}
         /\ c.req.op \in {"none", "claim", "beat", "logs", "finish"}
         /\ c.req.job \in Job \cup {NoJob}
BY DEF Call, Request

LEMMA SentFacts ==
  ASSUME NEW op \in {"none", "claim", "beat", "logs", "finish"}, NEW j \in Job \cup {NoJob}
  PROVE  Sent(op, j) \in Call
BY CallFacts DEF Sent

LEMMA AskFacts ==
  ASSUME TypeOK, NEW r \in Runner, NEW op \in {"none", "claim", "beat", "logs", "finish"},
         NEW j \in Job \cup {NoJob}, Ask(r, op, j)
  PROVE  CallTyped /\ pc' \in [Runner -> {"down", "sleep", "follow", "call"}]
BY SentFacts DEF TypeOK, Ask, CallTyped

LEMMA ResumeFacts ==
  ASSUME TypeOK, NEW r \in Runner, NEW p \in {"follow", "sleep"}, Resume(r, p)
  PROVE  /\ CallTyped /\ pc' \in [Runner -> {"down", "sleep", "follow", "call"}]
         /\ late' \in [Runner -> BOOLEAN]
BY SentFacts DEF TypeOK, Resume, CallTyped, NoCall

LEMMA TakeWorkFacts ==
  ASSUME TypeOK, NEW r \in Runner, NEW n, TakeWork(r, n)
  PROVE  CallTyped /\ pc' \in [Runner -> {"down", "sleep", "follow", "call"}]
<1>1. CASE Ask(r, "claim", NoJob)
  BY <1>1, AskFacts
<1>2. CASE pc' = [pc EXCEPT ![r] = "sleep"] /\ call' = [call EXCEPT ![r] = NoCall]
  BY <1>2, SentFacts DEF TypeOK, CallTyped, NoCall
<1> QED BY <1>1, <1>2 DEF TakeWork

LEMMA DestroyFacts ==
  ASSUME TypeOK, NEW r \in Runner, NEW j, Destroy(r, j)
  PROVE  pod' \in [Runner -> [Job -> {"none", "running", "ended"}]] /\ faults' \in 0 .. MaxFaults
<1>1. [pod EXCEPT ![r][j] = "none"] \in [Runner -> [Job -> {"none", "running", "ended"}]]
  BY PairFacts DEF TypeOK
<1>2. faults' \in 0 .. MaxFaults
  BY FaultFacts DEF TypeOK, Destroy
<1> QED BY <1>1, <1>2 DEF TypeOK, Destroy

LEMMA DropFacts ==
  ASSUME TypeOK, NEW r \in Runner, NEW j, Drop(r, j)
  PROVE  /\ held' \in [Runner -> [Job -> {"no", "run", "end"}]]
         /\ left' \in [Runner -> [Job -> 0 .. Lease]] /\ beat' \in [Runner -> [Job -> 0 .. Beat]]
<1>1. [held EXCEPT ![r][j] = "no"] \in [Runner -> [Job -> {"no", "run", "end"}]]
  BY PairFacts DEF TypeOK
<1>2. 0 \in 0 .. Lease /\ 0 \in 0 .. Beat
  OBVIOUS
<1> QED BY <1>1, <1>2, ClockFacts DEF Drop

(* Every step of the loop of a runner keeps the types of its variables. *)
LEMMA LoopStepFacts ==
  ASSUME TypeOK, NEW r \in Runner, LoopStep(r)
  PROVE  LoopTyped /\ CallTyped
<1> USE DEF TypeOK, LoopTyped
<1>1. ASSUME NEW j \in Job, Collect(r, j) PROVE LoopTyped /\ CallTyped
  <2>1. [held EXCEPT ![r][j] = "end"] \in [Runner -> [Job -> {"no", "run", "end"}]]
    BY PairFacts
  <2>2. Ask(r, "logs", j) /\ Destroy(r, j)
    BY <1>1 DEF Collect, AskAbout
  <2>3. CallTyped /\ pc' \in [Runner -> {"down", "sleep", "follow", "call"}]
    BY <2>2, AskFacts
  <2>4. late' = [late EXCEPT ![r] = (left[r][j] = 0)] /\ todo' = [todo EXCEPT ![r] = @ \ {j}]
    BY <1>1 DEF Collect, Look, AskAbout
  <2>5. late' \in [Runner -> BOOLEAN] /\ todo' \in [Runner -> SUBSET Job]
    BY <2>4
  <2> QED BY <1>1, <2>1, <2>2, <2>3, <2>5, DestroyFacts DEF Collect
<1>2. ASSUME NEW j \in Job, ReportAgain(r, j) PROVE LoopTyped /\ CallTyped
  <2>1. CallTyped /\ pc' \in [Runner -> {"down", "sleep", "follow", "call"}]
    BY <1>2, AskFacts DEF ReportAgain, AskAbout
  <2>2. late' = [late EXCEPT ![r] = (left[r][j] = 0)] /\ todo' = [todo EXCEPT ![r] = @ \ {j}]
    BY <1>2 DEF ReportAgain, Look, AskAbout
  <2>3. late' \in [Runner -> BOOLEAN] /\ todo' \in [Runner -> SUBSET Job]
    BY <2>2
  <2> QED BY <1>2, <2>1, <2>3 DEF ReportAgain, histVars
<1>3. ASSUME NEW j \in Job, Heartbeat(r, j) PROVE LoopTyped /\ CallTyped
  <2>1. CallTyped /\ pc' \in [Runner -> {"down", "sleep", "follow", "call"}]
    BY <1>3, AskFacts DEF Heartbeat, AskAbout
  <2>2. late' = [late EXCEPT ![r] = (left[r][j] = 0)] /\ todo' = [todo EXCEPT ![r] = @ \ {j}]
    BY <1>3 DEF Heartbeat, Look, AskAbout
  <2>3. late' \in [Runner -> BOOLEAN] /\ todo' \in [Runner -> SUBSET Job]
    BY <2>2
  <2> QED BY <1>3, <2>1, <2>3 DEF Heartbeat, histVars
<1>4. ASSUME NEW j \in Job, LetRun(r, j) PROVE LoopTyped /\ CallTyped
  BY <1>4 DEF LetRun, Look, CallTyped, histVars
<1>5. CASE RemoveStrays(r)
  <2>1. CallTyped /\ pc' \in [Runner -> {"down", "sleep", "follow", "call"}]
    BY <1>5, TakeWorkFacts DEF RemoveStrays
  <2> DEFINE none == [j \in Job |-> IF held[r][j] = "no" THEN "none" ELSE pod[r][j]]
  <2>2. none \in [Job -> {"none", "running", "ended"}]
    OBVIOUS
  <2>3. pod' = [pod EXCEPT ![r] = none] \/ UNCHANGED pod
    BY <1>5 DEF RemoveStrays
  <2>4. pod' \in [Runner -> [Job -> {"none", "running", "ended"}]]
    BY <2>2, <2>3
  <2>5. faults' \in 0 .. MaxFaults
    BY <1>5, FaultFacts DEF RemoveStrays
  <2> QED BY <1>5, <2>1, <2>4, <2>5 DEF RemoveStrays
<1>6. CASE Start(r)
  <2>1. CallTyped /\ pc' \in [Runner -> {"down", "sleep", "follow", "call"}]
    BY <1>6, TakeWorkFacts DEF Start
  <2> DEFINE j == call[r].req.job
  <2>2. Lease \in 0 .. Lease /\ Beat \in 0 .. Beat
    OBVIOUS
  <2>3. [left EXCEPT ![r][j] = Lease] \in [Runner -> [Job -> 0 .. Lease]]
    BY <2>2, ClockFacts
  <2>6. [beat EXCEPT ![r][j] = Beat] \in [Runner -> [Job -> 0 .. Beat]]
    BY <2>2, ClockFacts
  <2>4. \A v \in {"run", "end"} :
          [held EXCEPT ![r][j] = v] \in [Runner -> [Job -> {"no", "run", "end"}]]
    BY PairFacts
  <2>5. \A v \in {"running", "none"} :
          [pod EXCEPT ![r][j] = v] \in [Runner -> [Job -> {"none", "running", "ended"}]]
    BY PairFacts
  <2> QED BY <1>6, <2>1, <2>3, <2>4, <2>5, <2>6 DEF Start, histVars
<1>7. CASE Renewed(r)
  <2>1. call[r].age \in Nat
    BY CallFields
  <2>2. Minus(Lease, call[r].age) \in 0 .. Lease /\ Minus(Beat, call[r].age) \in 0 .. Beat
    <3>1. Lease \in 0 .. Lease /\ Beat \in 0 .. Beat
      OBVIOUS
    <3> QED BY <2>1, <3>1, MinusFacts
  <2>3. left' \in [Runner -> [Job -> 0 .. Lease]]
    BY <1>7, <2>2, ClockFacts DEF Renewed
  <2>4. beat' \in [Runner -> [Job -> 0 .. Beat]]
    BY <1>7, <2>2, ClockFacts DEF Renewed
  <2> QED BY <1>7, <2>3, <2>4, ResumeFacts DEF Renewed, histVars
<1>8. CASE Lost(r)
  <2>1. call[r].req.job \in Job \cup {NoJob}
    BY CallFields
  <2> QED BY <1>8, <2>1, AskFacts DEF Lost, histVars
<1>12. CASE Abandon(r)
  BY <1>12, DestroyFacts, DropFacts, ResumeFacts DEF Abandon
<1>9. CASE LogsTaken(r)
  <2>1. call[r].req.job \in Job \cup {NoJob}
    BY CallFields
  <2> QED BY <1>9, <2>1, AskFacts DEF LogsTaken, histVars
<1>10. CASE Reported(r)
  BY <1>10, DropFacts, ResumeFacts DEF Reported
<1>11. CASE CallFails(r)
  <2> DEFINE op == call[r].req.op
             j == call[r].req.job
  <2>1. j \in Job \cup {NoJob}
    BY CallFields
  <2>2. CASE op = "claim"
    BY <1>11, <2>2, ResumeFacts DEF CallFails, AtLogs
  <2>3. CASE op \in {"beat", "finish"}
    <3>1. GivesUp(r, op, j) /\ UNCHANGED todo
      BY <1>11, <2>3 DEF CallFails, AtLogs
    <3> QED BY <3>1, ResumeFacts, DropFacts, DestroyFacts DEF GivesUp, Unanswered
  <2>4. CASE AtLogs(r, "end")
    BY <1>11, <2>1, <2>4, AskFacts DEF CallFails, Unanswered, AtLogs
  <2> QED BY <1>11, <2>2, <2>3, <2>4 DEF CallFails
<1> QED
  BY <1>1, <1>2, <1>3, <1>4, <1>5, <1>6, <1>7, <1>8, <1>9, <1>10, <1>11, <1>12
  DEF LoopStep

CleanTyped == clean' \in [Runner -> BOOLEAN]

LEMMA CleanFacts ==
  ASSUME clean \in [Runner -> BOOLEAN], NEW r \in Runner, NEW b \in BOOLEAN,
         clean' = [clean EXCEPT ![r] = b]
  PROVE  CleanTyped
BY DEF CleanTyped

LEMMA LoopStepClean ==
  ASSUME TypeOK, NEW r \in Runner, LoopStep(r)
  PROVE  CleanTyped /\ UNCHANGED <<reap, enrolled, stray, over>>
<1>1. clean \in [Runner -> BOOLEAN]
  BY DEF TypeOK
<1>2. ASSUME NEW j, Drop(r, j) PROVE CleanTyped
  <2> DEFINE b == clean[r] \/ JobsOf(r) \subseteq {j}
  <2>1. b \in BOOLEAN
    BY Zenon
  <2>2. clean' = [clean EXCEPT ![r] = b]
    BY <1>2, Zenon DEF Drop
  <2> HIDE DEF b
  <2> QED BY <1>1, <2>1, <2>2, CleanFacts
<1>3. ASSUME Unanswered(r) PROVE CleanTyped
  BY <1>1, <1>3, CleanFacts DEF Unanswered
<1>4. ASSUME UNCHANGED clean PROVE CleanTyped
  BY <1>1, <1>4 DEF CleanTyped
<1>5. UNCHANGED clean \/ Unanswered(r) \/ Drop(r, call[r].req.job)
  BY DEF LoopStep, Collect, ReportAgain, Heartbeat, LetRun, RemoveStrays, Start, Renewed,
         Lost, Abandon, LogsTaken, Reported, CallFails, GivesUp, histVars
<1>6. UNCHANGED <<reap, enrolled, stray, over>>
  BY DEF LoopStep, Collect, ReportAgain, Heartbeat, LetRun, RemoveStrays, Start, Renewed,
         Lost, Abandon, LogsTaken, Reported, CallFails, histVars
<1> QED BY <1>2, <1>3, <1>4, <1>5, <1>6

(* Time. *)
LEMMA TickFacts ==
  ASSUME TypeOK, Tick
  PROVE  LoopTyped /\ CallTyped /\ stray' \in [Runner -> Request] /\ over' \in [Job -> Nat]
<1> USE DEF TypeOK, Tick
<1>1. left' \in [Runner -> [Job -> 0 .. Lease]]
  <2>1. \A r \in Runner, j \in Job : Minus(left[r][j], 1) \in 0 .. Lease
    BY MinusFacts
  <2> QED BY <2>1
<1>2. beat' \in [Runner -> [Job -> 0 .. Beat]]
  <2>1. \A r \in Runner, j \in Job : Minus(beat[r][j], 1) \in 0 .. Beat
    BY MinusFacts
  <2> QED BY <2>1
<1>3. CallTyped
  <2>1. ASSUME NEW r \in Runner, pc[r] = "call"
        PROVE  Exchange(call[r].req.op, call[r].req.job, call[r].age + 1, call[r].ans) \in Call
    <3>1. call[r] \in Call /\ call[r].age < CallMax
      BY <2>1
    <3>2. call[r].age + 1 \in 0 .. CallMax
      BY <3>1, CallFields
    <3> QED BY <3>1, <3>2, CallFields, CallFacts
  <2>2. call' = [r \in Runner |-> IF pc[r] # "call" THEN call[r]
                 ELSE Exchange(call[r].req.op, call[r].req.job, call[r].age + 1, call[r].ans)]
    OBVIOUS
  <2> QED BY <2>1, <2>2 DEF CallTyped
<1>4. stray' \in [Runner -> Request]
  BY DEF NoRequest, Request
<1>5. todo' \in [Runner -> SUBSET Job] /\ pc' \in [Runner -> {"down", "sleep", "follow", "call"}]
  BY DEF JobsOf
<1>6. over' \in [Job -> Nat]
  OBVIOUS
<1> QED BY <1>1, <1>2, <1>3, <1>4, <1>5, <1>6 DEF LoopTyped

LEMMA RecountedFacts == TypeOK /\ Recounted => over' \in [Job -> Nat]
BY DEF TypeOK, Recounted

(* Every step keeps the types of all variables but row. *)
LEMMA RestStep ==
  ASSUME TypeOK, [Next]_vars
  PROVE  /\ reap' \in {"fail", "requeue"} /\ enrolled' \in [Runner -> BOOLEAN]
         /\ LoopTyped /\ CallTyped /\ CleanTyped
         /\ stray' \in [Runner -> Request] /\ over' \in [Job -> Nat]
<1> DEFINE Goal == /\ reap' \in {"fail", "requeue"} /\ enrolled' \in [Runner -> BOOLEAN]
                   /\ LoopTyped /\ CallTyped /\ CleanTyped
                   /\ stray' \in [Runner -> Request] /\ over' \in [Job -> Nat]
<1> USE DEF TypeOK, LoopTyped, CallTyped, CleanTyped, runnerVars, histVars
<1>1. ASSUME NEW r \in Runner, LoopStep(r) PROVE Goal
  BY <1>1, LoopStepFacts, LoopStepClean
<1>2. CASE Tick
  BY <1>2, TickFacts DEF Tick
<1>3. ASSUME NEW r \in Runner, Serve(r) PROVE Goal
  <2>1. PICK ans \in Answer, k \in Job \cup {NoJob} :
          call' = [call EXCEPT ![r] = Exchange(@.req.op, k, @.age, ans)]
    BY <1>3 DEF Serve
  <2>2. Exchange(call[r].req.op, k, call[r].age, ans) \in Call
    BY CallFields, CallFacts
  <2> QED BY <1>3, <2>1, <2>2, RecountedFacts DEF Serve
<1>4. ASSUME NEW r \in Runner, ServeStray(r) PROVE Goal
  BY <1>4, RecountedFacts DEF ServeStray, NoRequest, Request
<1>5. ASSUME NEW r \in Runner, DeleteRunner(r) PROVE Goal
  <2>1. faults' \in 0 .. MaxFaults
    BY <1>5, FaultFacts DEF DeleteRunner
  <2> QED BY <1>5, <2>1 DEF DeleteRunner
<1>6. ASSUME NEW r \in Runner, CallDelayed(r) PROVE Goal
  <2>1. faults' \in 0 .. MaxFaults
    BY <1>6, FaultFacts DEF CallDelayed
  <2>2. /\ Exchange(call[r].req.op, call[r].req.job, call[r].age, "error") \in Call
        /\ call[r].req \in Request
    BY CallFields, CallFacts DEF Answer
  <2> QED BY <1>6, <2>1, <2>2 DEF CallDelayed
<1>7. ASSUME NEW r \in Runner, Crash(r) PROVE Goal
  <2>1. faults' \in 0 .. MaxFaults
    BY <1>7, FaultFacts DEF Crash
  <2>2. NoCall \in Call
    BY SentFacts DEF NoCall
  <2> QED BY <1>7, <2>1, <2>2 DEF Crash
<1>8. ASSUME NEW r \in Runner, Restart(r) PROVE Goal
  BY <1>8 DEF Restart
<1>9. ASSUME NEW r \in Runner, NEW j \in Job, PodEnds(r, j) PROVE Goal
  <2>1. [pod EXCEPT ![r][j] = "ended"] \in [Runner -> [Job -> {"none", "running", "ended"}]]
    BY PairFacts
  <2> QED BY <1>9, <2>1 DEF PodEnds
<1>10. ASSUME NEW j \in Job, Create(j) \/ StopJob(j) PROVE Goal
  BY <1>10 DEF Create, StopJob
<1>11. CASE Reap \/ ReapGoesOn \/ ReapCut
  BY <1>11 DEF Reap, ReapGoesOn, ReapCut
<1>12. CASE ReapPauses
  <2>1. faults' \in 0 .. MaxFaults
    BY <1>12, FaultFacts DEF ReapPauses
  <2> QED BY <1>12, <2>1 DEF ReapPauses
<1>13. CASE UNCHANGED vars
  BY <1>13 DEF vars
<1> QED
  BY <1>1, <1>2, <1>3, <1>4, <1>5, <1>6, <1>7, <1>8, <1>9, <1>10, <1>11, <1>12, <1>13
  DEF Next, ServerStep

LEMMA InitTyped == Init => TypeOK
<1> SUFFICES ASSUME Init PROVE TypeOK
  OBVIOUS
<1>1. Entry("none", NoRunner, 0, 0, 0) \in Row
  BY EntryFacts DEF State
<1>2. NoCall \in Call /\ NoRequest \in Request
  BY SentFacts DEF NoCall, NoRequest, Request
<1> QED BY <1>1, <1>2 DEF Init, TypeOK

(* Every variable has its type, however many jobs and runners there are.   *)
THEOREM TypeCorrect == Spec => []TypeOK
<1>1. TypeOK /\ [Next]_vars => TypeOK'
  BY RowStep, RestStep DEF TypeOK, LoopTyped, CallTyped, CleanTyped
<1> QED BY <1>1, InitTyped, PTL DEF Spec

(* A job ends once: neither a report that comes late or twice, nor the     *)
(* reaper, nor the deletion of its runner changes a row that has ended.    *)
THEOREM JobsEndOnce == Spec => EndsOnce
<1>1. TypeOK /\ [Next]_vars =>
        [\A j \in Job : row[j].state \in Ended =>
           /\ row'[j].state = row[j].state
           /\ row'[j].runner \in {row[j].runner, NoRunner}]_vars
  BY RowStep DEF Kept
<1> QED BY <1>1, TypeCorrect, PTL DEF Spec, EndsOnce

-----------------------------------------------------------------------------
(* How long things take.  The calls of a runner come one after the other:  *)
(* two about each job it looks at, one for each job it claims.             *)
Calls(n) == n * CallMax
Pair(n) == n * (2 * CallMax)

LEMMA CallsFacts ==
  /\ Calls(0) = 0 /\ \A n \in Nat : Calls(n) \in Nat
  /\ \A n \in Nat : Calls(n + 1) = Calls(n) + CallMax
  /\ \A m, n \in Nat : m <= n => Calls(m) <= Calls(n)
<1>1. Calls(0) = 0 /\ \A n \in Nat : Calls(n) \in Nat /\ Calls(n + 1) = Calls(n) + CallMax
  BY DEF Calls
<1>2. ASSUME NEW m \in Nat, NEW n \in Nat, m <= n PROVE m * CallMax <= n * CallMax
  <2>1. (n - m) * CallMax \in Nat
    BY <1>2
  <2>2. (n - m) * CallMax = n * CallMax - m * CallMax
    OBVIOUS
  <2> QED BY <2>1, <2>2
<1> QED BY <1>1, <1>2 DEF Calls

LEMMA PairFact ==
  /\ Pair(0) = 0 /\ \A n \in Nat : Pair(n) \in Nat
  /\ \A n \in Nat : Pair(n + 1) = Pair(n) + 2 * CallMax
  /\ \A m, n \in Nat : m <= n => Pair(m) <= Pair(n)
<1>1. Pair(0) = 0 /\ \A n \in Nat : Pair(n) \in Nat /\ Pair(n + 1) = Pair(n) + 2 * CallMax
  BY DEF Pair
<1>2. ASSUME NEW m \in Nat, NEW n \in Nat, m <= n PROVE m * (2 * CallMax) <= n * (2 * CallMax)
  <2>1. (n - m) * (2 * CallMax) \in Nat
    BY <1>2
  <2>2. (n - m) * (2 * CallMax) = n * (2 * CallMax) - m * (2 * CallMax)
    OBVIOUS
  <2> QED BY <2>1, <2>2
<1> QED BY <1>1, <1>2 DEF Pair

-----------------------------------------------------------------------------
(* What a step that takes no time does to the row of a job. *)
MovesRow(j) ==
  \/ row'[j] = row[j]
  \/ /\ row'[j].state \in Ended /\ row[j].state \in {"queued", "running"}
     /\ row'[j].runner = row[j].runner \/ (row[j].state = "queued" /\ over'[j] = 0)
  \/ /\ row'[j].state = "queued" /\ row'[j].runner = NoRunner
     /\ row[j].state = "none" \/ Lapsed(row[j])
  \/ /\ row[j].state = "running" /\ row'[j].state = "running"
     /\ row'[j].runner = row[j].runner /\ row'[j].lease = Lease
  \/ /\ row[j].state = "queued" /\ row'[j].state = "running" /\ row'[j].lease = Lease
     /\ row'[j].runner \in Runner /\ enrolled[row'[j].runner] /\ UNCHANGED enrolled
     /\ over'[j] = 0
  \/ /\ row[j].runner \in Runner /\ enrolled[row[j].runner] /\ ~enrolled'[row[j].runner]
     /\ row'[j].runner = NoRunner
     /\ row'[j].state = IF row[j].state = "running" THEN "queued" ELSE row[j].state

Moves(j) == MovesRow(j) /\ over'[j] \in {over[j], 0}

LEMMA EntryFields ==
  ASSUME NEW s, NEW r, NEW n, NEW l, NEW t
  PROVE  /\ Entry(s, r, n, l, t).state = s /\ Entry(s, r, n, l, t).runner = r
         /\ Entry(s, r, n, l, t).attempts = n /\ Entry(s, r, n, l, t).lease = l
         /\ Entry(s, r, n, l, t).ttl = t
BY DEF Entry

LEMMA ExecutedMoves ==
  ASSUME TypeOK, NEW r \in Runner, NEW q \in Request, NEW ans, NEW k \in Job \cup {NoJob},
         Executed(r, q, ans, k), UNCHANGED enrolled, Recounted, NEW j \in Job
  PROVE  Moves(j)
<1>0. row \in [Job -> Row] /\ enrolled[r]
  BY DEF TypeOK, Executed
<1>a. /\ over'[j] = IF row[j].attempts < row'[j].attempts THEN 0 ELSE over[j]
      /\ row[j].attempts \in Nat
  BY <1>0, FieldFacts DEF Recounted
<1>1. CASE row'[j] = row[j]
  BY <1>1, <1>a DEF Moves, MovesRow
<1>2. CASE k = j /\ Claim(r, k)
  <2>1. /\ row'[j] = Entry("running", r, row[j].attempts + 1, Lease, row[j].ttl)
        /\ row[j].state = "queued"
    BY <1>2, <1>0 DEF Claim
  <2>2. /\ row'[j].state = "running" /\ row'[j].runner = r /\ row'[j].lease = Lease
        /\ row'[j].attempts = row[j].attempts + 1
    BY <2>1, EntryFields
  <2> QED BY <1>0, <1>a, <2>1, <2>2 DEF Moves, MovesRow
<1>3. CASE k = j /\ HeldBy(r, k) /\ Renew(k)
  <2>1. row'[j] = Entry(row[j].state, row[j].runner, row[j].attempts, Lease, row[j].ttl)
    BY <1>3, <1>0 DEF Renew
  <2>2. /\ row'[j].state = "running" /\ row'[j].runner = row[j].runner
        /\ row'[j].lease = Lease
    BY <1>3, <2>1, EntryFields DEF HeldBy
  <2> QED BY <1>a, <1>3, <2>2 DEF Moves, MovesRow, HeldBy
<1>4. CASE k = j /\ HeldBy(r, k) /\ Report(r, k, ans)
  <2>1. row'[j] = Entry("reported", row[j].runner, row[j].attempts, 0, 0)
    BY <1>4, <1>0 DEF Report, EndRow
  <2>2. row'[j].state = "reported" /\ row'[j].runner = row[j].runner
    BY <2>1, EntryFields
  <2> QED BY <1>a, <1>4, <2>2 DEF Moves, MovesRow, HeldBy, Ended
<1>5. CASE k = j /\ Refuse(r, k)
  <2>1. row'[j] = Entry("reported", r, row[j].attempts + 1, 0, 0) /\ row[j].state = "queued"
    BY <1>5, <1>0 DEF Refuse
  <2>2. row'[j].state = "reported" /\ row'[j].attempts = row[j].attempts + 1
    BY <2>1, EntryFields
  <2> QED BY <1>a, <2>1, <2>2 DEF Moves, MovesRow, Ended
<1>6. CASE k # j
  <2>1. row'[j] = row[j]
    BY <1>0, <1>6 DEF Executed, Claim, Refuse, Renew, Report, Finish
  <2> QED BY <2>1, <1>1
<1> QED
  BY <1>1, <1>2, <1>3, <1>4, <1>5, <1>6 DEF Executed, Finish

Timeless == [Next]_vars /\ ~Tick

LEMMA StepMoves ==
  ASSUME TypeOK, Timeless, NEW j \in Job
  PROVE  Moves(j)
<1>0. row \in [Job -> Row] /\ row[j] \in Row
  BY DEF TypeOK
<1>1. CASE row'[j] = row[j] /\ over' = over
  BY <1>1 DEF Moves, MovesRow
<1>2. ASSUME NEW i \in Job, Create(i) PROVE Moves(j)
  <2>1. CASE i = j
    <3>1. row'[j] = Entry("queued", NoRunner, 0, 0, QueueTtl) /\ row[j].state = "none" /\ over' = over
      BY <1>0, <1>2, <2>1 DEF Create, histVars
    <3> QED BY <3>1, EntryFields DEF Moves, MovesRow
  <2>2. CASE i # j
    BY <1>0, <1>1, <1>2, <2>2 DEF Create, histVars
  <2> QED BY <2>1, <2>2
<1>3. ASSUME NEW i \in Job, StopJob(i) PROVE Moves(j)
  <2>1. CASE i = j
    <3>1. /\ row'[j] = Entry("stopped", row[j].runner, row[j].attempts, 0, 0)
          /\ row[j].state \in {"queued", "running"} /\ over' = over
      BY <1>0, <1>3, <2>1 DEF StopJob, histVars, EndRow
    <3> QED BY <3>1, EntryFields DEF Moves, MovesRow, Ended
  <2>2. CASE i # j
    BY <1>0, <1>1, <1>3, <2>2 DEF StopJob, histVars
  <2> QED BY <2>1, <2>2
<1>4. ASSUME NEW r \in Runner, Serve(r) PROVE Moves(j)
  <2>1. call[r].req \in Request
    BY DEF TypeOK, Call
  <2> QED BY <1>4, <2>1, ExecutedMoves DEF Serve
<1>5. ASSUME NEW r \in Runner, ServeStray(r) PROVE Moves(j)
  <2>1. stray[r] \in Request
    BY DEF TypeOK
  <2> QED BY <1>5, <2>1, ExecutedMoves DEF ServeStray
<1>6. ASSUME NEW r \in Runner, DeleteRunner(r) PROVE Moves(j)
  <2>1. /\ row'[j] = IF HeldBy(r, j)
                     THEN Entry("queued", NoRunner, row[j].attempts, 0, row[j].ttl)
                     ELSE IF row[j].runner = r
                     THEN Entry(row[j].state, NoRunner, row[j].attempts, row[j].lease, row[j].ttl)
                     ELSE row[j]
        /\ over' = over /\ enrolled[r] /\ ~enrolled'[r]
    BY <1>6 DEF DeleteRunner, Forgotten, TypeOK
  <2>2. CASE HeldBy(r, j)
    BY <2>1, <2>2, EntryFields DEF Moves, MovesRow, HeldBy
  <2>3. CASE ~HeldBy(r, j) /\ row[j].runner = r
    BY <2>1, <2>3, EntryFields DEF Moves, MovesRow, HeldBy
  <2>4. CASE row[j].runner # r
    BY <1>1, <2>1, <2>4 DEF HeldBy
  <2> QED BY <2>2, <2>3, <2>4
<1>7. ASSUME over' = over,
             \/ row'[j] = Failed(row[j]) \/ row'[j] = Requeued(row[j])
             \/ row'[j] = Requeued(Failed(row[j]))
      PROVE  Moves(j)
  <2>1. CASE Lapsed(row[j]) /\ row'[j] = EndRow(row[j], "lapsed")
    BY <1>7, <2>1, EntryFields DEF Moves, MovesRow, EndRow, Ended, Lapsed
  <2>2. CASE Lapsed(row[j]) /\ row'[j] = Entry("queued", NoRunner, row[j].attempts, 0, QueueTtl)
    BY <1>7, <2>2, EntryFields DEF Moves, MovesRow
  <2>3. CASE row[j].state = "queued" /\ row'[j] = EndRow(row[j], "expired")
    BY <1>7, <2>3, EntryFields DEF Moves, MovesRow, EndRow, Ended
  <2>4. Requeued(EndRow(row[j], "lapsed")) = EndRow(row[j], "lapsed")
    BY EntryFields DEF Requeued, EndRow, Lapsed
  <2>5. \/ Failed(row[j]) = row[j]
        \/ Failed(row[j]) = EndRow(row[j], "lapsed") /\ Lapsed(row[j])
    BY DEF Failed
  <2>6. \/ Requeued(row[j]) = row[j]
        \/ Lapsed(row[j]) /\ Requeued(row[j]) = Entry("queued", NoRunner, row[j].attempts, 0, QueueTtl)
        \/ row[j].state = "queued" /\ Requeued(row[j]) = EndRow(row[j], "expired")
    BY DEF Requeued
  <2> QED BY <1>1, <1>7, <2>1, <2>2, <2>3, <2>4, <2>5, <2>6
<1>8. CASE Reap \/ ReapPauses \/ ReapGoesOn
  BY <1>7, <1>8 DEF Reap, ReapPauses, ReapGoesOn, histVars
<1>9. ASSUME NEW r \in Runner, LoopStep(r) \/ CallDelayed(r) \/ Crash(r) \/ Restart(r)
      PROVE  UNCHANGED <<row, over>>
  BY <1>9 DEF LoopStep, Collect, ReportAgain, Heartbeat, LetRun, RemoveStrays, Start, Renewed,
              Lost, Abandon, LogsTaken, Reported, CallFails, CallDelayed, Crash, Restart, histVars
<1>10. ASSUME NEW r \in Runner, NEW i \in Job, PodEnds(r, i) PROVE UNCHANGED <<row, over>>
  BY <1>10 DEF PodEnds, histVars
<1>11. CASE ReapCut \/ UNCHANGED vars
  BY <1>1, <1>11 DEF ReapCut, vars, histVars
<1> QED
  BY <1>1, <1>2, <1>3, <1>4, <1>5, <1>6, <1>8, <1>9, <1>10, <1>11
  DEF Timeless, Next, ServerStep

(* A runner that is deleted has no job any more. *)
LEMMA Leaves ==
  ASSUME TypeOK, [Next]_vars, NEW r \in Runner
  PROVE  /\ enrolled'[r] => enrolled[r]
         /\ enrolled[r] /\ ~enrolled'[r] => \A j \in Job : row'[j].runner # r
<1>1. ASSUME NEW s \in Runner, DeleteRunner(s)
      PROVE  /\ enrolled'[r] => enrolled[r]
             /\ enrolled[r] /\ ~enrolled'[r] => \A j \in Job : row'[j].runner # r
  <2>1. enrolled' = [enrolled EXCEPT ![s] = FALSE] /\ enrolled \in [Runner -> BOOLEAN]
    BY <1>1 DEF DeleteRunner, TypeOK
  <2>2. CASE r = s
    <3>1. ASSUME NEW j \in Job PROVE row'[j].runner # r
      <4>1. row'[j] = IF HeldBy(r, j)
                      THEN Entry("queued", NoRunner, row[j].attempts, 0, row[j].ttl)
                      ELSE IF row[j].runner = r
                      THEN Entry(row[j].state, NoRunner, row[j].attempts, row[j].lease, row[j].ttl)
                      ELSE row[j]
        BY <1>1, <2>2 DEF DeleteRunner, Forgotten
      <4>2. r # NoRunner
        OBVIOUS
      <4> QED BY <4>1, <4>2, EntryFields
    <3> QED BY <2>1, <2>2, <3>1
  <2>3. CASE r # s
    BY <2>1, <2>3
  <2> QED BY <2>2, <2>3
<1>2. CASE UNCHANGED enrolled
  BY <1>2
<1>3. ASSUME NEW s \in Runner, LoopStep(s) PROVE UNCHANGED enrolled
  BY <1>3, LoopStepClean
<1> QED
  BY <1>1, <1>2, <1>3
  DEF Next, ServerStep, Create, StopJob, Serve, ServeStray, Reap, ReapPauses, ReapGoesOn, ReapCut,
      CallDelayed, Crash, Restart, PodEnds, Tick, vars

-----------------------------------------------------------------------------
(* What a step that takes no time does to a runner. *)
Subject(r) == call[r].req.job
Op(r) == call[r].req.op
Claiming(r) == pc[r] = "call" /\ Op(r) = "claim"
About(r, j) == pc[r] = "call" /\ Op(r) # "claim" /\ Subject(r) = j

Untouched(r) ==
  /\ pc'[r] = pc[r] /\ todo'[r] = todo[r] /\ held'[r] = held[r] /\ left'[r] = left[r]
  /\ beat'[r] = beat[r] /\ call'[r] = call[r] /\ late'[r] = late[r] /\ clean'[r] = clean[r]

Clocks(r) == left'[r] = left[r] /\ beat'[r] = beat[r]
Waits(r) == /\ todo'[r] = todo[r] /\ held'[r] = held[r] /\ Clocks(r)
            /\ late'[r] = late[r] /\ clean'[r] = clean[r]
Ready(r, p) == pc'[r] = p /\ call'[r] = NoCall /\ late'[r] = FALSE
Asks(r, op, j) == pc'[r] = "call" /\ call'[r] = Sent(op, j)

Begins(r, j) ==
  /\ pc[r] = "follow" /\ j \in todo[r] /\ todo'[r] = todo[r] \ {j}
  /\ \/ /\ held[r][j] = "run" /\ Asks(r, "logs", j)
        /\ held'[r] = [held[r] EXCEPT ![j] = "end"]
     \/ held[r][j] = "end" /\ Asks(r, "finish", j) /\ held'[r] = held[r]
     \/ held[r][j] = "run" /\ beat[r][j] = 0 /\ Asks(r, "beat", j) /\ held'[r] = held[r]
  /\ late'[r] = (left[r][j] = 0) /\ Clocks(r) /\ clean'[r] = clean[r]

Skips(r, j) ==
  /\ pc[r] = "follow" /\ j \in todo[r] /\ todo'[r] = todo[r] \ {j} /\ beat[r][j] > 0
  /\ pc'[r] = pc[r] /\ call'[r] = call[r]
  /\ held'[r] = held[r] /\ Clocks(r) /\ late'[r] = late[r] /\ clean'[r] = clean[r]

Claims(r, n) == IF n < MaxJobs THEN Asks(r, "claim", NoJob)
                ELSE pc'[r] = "sleep" /\ call'[r] = NoCall

TakesWork(r) ==
  pc[r] = "follow" /\ todo[r] = {} /\ Waits(r) /\ Claims(r, Cardinality(JobsOf(r)))

Starts(r, j) ==
  /\ Claiming(r) /\ call[r].ans = "ok" /\ Subject(r) = j
  /\ \E h \in {"run", "end"} : held'[r] = [held[r] EXCEPT ![j] = h]
  /\ left'[r] = [left[r] EXCEPT ![j] = Lease] /\ beat'[r] = [beat[r] EXCEPT ![j] = Beat]
  /\ todo'[r] = todo[r] /\ late'[r] = late[r] /\ clean'[r] = clean[r]
  /\ Claims(r, Cardinality(JobsOf(r) \cup {j}))

ClaimEnds(r) ==
  /\ Claiming(r) /\ Ready(r, "sleep")
  /\ todo'[r] = todo[r] /\ held'[r] = held[r] /\ Clocks(r) /\ clean'[r] = clean[r]

Extends(r, j) ==
  /\ About(r, j) /\ Op(r) = "beat" /\ call[r].ans = "ok" /\ Ready(r, "follow")
  /\ left'[r] = [left[r] EXCEPT ![j] = Minus(Lease, call[r].age)]
  /\ beat'[r] = [beat[r] EXCEPT ![j] = Minus(Beat, call[r].age)]
  /\ todo'[r] = todo[r] /\ held'[r] = held[r] /\ clean'[r] = clean[r]

Continues(r, j) ==
  /\ About(r, j)
  /\ \/ /\ Op(r) = "beat" /\ call[r].ans = "notheld" /\ Asks(r, "logs", j)
        /\ clean'[r] = clean[r]
     \/ /\ Op(r) = "logs" /\ held[r][j] = "end" /\ Asks(r, "finish", j)
        /\ ~clean'[r] \/ (call[r].ans = "ok" /\ clean'[r] = clean[r])
  /\ todo'[r] = todo[r] /\ held'[r] = held[r] /\ Clocks(r) /\ late'[r] = late[r]

Loses(r, j) ==
  /\ About(r, j) /\ Ready(r, "follow")
  /\ held'[r] = [held[r] EXCEPT ![j] = "no"]
  /\ left'[r] = [left[r] EXCEPT ![j] = 0] /\ beat'[r] = [beat[r] EXCEPT ![j] = 0]
  /\ todo'[r] = todo[r] /\ (clean'[r] => clean[r] \/ JobsOf(r) \subseteq {j})

Fails(r, j) ==
  /\ About(r, j) /\ Op(r) \in {"beat", "finish"} /\ ~late[r] /\ Ready(r, "follow")
  /\ todo'[r] = todo[r] /\ held'[r] = held[r] /\ Clocks(r) /\ ~clean'[r]

Loops(r) ==
  \/ \E j \in Job : \/ Begins(r, j) \/ Skips(r, j) \/ Starts(r, j) \/ Extends(r, j)
                    \/ Continues(r, j) \/ Loses(r, j) \/ Fails(r, j)
  \/ TakesWork(r) \/ ClaimEnds(r)

Hears(r) ==
  /\ pc[r] = "call" /\ pc'[r] = pc[r] /\ Waits(r) /\ call[r].ans = "none"
  /\ \/ call'[r] = Exchange(Op(r), Subject(r), call[r].age, "error")
     \/ \E ans \in Answer, k \in Job \cup {NoJob} :
          /\ Executed(r, call[r].req, ans, k) /\ Recounted
          /\ call'[r] = Exchange(Op(r), k, call[r].age, ans)

Dies(r) ==
  /\ pc'[r] = "down" /\ todo'[r] = {} /\ held'[r] = [j \in Job |-> "no"]
  /\ left'[r] = [j \in Job |-> 0] /\ beat'[r] = [j \in Job |-> 0]
  /\ call'[r] = NoCall /\ late'[r] = FALSE /\ clean'[r] = TRUE

Revives(r) == pc[r] = "down" /\ pc'[r] = "follow" /\ call'[r] = call[r] /\ Waits(r)

(* A call is about a job. *)
Typed(r) == pc[r] = "call" /\ (Op(r) # "claim" \/ call[r].ans = "ok") => Subject(r) \in Job

LEMMA LoopCases ==
  ASSUME TypeOK, NEW r \in Runner, Typed(r), LoopStep(r)
  PROVE  Loops(r) /\ \A s \in Runner \ {r} : Untouched(s)
<1> DEFINE Goal == Loops(r) /\ \A s \in Runner \ {r} : Untouched(s)
<1> USE DEF TypeOK, Loops, Untouched, Clocks, Op, Subject
<1>0. /\ JobsOf(r) \in SUBSET Job
      /\ pc[r] = "call" /\ call[r].req.op # "claim" => call[r].req.job \in Job
      /\ pc[r] = "call" /\ call[r].ans = "ok" => call[r].req.job \in Job
  BY DEF JobsOf, Typed
<1>1. ASSUME NEW j \in Job, Collect(r, j) PROVE Goal
  <2>1. Begins(r, j)
    BY <1>1 DEF Begins, Collect, Look, AskAbout, Ask, Asks
  <2>2. \A s \in Runner \ {r} : Untouched(s)
    BY <1>1 DEF Collect, Look, AskAbout, Ask
  <2> QED BY <2>1, <2>2
<1>2. ASSUME NEW j \in Job, ReportAgain(r, j) \/ Heartbeat(r, j) PROVE Goal
  <2>1. Begins(r, j)
    BY <1>2 DEF Begins, ReportAgain, Heartbeat, Look, AskAbout, Ask, Asks, histVars
  <2>2. \A s \in Runner \ {r} : Untouched(s)
    BY <1>2 DEF ReportAgain, Heartbeat, Look, AskAbout, Ask, histVars
  <2> QED BY <2>1, <2>2
<1>3. ASSUME NEW j \in Job, LetRun(r, j) PROVE Goal
  <2>1. Skips(r, j)
    BY <1>3 DEF Skips, LetRun, Look, histVars
  <2>2. \A s \in Runner \ {r} : Untouched(s)
    BY <1>3 DEF LetRun, Look, histVars
  <2> QED BY <2>1, <2>2
<1>4. CASE RemoveStrays(r)
  <2>1. TakesWork(r)
    BY <1>4 DEF RemoveStrays, TakesWork, Waits, Claims, TakeWork, Ask, Asks
  <2>2. \A s \in Runner \ {r} : Untouched(s)
    BY <1>4 DEF RemoveStrays, TakeWork, Ask
  <2> QED BY <2>1, <2>2
<1>5. CASE Start(r)
  <2> DEFINE j == call[r].req.job
  <2>0. j \in Job /\ pc[r] = "call" /\ call[r].req.op = "claim" /\ call[r].ans = "ok"
    BY <1>0, <1>5 DEF Start, Answered
  <2>1. /\ \E h \in {"run", "end"} : held' = [held EXCEPT ![r][j] = h]
        /\ left' = [left EXCEPT ![r][j] = Lease] /\ beat' = [beat EXCEPT ![r][j] = Beat]
        /\ todo' = todo /\ late' = late /\ clean' = clean
        /\ TakeWork(r, Cardinality(JobsOf(r) \cup {j}))
    BY <1>5 DEF Start, histVars
  <2>2. Claims(r, Cardinality(JobsOf(r) \cup {j}))
    BY <2>1 DEF TakeWork, Claims, Ask, Asks
  <2>3. Starts(r, j)
    BY <2>0, <2>1, <2>2 DEF Starts, Claiming
  <2>4. \A s \in Runner \ {r} : pc'[s] = pc[s] /\ call'[s] = call[s]
    BY <2>1 DEF TakeWork, Ask
  <2>5. \A s \in Runner \ {r} : Untouched(s)
    BY <2>0, <2>1, <2>4
  <2> QED BY <2>0, <2>3, <2>5
<1>6. CASE Renewed(r)
  <2> DEFINE j == call[r].req.job
  <2>0. j \in Job /\ pc[r] = "call" /\ call[r].req.op = "beat" /\ call[r].ans = "ok"
    BY <1>0, <1>6 DEF Renewed, Answered
  <2>1. /\ left' = [left EXCEPT ![r][j] = Minus(Lease, call[r].age)]
        /\ beat' = [beat EXCEPT ![r][j] = Minus(Beat, call[r].age)]
        /\ todo' = todo /\ held' = held /\ clean' = clean /\ Resume(r, "follow")
    BY <1>6 DEF Renewed, histVars
  <2>2. Extends(r, j)
    BY <2>0, <2>1 DEF Extends, About, Ready, Resume
  <2>3. \A s \in Runner \ {r} : Untouched(s)
    BY <2>0, <2>1 DEF Resume
  <2> QED BY <2>0, <2>2, <2>3
<1>7. ASSUME Ask(r, "logs", call[r].req.job), Answered(r, "beat", "notheld"),
             UNCHANGED <<todo, held, left, beat, late, clean>>
      PROVE  Goal
  <2>1. Continues(r, call[r].req.job)
    BY <1>7 DEF Continues, Ask, Asks, About, Answered
  <2>2. \A s \in Runner \ {r} : Untouched(s)
    BY <1>7 DEF Ask
  <2> QED BY <1>0, <1>7, <2>1, <2>2 DEF Answered
<1>8. ASSUME Ask(r, "finish", call[r].req.job), AtLogs(r, "end"),
             UNCHANGED <<todo, held, left, beat, late>>,
             (UNCHANGED clean /\ call[r].ans = "ok") \/ clean' = [clean EXCEPT ![r] = FALSE]
      PROVE  Goal
  <2>1. Continues(r, call[r].req.job)
    BY <1>8 DEF Continues, Ask, Asks, About, AtLogs
  <2>2. \A s \in Runner \ {r} : Untouched(s)
    BY <1>8 DEF Ask
  <2> QED BY <1>0, <1>8, <2>1, <2>2 DEF AtLogs
<1>9. ASSUME Resume(r, "follow"), Drop(r, call[r].req.job), pc[r] = "call",
             call[r].req.op # "claim", UNCHANGED todo
      PROVE  Goal
  <2> DEFINE j == call[r].req.job
  <2>0. j \in Job
    BY <1>0, <1>9
  <2>1. Loses(r, j)
    <3>1. /\ held' = [held EXCEPT ![r][j] = "no"] /\ left' = [left EXCEPT ![r][j] = 0]
          /\ beat' = [beat EXCEPT ![r][j] = 0]
      BY <1>9 DEF Drop
    <3>2. clean'[r] => clean[r] \/ JobsOf(r) \subseteq {j}
      <4>1. clean' = [clean EXCEPT ![r] = clean[r] \/ JobsOf(r) \subseteq {j}]
        BY <1>9, Zenon DEF Drop
      <4> QED BY <4>1, Zenon
    <3> QED BY <1>9, <2>0, <3>1, <3>2 DEF Loses, Ready, Resume, About
  <2>2. \A s \in Runner \ {r} : Untouched(s)
    BY <1>9, <2>0 DEF Resume, Drop
  <2> QED BY <2>0, <2>1, <2>2
<1>10. ASSUME Resume(r, "follow"), Unanswered(r), pc[r] = "call", ~late[r],
              call[r].req.op \in {"beat", "finish"}, UNCHANGED todo
       PROVE  Goal
  <2>1. Fails(r, call[r].req.job)
    BY <1>10 DEF Fails, About, Ready, Resume, Unanswered
  <2>2. \A s \in Runner \ {r} : Untouched(s)
    BY <1>10 DEF Resume, Unanswered
  <2> QED BY <1>0, <1>10, <2>1, <2>2
<1>11. ASSUME Resume(r, "sleep"), pc[r] = "call", call[r].req.op = "claim",
              UNCHANGED <<todo, held, left, beat, clean>>
       PROVE  Goal
  <2>1. ClaimEnds(r)
    BY <1>11 DEF ClaimEnds, Claiming, Ready, Resume
  <2>2. \A s \in Runner \ {r} : Untouched(s)
    BY <1>11 DEF Resume
  <2> QED BY <2>1, <2>2
<1>12. CASE Lost(r)
  BY <1>7, <1>12 DEF Lost, histVars
<1>13. CASE LogsTaken(r)
  BY <1>8, <1>13 DEF LogsTaken, histVars
<1>14. CASE Abandon(r)
  BY <1>9, <1>14 DEF Abandon, AtLogs
<1>15. CASE Reported(r)
  BY <1>9, <1>15 DEF Reported, Answered, AtLogs
<1>16. CASE CallFails(r)
  <2>1. CASE call[r].req.op = "claim"
    BY <1>11, <1>16, <2>1 DEF CallFails, AtLogs
  <2>2. CASE call[r].req.op \in {"beat", "finish"}
    <3>1. GivesUp(r, call[r].req.op, call[r].req.job) /\ UNCHANGED todo /\ pc[r] = "call"
      BY <1>16, <2>2 DEF CallFails, AtLogs
    <3> QED BY <1>9, <1>10, <2>2, <3>1 DEF GivesUp
  <2>3. CASE AtLogs(r, "end")
    BY <1>8, <1>16, <2>3 DEF CallFails, Unanswered, AtLogs
  <2> QED BY <1>16, <2>1, <2>2, <2>3 DEF CallFails
<1> HIDE DEF Loops, Untouched, Clocks, Op, Subject
<1> QED
  BY <1>1, <1>2, <1>3, <1>4, <1>5, <1>6, <1>12, <1>13, <1>14, <1>15, <1>16 DEF LoopStep

StepOf(r) ==
  \/ Untouched(r) \/ Hears(r)
  \/ (Loops(r) \/ Dies(r) \/ Revives(r)) /\ UNCHANGED <<row, enrolled>>

LEMMA StepCases ==
  ASSUME TypeOK, Timeless, NEW r \in Runner, \A s \in Runner : Typed(s)
  PROVE  StepOf(r)
<1> DEFINE Still == UNCHANGED <<row, enrolled>>
           Goal == Untouched(r) \/ Hears(r) \/ ((Loops(r) \/ Dies(r) \/ Revives(r)) /\ Still)
<1> SUFFICES Goal
  BY DEF StepOf
<1> USE DEF TypeOK, Untouched
<1>1. ASSUME NEW s \in Runner, LoopStep(s) PROVE Goal
  <2>1. Still
    BY <1>1, LoopStepClean DEF LoopStep, Collect, ReportAgain, Heartbeat, LetRun, RemoveStrays,
         Start, Renewed, Lost, Abandon, LogsTaken, Reported, CallFails
  <2>2. Loops(s) /\ \A x \in Runner \ {s} : Untouched(x)
    BY <1>1, LoopCases
  <2> HIDE DEF Untouched
  <2> QED BY <2>1, <2>2
<1>2. ASSUME NEW s \in Runner, Serve(s) PROVE Goal
  <2>1. CASE s = r
    <3>1. Hears(r)
      BY <1>2, <2>1 DEF Serve, Hears, Waits, Clocks, Op
    <3> QED BY <3>1
  <2>2. CASE s # r
    BY <1>2, <2>2 DEF Serve
  <2> QED BY <2>1, <2>2
<1>3. ASSUME NEW s \in Runner, CallDelayed(s) PROVE Goal
  <2>1. CASE s = r
    <3>1. Hears(r)
      BY <1>3, <2>1 DEF CallDelayed, Hears, Waits, Clocks, Op, Subject
    <3> QED BY <3>1
  <2>2. CASE s # r
    BY <1>3, <2>2 DEF CallDelayed
  <2> QED BY <2>1, <2>2
<1>4. ASSUME NEW s \in Runner, Crash(s) PROVE Goal
  <2>1. CASE s = r
    <3>1. Dies(r) /\ Still
      BY <1>4, <2>1 DEF Crash, Dies
    <3> QED BY <3>1
  <2>2. CASE s # r
    BY <1>4, <2>2 DEF Crash
  <2> QED BY <2>1, <2>2
<1>5. ASSUME NEW s \in Runner, Restart(s) PROVE Goal
  <2>1. CASE s = r
    <3>1. Revives(r) /\ Still
      BY <1>5, <2>1 DEF Restart, Revives, Waits, Clocks, histVars
    <3> QED BY <3>1
  <2>2. CASE s # r
    BY <1>5, <2>2 DEF Restart, histVars
  <2> QED BY <2>1, <2>2
<1>6. ASSUME UNCHANGED <<pc, todo, held, left, beat, call, late, clean>> PROVE Goal
  BY <1>6
<1>7. ASSUME NEW s \in Runner, ServeStray(s) \/ DeleteRunner(s) \/ \E j \in Job : PodEnds(s, j)
      PROVE  Goal
  BY <1>6, <1>7 DEF ServeStray, DeleteRunner, PodEnds, runnerVars, histVars
<1>8. ASSUME NEW j \in Job, Create(j) \/ StopJob(j) PROVE Goal
  BY <1>6, <1>8 DEF Create, StopJob, runnerVars, histVars
<1>9. CASE Reap \/ ReapPauses \/ ReapGoesOn \/ ReapCut
  BY <1>6, <1>9 DEF Reap, ReapPauses, ReapGoesOn, ReapCut, runnerVars, histVars
<1>10. CASE UNCHANGED vars
  BY <1>6, <1>10 DEF vars, runnerVars, histVars
<1> HIDE DEF Untouched, Goal
<1> QED
  BY <1>1, <1>2, <1>3, <1>4, <1>5, <1>7, <1>8, <1>9, <1>10 DEF Timeless, Next, ServerStep

(* What a job looks like to a runner r.  The server takes it from r only   *)
(* when its lease is over or r is deleted, and gives r none but queued ones. *)
Seen(r, j) ==
  /\ row[j].state \in Ended =>
       /\ row'[j].state \in Ended
       /\ row[j].runner = r => row'[j].runner = r \/ ~enrolled'[r]
  /\ HeldBy(r, j) =>
       \/ HeldBy(r, j)' /\ row'[j].lease >= row[j].lease
       \/ row'[j].state \in Ended /\ row'[j].runner = r
       \/ ~enrolled'[r]
       \/ row[j].lease = 0 /\ row'[j].state = "queued"
  /\ (HeldBy(r, j)' /\ ~HeldBy(r, j)) =>
       row[j].state = "queued" /\ row'[j].lease = Lease /\ enrolled[r] /\ over'[j] = 0

LEMMA StepSeen ==
  ASSUME TypeOK, TypeOK', Timeless, NEW r \in Runner, NEW j \in Job
  PROVE  Seen(r, j)
<1>1. row[j] \in Row /\ row'[j] \in Row
  BY DEF TypeOK
<1>2. /\ row[j].lease \in 0 .. Lease /\ row'[j].lease \in 0 .. Lease
      /\ row[j].runner \in Runner \cup {NoRunner}
  BY <1>1, FieldFacts
<1>3. MovesRow(j)
  BY StepMoves DEF Moves
<1>4. r # NoRunner
  OBVIOUS
<1>5. row[j].state \in Ended => row[j].state \notin {"none", "queued", "running"}
  BY DEF Ended
<1>6. CASE row'[j] = row[j]
  BY <1>2, <1>6 DEF Seen, HeldBy
<1>7. CASE /\ row'[j].state \in Ended /\ row[j].state \in {"queued", "running"}
           /\ row[j].state = "running" => row'[j].runner = row[j].runner
  BY <1>7 DEF Seen, HeldBy, Ended
<1>8. CASE /\ row'[j].state = "queued" /\ row'[j].runner = NoRunner
           /\ row[j].state = "none" \/ Lapsed(row[j])
  BY <1>4, <1>8 DEF Seen, HeldBy, Ended, Lapsed
<1>9. CASE /\ row[j].state = "running" /\ row'[j].state = "running"
           /\ row'[j].runner = row[j].runner /\ row'[j].lease = Lease
  BY <1>2, <1>9 DEF Seen, HeldBy, Ended
<1>10. CASE /\ row[j].state = "queued" /\ row'[j].state = "running" /\ row'[j].lease = Lease
            /\ row'[j].runner \in Runner /\ enrolled[row'[j].runner] /\ UNCHANGED enrolled
            /\ over'[j] = 0
  BY <1>10 DEF Seen, HeldBy, Ended
<1>11. CASE /\ row[j].runner \in Runner /\ enrolled[row[j].runner] /\ ~enrolled'[row[j].runner]
            /\ row'[j].runner = NoRunner
            /\ row'[j].state = IF row[j].state = "running" THEN "queued" ELSE row[j].state
  BY <1>4, <1>11 DEF Seen, HeldBy, Ended
<1> QED BY <1>3, <1>6, <1>7, <1>8, <1>9, <1>10, <1>11 DEF MovesRow

(* What a runner hears. *)
LEMMA ExchangeFields ==
  ASSUME NEW op, NEW j, NEW a, NEW ans
  PROVE  /\ Exchange(op, j, a, ans).req.op = op /\ Exchange(op, j, a, ans).req.job = j
         /\ Exchange(op, j, a, ans).age = a /\ Exchange(op, j, a, ans).ans = ans
BY DEF Exchange

LEMMA SentFields ==
  ASSUME NEW op, NEW j
  PROVE  /\ Sent(op, j).req.op = op /\ Sent(op, j).req.job = j
         /\ Sent(op, j).age = 0 /\ Sent(op, j).ans = "none"
BY ExchangeFields DEF Sent

LEMMA HearsFacts ==
  ASSUME TypeOK, NEW r \in Runner, Typed(r), Hears(r)
  PROVE  /\ pc[r] = "call" /\ pc'[r] = "call" /\ Waits(r)
         /\ Op(r)' = Op(r) /\ call'[r].age = call[r].age
         /\ Op(r) # "claim" => Subject(r)' = Subject(r)
         /\ Op(r) = "claim" /\ call'[r].ans = "ok" =>
              /\ Subject(r)' \in Job /\ enrolled[r] /\ row[Subject(r)'].state = "queued"
              /\ HeldBy(r, Subject(r))' /\ row'[Subject(r)'].lease = Lease
              /\ \A i \in Job \ {Subject(r)'} : row'[i] = row[i]
         /\ Op(r) \in {"beat", "logs"} /\ call'[r].ans = "ok" /\ HeldBy(r, Subject(r))' =>
              row'[Subject(r)].lease = Lease
         /\ Op(r) \in {"beat", "logs", "finish"} /\ call'[r].ans = "notheld" =>
              ~HeldBy(r, Subject(r)) /\ row' = row
<1>1. CASE call'[r] = Exchange(Op(r), Subject(r), call[r].age, "error")
  BY <1>1, ExchangeFields DEF Hears, Op, Subject
<1>2. ASSUME NEW ans \in Answer, NEW k \in Job \cup {NoJob},
             Executed(r, call[r].req, ans, k), call'[r] = Exchange(Op(r), k, call[r].age, ans)
      PROVE  /\ Op(r)' = Op(r) /\ call'[r].age = call[r].age
             /\ Op(r) # "claim" => Subject(r)' = Subject(r)
             /\ Op(r) = "claim" /\ call'[r].ans = "ok" =>
                  /\ Subject(r)' \in Job /\ enrolled[r] /\ row[Subject(r)'].state = "queued"
                  /\ HeldBy(r, Subject(r))' /\ row'[Subject(r)'].lease = Lease
                  /\ \A i \in Job \ {Subject(r)'} : row'[i] = row[i]
             /\ Op(r) \in {"beat", "logs"} /\ call'[r].ans = "ok" /\ HeldBy(r, Subject(r))' =>
                  row'[Subject(r)].lease = Lease
             /\ Op(r) \in {"beat", "logs", "finish"} /\ call'[r].ans = "notheld" =>
                  ~HeldBy(r, Subject(r)) /\ row' = row
  <2>0. /\ call'[r].req.op = Op(r) /\ call'[r].req.job = k /\ call'[r].age = call[r].age
        /\ call'[r].ans = ans
    BY <1>2, ExchangeFields
  <2>1. row \in [Job -> Row]
    BY DEF TypeOK
  <2>2. ASSUME call[r].req.op = "claim", ans = "ok"
        PROVE  /\ k \in Job /\ enrolled[r] /\ row[k].state = "queued"
               /\ row'[k] = Entry("running", r, row[k].attempts + 1, Lease, row[k].ttl)
               /\ \A i \in Job \ {k} : row'[i] = row[i]
    BY <1>2, <2>1, <2>2 DEF Executed, Claim
  <2>3. ASSUME call[r].req.op = "claim", ans = "ok"
        PROVE  HeldBy(r, k)' /\ row'[k].lease = Lease
    BY <2>2, <2>3, EntryFields DEF HeldBy
  <2>4. ASSUME call[r].req.op \in {"beat", "logs"}, ans = "ok", HeldBy(r, k)'
        PROVE  row'[k].lease = Lease
    <3>1. k \in Job
      BY <1>2, <2>4 DEF Executed, Typed, Hears, Op, Subject
    <3>2. CASE HeldBy(r, k)
      <4>1. Renew(k)
        BY <1>2, <2>4, <3>2 DEF Executed
      <4>2. row'[k] = Entry(row[k].state, row[k].runner, row[k].attempts, Lease, row[k].ttl)
        BY <2>1, <3>1, <4>1 DEF Renew
      <4> QED BY <4>2, EntryFields
    <3>3. CASE ~HeldBy(r, k)
      BY <1>2, <2>4, <3>3 DEF Executed, HeldBy
    <3> QED BY <3>2, <3>3
  <2>5. ASSUME call[r].req.op \in {"beat", "logs", "finish"}
        PROVE  k = call[r].req.job
    BY <1>2, <2>5 DEF Executed
  <2>6. ASSUME call[r].req.op \in {"beat", "logs", "finish"}, ans = "notheld"
        PROVE  ~HeldBy(r, k) /\ row' = row
    BY <1>2, <2>6 DEF Executed, Finish, Report
  <2>7. call[r].req.op # "claim" => k = call[r].req.job
    BY <1>2, <2>5 DEF Executed
  <2> QED BY <2>0, <2>2, <2>3, <2>4, <2>5, <2>6, <2>7 DEF Op, Subject, HeldBy
<1> QED BY <1>1, <1>2 DEF Hears

-----------------------------------------------------------------------------
(* The loop of a runner: it never holds more than MaxJobs jobs, follows    *)
(* only jobs it holds, and a call is about one it no longer has to follow. *)
Shape(r) ==
  /\ IsFiniteSet(JobsOf(r)) /\ Cardinality(JobsOf(r)) <= MaxJobs
  /\ todo[r] \subseteq JobsOf(r)
  /\ pc[r] \in {"sleep", "down"} => todo[r] = {}
  /\ pc[r] = "down" => JobsOf(r) = {}
  /\ Claiming(r) => /\ todo[r] = {} /\ Cardinality(JobsOf(r)) < MaxJobs
                    /\ call[r].ans = "ok" => Subject(r) \in Job
  /\ pc[r] = "call" /\ Op(r) # "claim" =>
       /\ Op(r) \in {"beat", "logs", "finish"} /\ Subject(r) \in JobsOf(r) \ todo[r]
       /\ Op(r) = "beat" => held[r][Subject(r)] = "run"
       /\ Op(r) = "finish" => held[r][Subject(r)] = "end"

LEMMA ShapeTyped ==
  ASSUME NEW r, Shape(r)
  PROVE  Typed(r)
BY DEF Shape, Typed, Claiming, JobsOf

LEMMA JobsFacts ==
  ASSUME TypeOK, NEW r \in Runner, NEW j \in Job, NEW h,
         held'[r] = [held[r] EXCEPT ![j] = h]
  PROVE  JobsOf(r)' = IF h = "no" THEN JobsOf(r) \ {j} ELSE JobsOf(r) \cup {j}
BY DEF JobsOf, TypeOK

LEMMA ClaimsShape ==
  ASSUME TypeOK, NEW r \in Runner, NEW S, IsFiniteSet(S), Cardinality(S) <= MaxJobs,
         JobsOf(r)' = S, todo'[r] = {}, Claims(r, Cardinality(S))
  PROVE  Shape(r)'
<1>1. CASE pc'[r] = "sleep" /\ call'[r] = NoCall
  BY <1>1 DEF Shape, Claiming
<1>2. CASE Asks(r, "claim", NoJob) /\ Cardinality(S) < MaxJobs
  <2>1. pc'[r] = "call" /\ Op(r)' = "claim" /\ call'[r].ans = "none"
    BY <1>2, SentFields DEF Asks, Op
  <2> QED BY <1>2, <2>1 DEF Shape, Claiming
<1> QED BY <1>1, <1>2 DEF Claims

LEMMA ShapeStep ==
  ASSUME TypeOK, TypeOK', NEW r \in Runner, Shape(r), StepOf(r)
  PROVE  Shape(r)'
<1>0. Typed(r)
  BY ShapeTyped
<1>1. CASE Untouched(r)
  BY <1>1 DEF Untouched, Shape, JobsOf, Claiming, Op, Subject
<1>2. CASE Hears(r)
  <2>1. /\ pc[r] = "call" /\ pc'[r] = "call" /\ Waits(r) /\ Op(r)' = Op(r)
        /\ Op(r) # "claim" => Subject(r)' = Subject(r)
        /\ Op(r) = "claim" /\ call'[r].ans = "ok" => Subject(r)' \in Job
    BY <1>0, <1>2, HearsFacts
  <2>2. JobsOf(r)' = JobsOf(r) /\ todo'[r] = todo[r] /\ held'[r] = held[r]
    BY <2>1 DEF Waits, JobsOf
  <2> QED BY <2>1, <2>2 DEF Shape, Claiming
<1>3. CASE Dies(r)
  <2>1. JobsOf(r)' = {}
    BY <1>3 DEF Dies, JobsOf
  <2> QED BY <1>3, <2>1, FS_EmptySet DEF Dies, Shape, Claiming
<1>4. CASE Revives(r)
  BY <1>4 DEF Revives, Waits, Shape, JobsOf, Claiming
<1>5. ASSUME NEW j \in Job, Begins(r, j) PROVE Shape(r)'
  <2>1. \E h \in {"run", "end"} : held'[r] = [held[r] EXCEPT ![j] = h]
    BY <1>5 DEF Begins, TypeOK
  <2>2. j \in JobsOf(r) /\ JobsOf(r)' = JobsOf(r)
    BY <1>5, <2>1, JobsFacts DEF Begins, Shape
  <2>3. PICK op \in {"beat", "logs", "finish"} :
          /\ pc'[r] = "call" /\ call'[r] = Sent(op, j)
          /\ op = "beat" => held'[r][j] = "run"
          /\ op = "finish" => held'[r][j] = "end"
    BY <1>5 DEF Begins, Asks
  <2>4. Op(r)' = op /\ Subject(r)' = j
    BY <2>3, SentFields DEF Op, Subject
  <2> QED BY <1>5, <2>2, <2>3, <2>4 DEF Begins, Shape, Claiming
<1>6. ASSUME NEW j \in Job, Skips(r, j) PROVE Shape(r)'
  BY <1>6 DEF Skips, Shape, JobsOf, Claiming
<1>7. CASE TakesWork(r)
  <2>1. JobsOf(r)' = JobsOf(r)
    BY <1>7 DEF TakesWork, Waits, JobsOf
  <2> QED BY <1>7, <2>1, ClaimsShape DEF TakesWork, Waits, Shape
<1>8. ASSUME NEW j \in Job, Starts(r, j) PROVE Shape(r)'
  <2>1. JobsOf(r)' = JobsOf(r) \cup {j}
    BY <1>8, JobsFacts DEF Starts
  <2>2. /\ IsFiniteSet(JobsOf(r) \cup {j})
        /\ Cardinality(JobsOf(r) \cup {j}) <= MaxJobs
    <3>1. IsFiniteSet(JobsOf(r)) /\ Cardinality(JobsOf(r)) < MaxJobs
      BY <1>8 DEF Starts, Shape
    <3>2. /\ IsFiniteSet(JobsOf(r) \cup {j})
          /\ Cardinality(JobsOf(r) \cup {j}) \in {Cardinality(JobsOf(r)), Cardinality(JobsOf(r)) + 1}
      BY <3>1, FS_AddElement
    <3> QED BY <3>1, <3>2, FS_CardinalityType
  <2> QED BY <1>8, <2>1, <2>2, ClaimsShape DEF Starts, Shape
<1>9. CASE ClaimEnds(r)
  BY <1>9 DEF ClaimEnds, Ready, Shape, JobsOf, Claiming
<1>10. ASSUME NEW j \in Job, Extends(r, j) PROVE Shape(r)'
  BY <1>10 DEF Extends, Ready, Shape, JobsOf, Claiming
<1>11. ASSUME NEW j \in Job, Continues(r, j) PROVE Shape(r)'
  <2>1. PICK op \in {"logs", "finish"} :
          /\ pc'[r] = "call" /\ call'[r] = Sent(op, j)
          /\ op = "finish" => held'[r][j] = "end"
    BY <1>11 DEF Continues, Asks
  <2>2. Op(r)' = op /\ Subject(r)' = j /\ JobsOf(r)' = JobsOf(r) /\ todo'[r] = todo[r]
    BY <1>11, <2>1, SentFields DEF Op, Subject, Continues, JobsOf
  <2> QED BY <1>11, <2>1, <2>2 DEF Continues, About, Shape, Claiming
<1>12. ASSUME NEW j \in Job, Loses(r, j) PROVE Shape(r)'
  <2>1. JobsOf(r)' = JobsOf(r) \ {j}
    BY <1>12, JobsFacts DEF Loses
  <2>2. j \in JobsOf(r) \ todo[r]
    BY <1>12 DEF Loses, About, Shape
  <2>3. IsFiniteSet(JobsOf(r) \ {j}) /\ Cardinality(JobsOf(r) \ {j}) = Cardinality(JobsOf(r)) - 1
    BY <2>2, FS_RemoveElement DEF Shape
  <2>4. Cardinality(JobsOf(r)) \in Nat
    BY FS_CardinalityType DEF Shape
  <2> QED BY <1>12, <2>1, <2>2, <2>3, <2>4 DEF Loses, Ready, Shape, Claiming
<1>13. ASSUME NEW j \in Job, Fails(r, j) PROVE Shape(r)'
  BY <1>13 DEF Fails, Ready, Shape, JobsOf, Claiming
<1> QED
  BY <1>1, <1>2, <1>3, <1>4, <1>5, <1>6, <1>7, <1>8, <1>9, <1>10, <1>11, <1>12, <1>13
  DEF StepOf, Loops

LEMMA ShapeTick ==
  ASSUME TypeOK, Tick, NEW r \in Runner, Shape(r)
  PROVE  Shape(r)'
<1>1. JobsOf(r)' = JobsOf(r) /\ held' = held
  BY DEF Tick, JobsOf
<1>2. CASE pc[r] = "call"
  <2>1. call'[r] = Exchange(call[r].req.op, call[r].req.job, call[r].age + 1, call[r].ans)
    BY <1>2 DEF Tick
  <2>2. Op(r)' = Op(r) /\ Subject(r)' = Subject(r) /\ call'[r].ans = call[r].ans
    BY <2>1, ExchangeFields DEF Op, Subject
  <2>3. pc'[r] = pc[r] /\ todo'[r] = todo[r]
    BY <1>2 DEF Tick
  <2> QED BY <1>1, <2>2, <2>3 DEF Shape, Claiming
<1>3. CASE pc[r] = "sleep"
  <2>1. pc'[r] = "follow" /\ todo'[r] = JobsOf(r)
    BY <1>3 DEF Tick
  <2> QED BY <1>1, <2>1 DEF Shape, Claiming
<1>4. CASE pc[r] \notin {"call", "sleep"}
  <2>1. pc'[r] = pc[r] /\ todo'[r] = todo[r]
    BY <1>4 DEF Tick
  <2> QED BY <1>1, <1>4, <2>1 DEF Shape, Claiming
<1> QED BY <1>2, <1>3, <1>4

-----------------------------------------------------------------------------
(* A job that runner k cannot be given again for the next n units. *)
Settled(r, k, n) ==
  row[k].state \in Ended \/ ~enrolled[r] \/ (HeldBy(r, k) /\ row[k].lease > n)

LEMMA SettledLess ==
  ASSUME TypeOK, NEW r \in Runner, NEW k \in Job, NEW n \in Nat, NEW m \in Nat, m <= n,
         Settled(r, k, n)
  PROVE  Settled(r, k, m)
<1>1. row[k].lease \in Nat
  BY FieldFacts DEF TypeOK
<1> QED BY <1>1 DEF Settled

LEMMA SettledStep ==
  ASSUME TypeOK, TypeOK', Timeless, NEW r \in Runner, NEW k \in Job, NEW n \in Nat,
         Settled(r, k, n)
  PROVE  Settled(r, k, n)'
<1>1. row[k].lease \in Nat /\ row'[k].lease \in Nat
  BY FieldFacts DEF TypeOK
<1>2. Seen(r, k)
  BY StepSeen
<1>3. enrolled'[r] => enrolled[r]
  BY Leaves DEF Timeless
<1> QED BY <1>1, <1>2, <1>3 DEF Settled, Seen, HeldBy

LEMMA RowTick ==
  ASSUME TypeOK, Tick, NEW j \in Job
  PROVE  /\ row'[j].state = row[j].state /\ row'[j].runner = row[j].runner
         /\ row[j].lease \in Nat /\ row'[j].lease = IF row[j].lease > 0 THEN row[j].lease - 1 ELSE 0
<1>1. row[j] \in Row
  BY DEF TypeOK
<1>2. row'[j] = Entry(row[j].state, row[j].runner, row[j].attempts, Minus(row[j].lease, 1), Minus(row[j].ttl, 1))
  BY DEF Tick, Older
<1>3. /\ row'[j].state = row[j].state /\ row'[j].runner = row[j].runner
      /\ row'[j].lease = Minus(row[j].lease, 1)
  BY <1>2, EntryFields
<1>4. row[j].lease \in Nat
  BY <1>1, FieldFacts
<1> QED BY <1>3, <1>4 DEF Minus

LEMMA SettledTick ==
  ASSUME TypeOK, Tick, NEW r \in Runner, NEW k \in Job, NEW n \in Nat, Settled(r, k, n + 1)
  PROVE  Settled(r, k, n)'
<1>1. enrolled' = enrolled
  BY DEF Tick
<1> QED BY <1>1, RowTick DEF Settled, HeldBy

(* How soon a runner looks at a job it has no call about.  Asleep it looks *)
(* at all its jobs in the next round, before that it may have to finish    *)
(* this one.  A job that it has claimed in this round is not given to it   *)
(* again: F are some of these, and n the claims that may follow.           *)
Nap == 1 + Pair(MaxJobs - 1)
Round == Calls(MaxJobs - 1) + Nap
WaitMax == Pair(MaxJobs - 1) + Round

Spare(r) == CallMax - call[r].age

More(r) ==
  IF Op(r) = "beat" \/ (Op(r) = "logs" /\ held[r][Subject(r)] = "end") THEN CallMax ELSE 0

Busy(r) == IF pc[r] = "call" THEN Spare(r) + More(r) ELSE 0

Taking(r, j, w) ==
  \E F \in SUBSET (JobsOf(r) \ {j}), n \in Nat :
    /\ Cardinality(F) + n + 2 = MaxJobs
    /\ \A k \in F : Settled(r, k, Spare(r) + Calls(n))
    /\ call[r].ans = "ok" => Subject(r) \notin F
    /\ w >= Spare(r) + Calls(n) + Nap

Turn(r, j) == Pair(Cardinality(todo[r] \ {j})) + (IF j \in todo[r] THEN 0 ELSE Round)

Soon(r, j, w) ==
  \/ pc[r] = "sleep" /\ w >= Nap
  \/ Claiming(r) /\ Taking(r, j, w)
  \/ pc[r] \in {"follow", "call"} /\ ~Claiming(r) /\ w >= Busy(r) + Turn(r, j)

Roomy == MaxJobs >= 1 /\ Lease > WaitMax + 2 * CallMax

(* What a claim has got. *)
Claimed(r) ==
  Claiming(r) /\ call[r].ans = "ok" /\ enrolled[r] =>
    /\ row[Subject(r)].runner = r
    /\ \/ row[Subject(r)].state \in Ended
       \/ HeldBy(r, Subject(r)) /\ row[Subject(r)].lease >= Lease - call[r].age

LEMMA AgeFacts ==
  ASSUME TypeOK, NEW r \in Runner
  PROVE  /\ call[r].age \in 0 .. CallMax /\ Spare(r) \in Nat /\ More(r) \in {0, CallMax}
         /\ Busy(r) \in Nat
<1>1. call[r].age \in 0 .. CallMax
  BY CallFields DEF TypeOK
<1>2. Spare(r) \in Nat
  BY <1>1 DEF Spare
<1> QED BY <1>1, <1>2 DEF More, Busy

LEMMA WaitFacts ==
  ASSUME Roomy
  PROVE  /\ MaxJobs - 1 \in Nat /\ Pair(MaxJobs - 1) \in Nat /\ Calls(MaxJobs - 1) \in Nat
         /\ Nap \in Nat \ {0} /\ Round \in Nat \ {0} /\ WaitMax \in Nat \ {0}
         /\ Nap = 1 + Pair(MaxJobs - 1) /\ Round = Calls(MaxJobs - 1) + Nap
         /\ WaitMax = Pair(MaxJobs - 1) + Round
         /\ Lease > WaitMax + 2 * CallMax
<1>1. MaxJobs - 1 \in Nat
  BY DEF Roomy
<1>2. Pair(MaxJobs - 1) \in Nat /\ Calls(MaxJobs - 1) \in Nat
  BY <1>1, PairFact, CallsFacts
<1> QED BY <1>1, <1>2 DEF Roomy, Nap, Round, WaitMax

LEMMA TodoFacts ==
  ASSUME NEW r \in Runner, Roomy, Shape(r), NEW j \in JobsOf(r)
  PROVE  /\ IsFiniteSet(todo[r]) /\ IsFiniteSet(todo[r] \ {j})
         /\ Cardinality(todo[r] \ {j}) \in Nat /\ Cardinality(todo[r] \ {j}) <= MaxJobs - 1
         /\ Pair(Cardinality(todo[r] \ {j})) \in Nat
         /\ Pair(Cardinality(todo[r] \ {j})) <= Pair(MaxJobs - 1)
         /\ Turn(r, j) \in Nat /\ Turn(r, j) <= WaitMax
<1>1. IsFiniteSet(JobsOf(r)) /\ Cardinality(JobsOf(r)) \in Nat /\ Cardinality(JobsOf(r)) <= MaxJobs
  BY FS_CardinalityType DEF Shape
<1>2. /\ IsFiniteSet(JobsOf(r) \ {j})
      /\ Cardinality(JobsOf(r) \ {j}) = Cardinality(JobsOf(r)) - 1
  BY <1>1, FS_RemoveElement
<1>3. todo[r] \ {j} \subseteq JobsOf(r) \ {j} /\ todo[r] \subseteq JobsOf(r)
  BY DEF Shape
<1>4. /\ IsFiniteSet(todo[r]) /\ IsFiniteSet(todo[r] \ {j})
      /\ Cardinality(todo[r] \ {j}) <= Cardinality(JobsOf(r) \ {j})
  BY <1>1, <1>2, <1>3, FS_Subset
<1>5. Cardinality(todo[r] \ {j}) \in Nat /\ Cardinality(todo[r] \ {j}) <= MaxJobs - 1
  BY <1>1, <1>2, <1>4, FS_CardinalityType
<1>6. /\ Pair(Cardinality(todo[r] \ {j})) \in Nat
      /\ Pair(Cardinality(todo[r] \ {j})) <= Pair(MaxJobs - 1)
  BY <1>5, PairFact, WaitFacts
<1>7. Turn(r, j) \in Nat /\ Turn(r, j) <= WaitMax
  BY <1>6, WaitFacts DEF Turn
<1> QED BY <1>4, <1>5, <1>6, <1>7

LEMMA ClaimsSoon ==
  ASSUME TypeOK', NEW r \in Runner, Roomy, Claims(r, Cardinality(JobsOf(r)')),
         Shape(r)', NEW j, j \in JobsOf(r)', NEW w \in Nat, w >= Round
  PROVE  Soon(r, j, w)'
<1>1. CASE pc'[r] = "sleep"
  BY <1>1, WaitFacts DEF Soon
<1>2. CASE Asks(r, "claim", NoJob) /\ Cardinality(JobsOf(r)') < MaxJobs
  <2>1. /\ pc'[r] = "call" /\ Op(r)' = "claim" /\ call'[r].ans = "none" /\ call'[r].age = 0
    BY <1>2, SentFields DEF Asks, Op
  <2>2. IsFiniteSet(JobsOf(r)') /\ Cardinality(JobsOf(r)') \in Nat
    BY FS_CardinalityType DEF Shape
  <2>3. Cardinality(JobsOf(r)') # 0
    BY <2>2, FS_EmptySet
  <2>4. MaxJobs - 2 \in Nat
    BY <1>2, <2>2, <2>3
  <2>5. Calls(MaxJobs - 2) \in Nat /\ Calls(MaxJobs - 1) = Calls(MaxJobs - 2) + CallMax
    <3>1. Calls((MaxJobs - 2) + 1) = Calls(MaxJobs - 2) + CallMax
      BY <2>4, CallsFacts
    <3> QED BY <2>4, <3>1, CallsFacts
  <2>6. Spare(r)' = CallMax
    BY <2>1 DEF Spare
  <2>7. w >= Spare(r)' + Calls(MaxJobs - 2) + Nap
    BY <2>5, <2>6, WaitFacts
  <2>8. Cardinality({}) + (MaxJobs - 2) + 2 = MaxJobs
    BY FS_EmptySet
  <2>9. Taking(r, j, w)'
    BY <2>1, <2>4, <2>7, <2>8 DEF Taking
  <2> QED BY <2>1, <2>9 DEF Soon, Claiming
<1> QED BY <1>1, <1>2 DEF Claims

(* What was so soon, stays so. *)
LEMMA SoonIdle ==
  ASSUME TypeOK, TypeOK', Timeless, NEW r \in Runner, NEW j \in Job, NEW w \in Nat,
         Shape(r), Soon(r, j, w), Untouched(r)
  PROVE  Soon(r, j, w)'
<1>1. /\ JobsOf(r)' = JobsOf(r) /\ Op(r)' = Op(r) /\ Subject(r)' = Subject(r)
      /\ Spare(r)' = Spare(r) /\ Claiming(r)' = Claiming(r)
  BY DEF Untouched, JobsOf, Op, Subject, Spare, Claiming
<1>2. Busy(r)' = Busy(r) /\ Turn(r, j)' = Turn(r, j)
  BY <1>1 DEF Untouched, Busy, More, Turn
<1>3. ASSUME Claiming(r), Taking(r, j, w) PROVE Taking(r, j, w)'
  <2>1. PICK F \in SUBSET (JobsOf(r) \ {j}), n \in Nat :
          /\ Cardinality(F) + n + 2 = MaxJobs
          /\ \A k \in F : Settled(r, k, Spare(r) + Calls(n))
          /\ call[r].ans = "ok" => Subject(r) \notin F
          /\ w >= Spare(r) + Calls(n) + Nap
    BY <1>3 DEF Taking
  <2>2. PICK m \in Nat : m = Spare(r) + Calls(n)
    BY AgeFacts, CallsFacts
  <2>3. \A k \in F : k \in Job /\ Settled(r, k, m)'
    BY <2>1, <2>2, SettledStep DEF JobsOf
  <2>4. \A k \in F : Settled(r, k, Spare(r) + Calls(n))'
    BY <2>2, <2>3, <1>1 DEF Settled, HeldBy
  <2> QED BY <1>1, <2>1, <2>4 DEF Taking, Untouched
<1> QED BY <1>1, <1>2, <1>3 DEF Soon, Untouched

LEMMA SoonHears ==
  ASSUME TypeOK, TypeOK', Timeless, NEW r \in Runner, NEW j \in Job, NEW w \in Nat,
         Shape(r), Soon(r, j, w), Hears(r)
  PROVE  Soon(r, j, w)'
<1>0. /\ pc[r] = "call" /\ pc'[r] = "call" /\ Waits(r)
      /\ Op(r)' = Op(r) /\ call'[r].age = call[r].age
      /\ Op(r) # "claim" => Subject(r)' = Subject(r)
      /\ Op(r) = "claim" /\ call'[r].ans = "ok" =>
           Subject(r)' \in Job /\ enrolled[r] /\ row[Subject(r)'].state = "queued"
  BY ShapeTyped, HearsFacts
<1>1. JobsOf(r)' = JobsOf(r) /\ Spare(r)' = Spare(r) /\ Claiming(r)' = Claiming(r)
  BY <1>0 DEF Waits, JobsOf, Spare, Claiming
<1>2. Turn(r, j)' = Turn(r, j) /\ (~Claiming(r) => Busy(r)' = Busy(r))
  BY <1>0, <1>1 DEF Waits, Busy, More, Turn, Claiming
<1>3. ASSUME Claiming(r), Taking(r, j, w) PROVE Taking(r, j, w)'
  <2>1. PICK F \in SUBSET (JobsOf(r) \ {j}), n \in Nat :
          /\ Cardinality(F) + n + 2 = MaxJobs
          /\ \A k \in F : Settled(r, k, Spare(r) + Calls(n))
          /\ call[r].ans = "ok" => Subject(r) \notin F
          /\ w >= Spare(r) + Calls(n) + Nap
    BY <1>3 DEF Taking
  <2>2. PICK m \in Nat : m = Spare(r) + Calls(n)
    BY AgeFacts, CallsFacts
  <2>3. \A k \in F : k \in Job /\ Settled(r, k, m)'
    BY <2>1, <2>2, SettledStep DEF JobsOf
  <2>4. \A k \in F : Settled(r, k, Spare(r) + Calls(n))'
    BY <2>2, <2>3, <1>1 DEF Settled, HeldBy
  <2>5. call'[r].ans = "ok" => Subject(r)' \notin F
    BY <1>0, <1>3, <2>1 DEF Claiming, Settled, HeldBy, Ended
  <2> QED BY <1>1, <2>1, <2>4, <2>5 DEF Taking
<1> QED BY <1>0, <1>1, <1>2, <1>3 DEF Soon

LEMMA SoonTick ==
  ASSUME TypeOK, TypeOK', Tick, Roomy, NEW r \in Runner, NEW j \in JobsOf(r), NEW w \in Nat,
         Shape(r), Shape(r)', Soon(r, j, w)
  PROVE  w > 0 /\ Soon(r, j, w - 1)'
<1>0. JobsOf(r)' = JobsOf(r) /\ j \in Job /\ held' = held
  BY DEF Tick, JobsOf
<1>1. CASE pc[r] = "sleep"
  <2>1. pc'[r] = "follow" /\ todo'[r] = JobsOf(r) /\ w >= Nap
    BY <1>1 DEF Tick, Soon, Claiming
  <2>3. Pair(Cardinality(todo'[r] \ {j})) \in Nat /\ Pair(Cardinality(todo'[r] \ {j})) <= Pair(MaxJobs - 1)
    <3>1. IsFiniteSet(JobsOf(r)) /\ Cardinality(JobsOf(r)) <= MaxJobs
      BY DEF Shape
    <3>2. /\ IsFiniteSet(JobsOf(r) \ {j})
          /\ Cardinality(JobsOf(r) \ {j}) = Cardinality(JobsOf(r)) - 1
      BY <3>1, FS_RemoveElement
    <3>3. Cardinality(JobsOf(r) \ {j}) \in Nat /\ Cardinality(JobsOf(r) \ {j}) <= MaxJobs - 1
      BY <3>1, <3>2, FS_CardinalityType
    <3> QED BY <2>1, <3>3, PairFact, WaitFacts
  <2>2. Turn(r, j)' = Pair(Cardinality(todo'[r] \ {j}))
    BY <2>1, <2>3 DEF Turn
  <2>4. Busy(r)' = 0 /\ ~Claiming(r)'
    BY <2>1 DEF Busy, Claiming
  <2>5. w - 1 >= Busy(r)' + Turn(r, j)' /\ w > 0
    BY <2>1, <2>2, <2>3, <2>4, WaitFacts
  <2> QED BY <2>1, <2>4, <2>5 DEF Soon
<1>2. CASE pc[r] = "call"
  <2>1. /\ pc'[r] = "call" /\ todo'[r] = todo[r] /\ call[r].age < CallMax
        /\ call'[r] = Exchange(Op(r), Subject(r), call[r].age + 1, call[r].ans)
    BY <1>2 DEF Tick, Op, Subject
  <2>2. /\ Op(r)' = Op(r) /\ Subject(r)' = Subject(r) /\ call'[r].ans = call[r].ans
        /\ call'[r].age = call[r].age + 1
    BY <2>1, ExchangeFields DEF Op, Subject
  <2>3. Spare(r) \in Nat \ {0} /\ Spare(r)' = Spare(r) - 1
    BY <2>1, <2>2, AgeFacts DEF Spare
  <2>4. CASE Claiming(r)
    <3>1. PICK F \in SUBSET (JobsOf(r) \ {j}), n \in Nat :
            /\ Cardinality(F) + n + 2 = MaxJobs
            /\ \A k \in F : Settled(r, k, Spare(r) + Calls(n))
            /\ call[r].ans = "ok" => Subject(r) \notin F
            /\ w >= Spare(r) + Calls(n) + Nap
      BY <1>2, <2>4 DEF Soon, Taking
    <3>7. Calls(n) \in Nat
      BY CallsFacts
    <3>2. /\ Calls(n) \in Nat /\ Spare(r)' + Calls(n) \in Nat
          /\ Spare(r) + Calls(n) = (Spare(r)' + Calls(n)) + 1
      BY <2>3, <3>7
    <3>6. PICK m \in Nat : m = Spare(r)' + Calls(n)
      BY <3>2
    <3>3. \A k \in F : Settled(r, k, Spare(r) + Calls(n))'
      <4>1. ASSUME NEW k \in F PROVE Settled(r, k, m)'
        <5>1. k \in Job /\ Settled(r, k, m + 1)
          BY <3>1, <3>2, <3>6 DEF JobsOf, Settled
        <5> QED BY <5>1, SettledTick
      <4> QED BY <3>6, <4>1 DEF Settled, HeldBy
    <3>4. w > 0 /\ w - 1 >= (Spare(r)' + Calls(n)) + Nap
      BY <2>3, <3>1, <3>2, WaitFacts
    <3>5. Taking(r, j, w - 1)'
      BY <1>0, <2>2, <3>1, <3>3, <3>4 DEF Taking
    <3> QED BY <2>1, <2>2, <2>4, <3>4, <3>5 DEF Soon, Claiming
  <2>5. CASE ~Claiming(r)
    <3>1. w >= Busy(r) + Turn(r, j)
      BY <1>2, <2>5 DEF Soon
    <3>2. Turn(r, j)' = Turn(r, j)
      BY <2>1 DEF Turn
    <3>3. More(r)' = More(r)
      BY <1>0, <2>2 DEF More
    <3>4. Busy(r)' = Busy(r) - 1 /\ Busy(r) \in Nat \ {0}
      BY <1>2, <2>1, <2>3, <3>3, AgeFacts DEF Busy
    <3>6. Turn(r, j) \in Nat
      BY TodoFacts
    <3>5. w > 0 /\ w - 1 >= Busy(r)' + Turn(r, j)'
      BY <3>1, <3>2, <3>4, <3>6
    <3> QED BY <1>2, <2>1, <2>2, <2>5, <3>5 DEF Soon, Claiming
  <2> QED BY <2>4, <2>5
<1>3. CASE pc[r] = "follow"
  BY <1>3 DEF Tick
<1> QED BY <1>1, <1>2, <1>3 DEF Soon, Claiming

LEMMA SettledSame ==
  ASSUME UNCHANGED <<row, enrolled>>, NEW r, NEW k, NEW n, Settled(r, k, n)
  PROVE  Settled(r, k, n)'
BY DEF Settled, HeldBy

(* A call about another job begins, goes on or ends. *)
LEMMA TurnLess ==
  ASSUME NEW r \in Runner, Roomy, Shape(r), NEW j \in JobsOf(r),
         NEW i \in todo[r], i # j, todo'[r] = todo[r] \ {i}
  PROVE  Turn(r, j)' + 2 * CallMax = Turn(r, j) /\ Turn(r, j)' \in Nat
<1>1. IsFiniteSet(todo[r] \ {j}) /\ i \in todo[r] \ {j}
  BY TodoFacts
<1>2. todo'[r] \ {j} = (todo[r] \ {j}) \ {i} /\ (j \in todo'[r] <=> j \in todo[r])
  OBVIOUS
<1>3. /\ Cardinality(todo'[r] \ {j}) = Cardinality(todo[r] \ {j}) - 1
      /\ Cardinality(todo'[r] \ {j}) \in Nat /\ Cardinality(todo[r] \ {j}) \in Nat
  <2>1. /\ IsFiniteSet((todo[r] \ {j}) \ {i})
        /\ Cardinality((todo[r] \ {j}) \ {i}) = Cardinality(todo[r] \ {j}) - 1
    BY <1>1, FS_RemoveElement
  <2> QED BY <1>1, <1>2, <2>1, FS_CardinalityType
<1>4. Pair(Cardinality(todo'[r] \ {j}) + 1) = Pair(Cardinality(todo'[r] \ {j})) + 2 * CallMax
  BY <1>3, PairFact
<1>5. /\ Pair(Cardinality(todo[r] \ {j})) = Pair(Cardinality(todo'[r] \ {j})) + 2 * CallMax
      /\ Pair(Cardinality(todo'[r] \ {j})) \in Nat
  <2>1. Cardinality(todo'[r] \ {j}) + 1 = Cardinality(todo[r] \ {j})
    BY <1>3
  <2> QED BY <1>3, <1>4, <2>1, PairFact
<1> QED BY <1>2, <1>5, WaitFacts DEF Turn

LEMMA SoonStarts ==
  ASSUME TypeOK, TypeOK', Roomy, NEW r \in Runner, NEW j \in JobsOf(r), NEW w \in Nat,
         Shape(r), Shape(r)', Claimed(r), UNCHANGED <<row, enrolled>>,
         Soon(r, j, w), NEW i \in Job, i # j, Starts(r, i)
  PROVE  Soon(r, j, w)'
<1>1. PICK F \in SUBSET (JobsOf(r) \ {j}), n \in Nat :
        /\ Cardinality(F) + n + 2 = MaxJobs
        /\ \A k \in F : Settled(r, k, Spare(r) + Calls(n))
        /\ i \notin F
        /\ w >= Spare(r) + Calls(n) + Nap
  BY DEF Starts, Claiming, Soon, Taking, Subject
<1>2. JobsOf(r)' = JobsOf(r) \cup {i}
  BY JobsFacts DEF Starts
<1>3. Spare(r) \in Nat /\ Calls(n) \in Nat /\ Calls(MaxJobs - 1) \in Nat
  BY AgeFacts, CallsFacts, WaitFacts
<1>4. IsFiniteSet(F) /\ Cardinality(F) \in Nat
  <2>1. F \subseteq JobsOf(r) /\ IsFiniteSet(JobsOf(r))
    BY DEF Shape
  <2> QED BY <2>1, FS_Subset, FS_CardinalityType
<1>5. CASE pc'[r] = "sleep"
  BY <1>1, <1>3, <1>5, WaitFacts DEF Soon
<1>6. CASE Asks(r, "claim", NoJob) /\ Cardinality(JobsOf(r)') < MaxJobs
  <2>1. pc'[r] = "call" /\ Op(r)' = "claim" /\ call'[r].ans = "none" /\ call'[r].age = 0
    BY <1>6, SentFields DEF Asks, Op
  <2>2. Spare(r)' = CallMax
    BY <2>1 DEF Spare
  <2> DEFINE G == F \cup {i}
  <2>3. G \subseteq JobsOf(r)' \ {j} /\ Cardinality(G) = Cardinality(F) + 1 /\ IsFiniteSet(G)
    BY <1>1, <1>2, <1>4, FS_AddElement
  <2>4. n # 0
    <3>1. IsFiniteSet(JobsOf(r)') /\ j \in JobsOf(r)'
      BY <1>2 DEF Shape
    <3>2. /\ IsFiniteSet(JobsOf(r)' \ {j})
          /\ Cardinality(JobsOf(r)' \ {j}) = Cardinality(JobsOf(r)') - 1
      BY <3>1, FS_RemoveElement
    <3>3. Cardinality(G) <= Cardinality(JobsOf(r)' \ {j})
      BY <2>3, <3>2, FS_Subset
    <3> QED BY <1>1, <1>4, <1>6, <2>3, <3>1, <3>2, <3>3, FS_CardinalityType
  <2>5. PICK m \in Nat : n = m + 1
    BY <2>4
  <2>6. Calls(n) = Calls(m) + CallMax /\ Calls(m) \in Nat
    BY <2>5, CallsFacts
  <2>7. \A k \in G : Settled(r, k, Calls(n))
    <3>1. ASSUME NEW k \in F PROVE Settled(r, k, Calls(n))
      <4>1. PICK a \in Nat : a = Spare(r) + Calls(n)
        BY <1>3
      <4>2. Settled(r, k, a) /\ k \in Job
        BY <1>1, <4>1 DEF JobsOf, Settled
      <4> QED BY <1>3, <4>1, <4>2, SettledLess
    <3>2. Settled(r, i, Calls(n))
      <4>1. /\ enrolled[r] => \/ row[i].state \in Ended
                              \/ HeldBy(r, i) /\ row[i].lease >= Lease - call[r].age
        BY DEF Starts, Claimed, Subject
      <4>2. row[i].lease \in Nat /\ call[r].age \in 0 .. CallMax
        BY AgeFacts, FieldFacts DEF TypeOK
      <4>3. Calls(n) <= Calls(MaxJobs - 1)
        BY <1>1, <1>4, CallsFacts, WaitFacts
      <4>4. Lease - call[r].age > Calls(n)
        BY <1>3, <4>2, <4>3, WaitFacts
      <4> QED BY <1>3, <4>1, <4>2, <4>4 DEF Settled
    <3> QED BY <3>1, <3>2
  <2>8. \A k \in G : Settled(r, k, Spare(r) + Calls(m))'
    <3>1. PICK a \in Nat : a = Calls(n)
      BY <1>3
    <3>2. Spare(r)' + Calls(m) = a
      BY <2>2, <2>6, <3>1
    <3>3. \A k \in G : Settled(r, k, a)'
      BY <2>7, <3>1, SettledSame DEF Settled
    <3> QED BY <3>2, <3>3 DEF Settled
  <2>9. Cardinality(G) + m + 2 = MaxJobs
    BY <1>1, <1>4, <2>3, <2>5
  <2>10. w >= (Spare(r)' + Calls(m)) + Nap
    BY <1>1, <1>3, <2>2, <2>6, WaitFacts
  <2> HIDE DEF G
  <2>11. Taking(r, j, w)'
    BY <2>1, <2>3, <2>8, <2>9, <2>10 DEF Taking
  <2> QED BY <2>1, <2>11 DEF Soon, Claiming
<1> QED BY <1>2, <1>5, <1>6 DEF Starts, Claims

LEMMA SoonLoops ==
  ASSUME TypeOK, TypeOK', Roomy, NEW r \in Runner, NEW j \in JobsOf(r), NEW w \in Nat,
         Shape(r), Shape(r)', Claimed(r), UNCHANGED <<row, enrolled>>,
         Soon(r, j, w), ~About(r, j), ~About(r, j)', j \in JobsOf(r)',
         ~Skips(r, j), ~Starts(r, j), Loops(r)
  PROVE  Soon(r, j, w)'
<1>0. j \in Job /\ Turn(r, j) \in Nat
  BY TodoFacts DEF JobsOf
<1>1. ASSUME NEW i \in Job, Begins(r, i) PROVE Soon(r, j, w)'
  <2>1. PICK op \in {"beat", "logs", "finish"} : pc'[r] = "call" /\ call'[r] = Sent(op, i)
    BY <1>1 DEF Begins, Asks
  <2>2. Op(r)' = op /\ Subject(r)' = i /\ call'[r].age = 0
    BY <2>1, SentFields DEF Op, Subject
  <2>3. i # j /\ ~Claiming(r)'
    BY <2>1, <2>2 DEF About, Claiming
  <2>4. Spare(r)' = CallMax /\ More(r)' \in {0, CallMax}
    BY <2>2, AgeFacts DEF Spare, More
  <2>5. Busy(r)' <= 2 * CallMax /\ Busy(r)' \in Nat
    BY <2>1, <2>4 DEF Busy
  <2>6. Turn(r, j)' + 2 * CallMax = Turn(r, j) /\ Turn(r, j)' \in Nat
    BY <1>1, <2>3, TurnLess DEF Begins
  <2>7. w >= Turn(r, j)
    BY <1>0, <1>1 DEF Begins, Soon, Claiming, Busy
  <2>8. w >= Busy(r)' + Turn(r, j)'
    BY <1>0, <2>5, <2>6, <2>7
  <2> QED BY <2>1, <2>3, <2>8 DEF Soon
<1>2. ASSUME NEW i \in Job, Skips(r, i) PROVE Soon(r, j, w)'
  <2>1. i # j /\ i \in todo[r] /\ todo'[r] = todo[r] \ {i} /\ pc[r] = "follow" /\ pc'[r] = "follow"
    BY <1>2 DEF Skips
  <2>2. Turn(r, j)' + 2 * CallMax = Turn(r, j) /\ Turn(r, j)' \in Nat
    BY <2>1, TurnLess
  <2>3. w >= Turn(r, j) /\ Busy(r)' = 0 /\ ~Claiming(r)'
    BY <1>0, <2>1 DEF Soon, Claiming, Busy
  <2>4. w >= Busy(r)' + Turn(r, j)'
    BY <1>0, <2>2, <2>3
  <2> QED BY <2>1, <2>3, <2>4 DEF Soon
<1>3. CASE TakesWork(r)
  <2>1. JobsOf(r)' = JobsOf(r) /\ todo[r] = {} /\ pc[r] = "follow"
    BY <1>3 DEF TakesWork, Waits, JobsOf
  <2>2. w >= Turn(r, j)
    BY <1>0, <2>1 DEF Soon, Claiming, Busy
  <2>3. Turn(r, j) >= Round
    BY <2>1, TodoFacts, WaitFacts DEF Turn
  <2>4. w >= Round
    BY <1>0, <2>2, <2>3, WaitFacts
  <2> QED BY <1>3, <2>1, <2>4, ClaimsSoon DEF TakesWork
<1>4. ASSUME NEW i \in Job, Starts(r, i) PROVE Soon(r, j, w)'
  BY <1>4, SoonStarts
<1>5. CASE ClaimEnds(r)
  <2>1. Taking(r, j, w) /\ pc'[r] = "sleep"
    BY <1>5 DEF ClaimEnds, Ready, Soon, Claiming
  <2>2. PICK n \in Nat : w >= Spare(r) + Calls(n) + Nap
    BY <2>1 DEF Taking
  <2>3. w >= Nap
    BY <2>2, AgeFacts, CallsFacts, WaitFacts
  <2> QED BY <2>1, <2>3 DEF Soon
<1>6. ASSUME NEW i \in Job, Extends(r, i) \/ Loses(r, i) \/ Fails(r, i) PROVE Soon(r, j, w)'
  <2>1. /\ pc[r] = "call" /\ ~Claiming(r) /\ pc'[r] = "follow" /\ todo'[r] = todo[r]
    BY <1>6 DEF Extends, Loses, Fails, Ready, About, Claiming
  <2>2. Busy(r)' = 0 /\ Turn(r, j)' = Turn(r, j) /\ ~Claiming(r)'
    BY <2>1 DEF Busy, Turn, Claiming
  <2>3. w >= Busy(r) + Turn(r, j) /\ Busy(r) \in Nat
    BY <2>1, AgeFacts DEF Soon
  <2>4. w >= Busy(r)' + Turn(r, j)'
    BY <1>0, <2>2, <2>3
  <2> QED BY <2>1, <2>2, <2>4 DEF Soon
<1>7. ASSUME NEW i \in Job, Continues(r, i) PROVE Soon(r, j, w)'
  <2>1. PICK op \in {"logs", "finish"} :
          /\ pc'[r] = "call" /\ call'[r] = Sent(op, i) /\ More(r) = CallMax
          /\ op = "logs" => held[r][i] = "run"
    BY <1>7 DEF Continues, Asks, More, About, Shape
  <2>2. Op(r)' = op /\ Subject(r)' = i /\ call'[r].age = 0
    BY <2>1, SentFields DEF Op, Subject
  <2>3. /\ pc[r] = "call" /\ ~Claiming(r) /\ ~Claiming(r)' /\ todo'[r] = todo[r]
        /\ held'[r] = held[r]
    BY <1>7, <2>2 DEF Continues, About, Claiming
  <2>4. Busy(r)' = CallMax
    BY <2>1, <2>2, <2>3 DEF Busy, Spare, More
  <2>5. Busy(r) = Spare(r) + CallMax /\ Spare(r) \in Nat
    BY <2>1, <2>3, AgeFacts DEF Busy
  <2>6. Turn(r, j)' = Turn(r, j) /\ w >= Busy(r) + Turn(r, j)
    BY <2>3 DEF Turn, Soon
  <2>7. w >= Busy(r)' + Turn(r, j)'
    BY <1>0, <2>4, <2>5, <2>6
  <2> QED BY <2>1, <2>3, <2>7 DEF Soon
<1> QED BY <1>1, <1>2, <1>3, <1>4, <1>5, <1>6, <1>7 DEF Loops

LEMMA SoonMore ==
  ASSUME TypeOK, Roomy, NEW r \in Runner, Shape(r), NEW j \in JobsOf(r),
         NEW v \in Nat, NEW w \in Nat, v <= w, Soon(r, j, v)
  PROVE  Soon(r, j, w)
<1>1. Nap \in Nat /\ Busy(r) \in Nat /\ Turn(r, j) \in Nat /\ Spare(r) \in Nat
  BY AgeFacts, WaitFacts, TodoFacts
<1>2. ASSUME Taking(r, j, v) PROVE Taking(r, j, w)
  <2>1. PICK F \in SUBSET (JobsOf(r) \ {j}), n \in Nat :
          /\ Cardinality(F) + n + 2 = MaxJobs
          /\ \A k \in F : Settled(r, k, Spare(r) + Calls(n))
          /\ call[r].ans = "ok" => Subject(r) \notin F
          /\ v >= Spare(r) + Calls(n) + Nap
    BY <1>2 DEF Taking
  <2>2. w >= Spare(r) + Calls(n) + Nap
    BY <1>1, <2>1, CallsFacts
  <2> QED BY <2>1, <2>2 DEF Taking
<1> QED BY <1>1, <1>2 DEF Soon

(* The same in the next state. *)
LEMMA TurnNext ==
  ASSUME Roomy, NEW r \in Runner, NEW j
  PROVE  (Shape(r) /\ j \in JobsOf(r) => Turn(r, j) \in Nat /\ Turn(r, j) <= WaitMax)'
<1>1. Shape(r) /\ j \in JobsOf(r) => Turn(r, j) \in Nat /\ Turn(r, j) <= WaitMax
  BY TodoFacts
<1> QED BY <1>1, PTL

LEMMA SoonNext ==
  ASSUME Roomy, NEW r \in Runner, NEW j, NEW v \in Nat, NEW w \in Nat, v <= w
  PROVE  (TypeOK /\ Shape(r) /\ j \in JobsOf(r) /\ Soon(r, j, v) => Soon(r, j, w))'
<1>1. TypeOK /\ Shape(r) /\ j \in JobsOf(r) /\ Soon(r, j, v) => Soon(r, j, w)
  BY SoonMore
<1> QED BY <1>1, PTL

-----------------------------------------------------------------------------
(* Every job that a runner holds is looked at soon. *)
Prompt(r) == \A j \in JobsOf(r) : ~About(r, j) => Soon(r, j, WaitMax)

LEMMA ClaimedStep ==
  ASSUME TypeOK, TypeOK', Timeless, Roomy, NEW r \in Runner, Shape(r), Claimed(r), StepOf(r)
  PROVE  Claimed(r)'
<1>0. Typed(r) /\ (enrolled'[r] => enrolled[r])
  BY ShapeTyped, Leaves DEF Timeless
<1>1. CASE Untouched(r)
  <2>1. /\ Claiming(r)' = Claiming(r) /\ Subject(r)' = Subject(r) /\ call'[r] = call[r]
    BY <1>1 DEF Untouched, Claiming, Op, Subject
  <2>2. ASSUME Claiming(r), call[r].ans = "ok", enrolled'[r]
        PROVE  /\ row'[Subject(r)].runner = r
               /\ \/ row'[Subject(r)].state \in Ended
                  \/ HeldBy(r, Subject(r))' /\ row'[Subject(r)].lease >= Lease - call[r].age
    <3> DEFINE j == Subject(r)
    <3>1. j \in Job /\ call[r].age \in 0 .. CallMax
      BY <1>0, <2>2, AgeFacts DEF Typed, Claiming
    <3>2. row[j].lease \in Nat /\ row'[j].lease \in Nat
      BY <3>1, FieldFacts DEF TypeOK
    <3>3. Seen(r, j)
      BY <3>1, StepSeen
    <3>4. /\ row[j].runner = r
          /\ row[j].state \in Ended \/ (HeldBy(r, j) /\ row[j].lease >= Lease - call[r].age)
      BY <1>0, <2>2 DEF Claimed
    <3>5. Lease - call[r].age > 0
      BY <3>1, WaitFacts
    <3>6. CASE row[j].state \in Ended
      BY <2>2, <3>3, <3>4, <3>6 DEF Seen
    <3>7. CASE HeldBy(r, j) /\ row[j].lease >= Lease - call[r].age
      <4>1. row[j].lease # 0
        BY <3>1, <3>2, <3>5, <3>7
      <4>2. \/ HeldBy(r, j)' /\ row'[j].lease >= row[j].lease
            \/ row'[j].state \in Ended /\ row'[j].runner = r
        BY <2>2, <3>3, <3>7, <4>1 DEF Seen
      <4>3. HeldBy(r, j)' => row'[j].runner = r
        BY <2>1 DEF HeldBy
      <4> QED BY <3>1, <3>2, <3>7, <4>2, <4>3, <2>1
    <3> QED BY <3>4, <3>6, <3>7
  <2> QED BY <1>0, <2>1, <2>2 DEF Claimed
<1>2. CASE Hears(r)
  <2>1. /\ Claiming(r)' = Claiming(r) /\ call'[r].age \in 0 .. CallMax
    BY <1>0, <1>2, HearsFacts, AgeFacts DEF Claiming
  <2>2. Claiming(r) /\ call'[r].ans = "ok" =>
          HeldBy(r, Subject(r))' /\ row'[Subject(r)'].lease = Lease
    BY <1>0, <1>2, HearsFacts DEF Claiming
  <2> QED BY <2>1, <2>2 DEF Claimed, HeldBy
<1>3. CASE Dies(r) \/ Revives(r)
  BY <1>3 DEF Dies, Revives, Claimed, Claiming
<1>4. CASE Loops(r)
  <2>1. ASSUME NEW op, NEW i, Asks(r, op, i) PROVE call'[r].ans = "none"
    BY <2>1, SentFields DEF Asks
  <2>2. ASSUME NEW n, Claims(r, n) PROVE pc'[r] = "sleep" \/ call'[r].ans = "none"
    BY <2>1, <2>2 DEF Claims
  <2>3. \/ pc'[r] # "call" \/ call'[r].ans = "none"
    <3>1. ASSUME NEW i \in Job, Begins(r, i) \/ Continues(r, i) PROVE call'[r].ans = "none"
      BY <2>1, <3>1 DEF Begins, Continues
    <3>2. CASE TakesWork(r) \/ \E i \in Job : Starts(r, i)
      BY <2>2, <3>2 DEF TakesWork, Starts
    <3>3. CASE ClaimEnds(r) \/ \E i \in Job : Skips(r, i) \/ Extends(r, i) \/ Loses(r, i) \/ Fails(r, i)
      BY <3>3 DEF ClaimEnds, Skips, Extends, Loses, Fails, Ready
    <3> QED BY <1>4, <3>1, <3>2, <3>3 DEF Loops
  <2> QED BY <2>3 DEF Claimed, Claiming
<1> QED BY <1>1, <1>2, <1>3, <1>4 DEF StepOf

LEMMA CallTick ==
  ASSUME TypeOK, Tick, NEW r \in Runner
  PROVE  /\ Op(r)' = Op(r) /\ Subject(r)' = Subject(r) /\ call'[r].ans = call[r].ans
         /\ pc[r] = "call" <=> pc'[r] = "call"
         /\ pc[r] = "call" => call[r].age < CallMax /\ call'[r].age = call[r].age + 1
         /\ Claiming(r)' = Claiming(r)
<1>1. CASE pc[r] = "call"
  <2>1. call'[r] = Exchange(call[r].req.op, call[r].req.job, call[r].age + 1, call[r].ans)
        /\ call[r].age < CallMax /\ pc'[r] = "call"
    BY <1>1 DEF Tick
  <2> QED BY <1>1, <2>1, ExchangeFields DEF Op, Subject, Claiming
<1>2. CASE pc[r] # "call"
  BY <1>2 DEF Tick, Op, Subject, Claiming
<1> QED BY <1>1, <1>2

LEMMA ClaimedTick ==
  ASSUME TypeOK, Tick, NEW r \in Runner, Shape(r), Claimed(r)
  PROVE  Claimed(r)'
<1>1. ASSUME Claiming(r), call[r].ans = "ok", enrolled[r]
      PROVE  Claimed(r)'
  <2> DEFINE j == Subject(r)
  <2>1. j \in Job /\ call[r].age \in 0 .. CallMax /\ call'[r].age = call[r].age + 1
    BY <1>1, AgeFacts, CallTick, ShapeTyped DEF Typed, Claiming
  <2>2. /\ row'[j].state = row[j].state /\ row'[j].runner = row[j].runner
        /\ row[j].lease \in Nat /\ row'[j].lease = IF row[j].lease > 0 THEN row[j].lease - 1 ELSE 0
    BY <2>1, RowTick
  <2>3. row[j].runner = r /\ (row[j].state \in Ended \/ (HeldBy(r, j) /\ row[j].lease >= Lease - call[r].age))
    BY <1>1 DEF Claimed
  <2>4. row[j].lease >= Lease - call[r].age => row'[j].lease >= Lease - call'[r].age
    BY <2>1, <2>2
  <2>5. Subject(r)' = j
    BY CallTick
  <2>6. /\ row'[j].runner = r
        /\ row'[j].state \in Ended \/
           (row'[j].state = "running" /\ row'[j].lease >= Lease - call'[r].age)
    BY <2>2, <2>3, <2>4 DEF HeldBy
  <2> HIDE DEF j
  <2> QED BY <2>5, <2>6 DEF Claimed, HeldBy
<1>2. enrolled' = enrolled
  BY DEF Tick
<1> QED BY <1>1, <1>2, CallTick DEF Claimed

LEMMA PromptStep ==
  ASSUME TypeOK, TypeOK', Timeless, Roomy, NEW r \in Runner, Shape(r), Shape(r)', Claimed(r),
         Prompt(r), StepOf(r)
  PROVE  Prompt(r)'
<1> SUFFICES ASSUME NEW j, j \in JobsOf(r)', ~About(r, j)' PROVE Soon(r, j, WaitMax)'
  BY DEF Prompt
<1>0. j \in Job /\ WaitMax \in Nat
  BY WaitFacts DEF JobsOf
<1>1. CASE j \in JobsOf(r) /\ ~About(r, j) /\ (Untouched(r) \/ Hears(r))
  BY <1>0, <1>1, SoonIdle, SoonHears DEF Prompt
<1>2. CASE (Hears(r) \/ Untouched(r)) /\ (j \notin JobsOf(r) \/ About(r, j))
  <2>1. JobsOf(r)' = JobsOf(r)
    BY <1>2, HearsFacts, ShapeTyped DEF Untouched, Waits, JobsOf
  <2>2. About(r, j)' = About(r, j)
    BY <1>2, HearsFacts, ShapeTyped DEF Untouched, About, Op, Subject
  <2> QED BY <1>2, <2>1, <2>2
<1>3. CASE Dies(r) \/ Revives(r)
  BY <1>3 DEF Dies, Revives, Waits, Shape, JobsOf
<1>4. CASE Loops(r) /\ UNCHANGED <<row, enrolled>>
  <2>1. CASE pc'[r] = "follow"
    <3>1. (pc[r] = "follow")' /\ (j \in JobsOf(r))' /\ Shape(r)'
      BY <2>1
    <3>2. Busy(r)' = 0 /\ ~Claiming(r)'
      BY <2>1 DEF Busy, Claiming
    <3>3. Turn(r, j)' \in Nat /\ Turn(r, j)' <= WaitMax
      BY TurnNext
    <3>4. WaitMax >= Busy(r)' + Turn(r, j)'
      BY <1>0, <3>2, <3>3
    <3> QED BY <2>1, <3>2, <3>4 DEF Soon
  <2>2. CASE Starts(r, j)
    <3>1. Claims(r, Cardinality(JobsOf(r)'))
      BY <1>0, <2>2, JobsFacts DEF Starts
    <3> QED BY <1>0, <3>1, WaitFacts, ClaimsSoon
  <2>3. CASE ~Starts(r, j) /\ pc'[r] # "follow"
    <3>1. j \in JobsOf(r)
      <4>1. ASSUME NEW i \in Job, Begins(r, i) PROVE JobsOf(r)' = JobsOf(r)
        BY <4>1 DEF Begins, JobsOf, TypeOK
      <4>2. ASSUME NEW i \in Job, Starts(r, i) PROVE JobsOf(r)' = JobsOf(r) \cup {i}
        BY <4>2, JobsFacts DEF Starts
      <4>3. ASSUME TakesWork(r) \/ ClaimEnds(r) \/ \E i \in Job : Continues(r, i) \/ Skips(r, i)
            PROVE  JobsOf(r)' = JobsOf(r)
        BY <4>3 DEF TakesWork, Waits, ClaimEnds, Continues, Skips, JobsOf
      <4>4. ASSUME NEW i \in Job, Extends(r, i) \/ Loses(r, i) \/ Fails(r, i) PROVE FALSE
        BY <2>3, <4>4 DEF Extends, Loses, Fails, Ready
      <4> QED BY <1>4, <2>3, <4>1, <4>2, <4>3, <4>4 DEF Loops
    <3>2. ~Skips(r, j)
      BY <2>3 DEF Skips
    <3>3. ~About(r, j)
      <4>1. ASSUME NEW i \in Job, Continues(r, i) PROVE i # j
        <5>1. PICK op \in {"logs", "finish"} : pc'[r] = "call" /\ call'[r] = Sent(op, i)
          BY <4>1 DEF Continues, Asks
        <5>2. About(r, i)'
          BY <5>1, SentFields DEF About, Op, Subject
        <5> QED BY <5>2
      <4>2. ASSUME NEW i \in Job, Continues(r, i) PROVE ~About(r, j)
        BY <4>1, <4>2 DEF Continues, About
      <4>3. ASSUME \E i \in Job : Begins(r, i) \/ Skips(r, i) \/ Starts(r, i)
            PROVE  ~About(r, j)
        BY <4>3 DEF Begins, Skips, Starts, About, Claiming
      <4>4. ASSUME TakesWork(r) \/ ClaimEnds(r) PROVE ~About(r, j)
        BY <4>4 DEF TakesWork, ClaimEnds, About, Claiming
      <4>5. ASSUME NEW i \in Job, Extends(r, i) \/ Loses(r, i) \/ Fails(r, i) PROVE FALSE
        BY <2>3, <4>5 DEF Extends, Loses, Fails, Ready
      <4> QED BY <1>4, <4>2, <4>3, <4>4, <4>5 DEF Loops
    <3>4. Soon(r, j, WaitMax)
      BY <3>1, <3>3 DEF Prompt
    <3> QED BY <1>0, <1>4, <2>3, <3>1, <3>2, <3>3, <3>4, SoonLoops
  <2> QED BY <2>1, <2>2, <2>3
<1> QED BY <1>1, <1>2, <1>3, <1>4 DEF StepOf

LEMMA PromptTick ==
  ASSUME TypeOK, TypeOK', Tick, Roomy, NEW r \in Runner, Shape(r), Shape(r)', Prompt(r)
  PROVE  Prompt(r)'
<1> SUFFICES ASSUME NEW j, j \in JobsOf(r)', ~About(r, j)' PROVE Soon(r, j, WaitMax)'
  BY DEF Prompt
<1>1. JobsOf(r)' = JobsOf(r) /\ About(r, j)' = About(r, j)
  BY CallTick DEF Tick, JobsOf, About
<1>2. Soon(r, j, WaitMax) /\ WaitMax \in Nat
  BY <1>1, WaitFacts DEF Prompt
<1>3. PICK w \in Nat : w = WaitMax
  BY <1>2
<1>4. w > 0 /\ Soon(r, j, w - 1)'
  BY <1>1, <1>2, <1>3, SoonTick
<1>5. PICK v \in Nat : v = w - 1
  BY <1>4
<1>6. Soon(r, j, v)'
  BY <1>4, <1>5
<1>7. Soon(r, j, w)'
  BY <1>5, <1>6, SoonNext
<1> QED BY <1>3, <1>7

(* A runner that is deleted has no job. *)
Gone(r) == ~enrolled[r] => \A j \in Job : ~HeldBy(r, j)

Base == TypeOK /\ \A r \in Runner : Shape(r) /\ Claimed(r) /\ Prompt(r) /\ Gone(r)

LEMMA BaseInit ==
  ASSUME Init
  PROVE  Base
<1>1. TypeOK
  BY InitTyped
<1>2. ASSUME NEW r \in Runner PROVE Shape(r) /\ Claimed(r) /\ Prompt(r) /\ Gone(r)
  <2>1. JobsOf(r) = {} /\ pc[r] = "sleep" /\ todo[r] = {} /\ enrolled[r]
    BY DEF Init, JobsOf
  <2>2. IsFiniteSet({}) /\ Cardinality({}) = 0
    BY FS_EmptySet
  <2>3. Shape(r)
    BY <2>1, <2>2 DEF Shape, Claiming
  <2> QED BY <2>1, <2>3 DEF Claimed, Claiming, Prompt, Gone
<1> QED BY <1>1, <1>2 DEF Base

LEMMA BaseTimeless ==
  ASSUME Base, TypeOK', Timeless, Roomy, NEW r \in Runner
  PROVE  /\ StepOf(r)
         /\ Shape(r)' /\ Claimed(r)' /\ Prompt(r)' /\ Gone(r)'
<1>0. TypeOK /\ Shape(r) /\ Claimed(r) /\ Prompt(r) /\ Gone(r) /\ \A s \in Runner : Typed(s)
  BY ShapeTyped DEF Base
<1>1. StepOf(r)
  BY <1>0, StepCases
<1>2. Shape(r)'
  BY <1>0, <1>1, ShapeStep
<1>3. Claimed(r)' /\ Prompt(r)'
  BY <1>0, <1>1, <1>2, ClaimedStep, PromptStep
<1>4. Gone(r)'
  <2>1. ASSUME ~enrolled'[r], NEW j \in Job PROVE ~HeldBy(r, j)'
    <3>1. CASE enrolled[r]
      BY <1>0, <2>1, <3>1, Leaves DEF Timeless, HeldBy
    <3>2. CASE ~enrolled[r]
      BY <1>0, <3>2, StepSeen DEF Gone, Seen
    <3> QED BY <3>1, <3>2
  <2> QED BY <2>1 DEF Gone
<1> QED BY <1>1, <1>2, <1>3, <1>4

LEMMA BaseTick ==
  ASSUME Base, TypeOK', Tick, Roomy, NEW r \in Runner
  PROVE  Shape(r)' /\ Claimed(r)' /\ Prompt(r)' /\ Gone(r)'
<1>0. TypeOK /\ Shape(r) /\ Claimed(r) /\ Prompt(r) /\ Gone(r)
  BY DEF Base
<1>1. Shape(r)'
  BY <1>0, ShapeTick
<1>2. Claimed(r)' /\ Prompt(r)'
  BY <1>0, <1>1, ClaimedTick, PromptTick
<1>3. Gone(r)'
  BY <1>0, RowTick DEF Gone, HeldBy, Tick
<1> QED BY <1>1, <1>2, <1>3

(* How runner r comes to hold a job. *)
LEMMA HeldFacts ==
  ASSUME TypeOK, TypeOK', Timeless, NEW r \in Runner, NEW j \in Job, Gone(r)', HeldBy(r, j)'
  PROVE  \/ HeldBy(r, j) /\ row'[j].lease >= row[j].lease
         \/ ~HeldBy(r, j) /\ row[j].state = "queued" /\ row'[j].lease = Lease /\ enrolled[r]
<1>1. Seen(r, j)
  BY StepSeen
<1>2. enrolled'[r]
  BY DEF Gone
<1> QED BY <1>1, <1>2 DEF Seen, HeldBy, Ended

(* A step of the loop that is not about job j. *)
Elsewhere(r, j) ==
  \/ TakesWork(r) \/ ClaimEnds(r)
  \/ \E i \in Job \ {j} : \/ Begins(r, i) \/ Skips(r, i) \/ Starts(r, i) \/ Extends(r, i)
                          \/ Continues(r, i) \/ Loses(r, i) \/ Fails(r, i)

LEMMA ElsewhereFacts ==
  ASSUME TypeOK, NEW r \in Runner, NEW j \in Job, Elsewhere(r, j)
  PROVE  /\ ~About(r, j) /\ ~About(r, j)'
         /\ held'[r][j] = held[r][j] /\ left'[r][j] = left[r][j] /\ beat'[r][j] = beat[r][j]
         /\ j \in JobsOf(r)' <=> j \in JobsOf(r)
<1> DEFINE Goal == /\ ~About(r, j) /\ ~About(r, j)'
                   /\ held'[r][j] = held[r][j] /\ left'[r][j] = left[r][j]
                   /\ beat'[r][j] = beat[r][j]
<1>0. held[r] \in [Job -> {"no", "run", "end"}] /\ left[r] \in [Job -> 0 .. Lease] /\ beat[r] \in [Job -> 0 .. Beat]
  BY DEF TypeOK
<1>a. ASSUME NEW op, NEW i, Asks(r, op, i), i # j \/ op = "claim" PROVE ~About(r, j)'
  BY <1>a, SentFields DEF Asks, About, Op, Subject
<1>1. ASSUME NEW i \in Job \ {j}, Begins(r, i) PROVE Goal
  <2>1. PICK op \in {"beat", "logs", "finish"} : Asks(r, op, i)
    BY <1>1 DEF Begins
  <2>2. ~About(r, j)'
    BY <1>a, <2>1
  <2>3. ~About(r, j)
    BY <1>1 DEF Begins, About
  <2>4. held'[r][j] = held[r][j]
    BY <1>0, <1>1 DEF Begins
  <2> QED BY <1>1, <2>2, <2>3, <2>4 DEF Begins, Clocks
<1>2. ASSUME NEW i \in Job \ {j}, Skips(r, i) PROVE Goal
  BY <1>2 DEF Skips, About, Clocks
<1>b. ASSUME NEW n, Claims(r, n) PROVE ~About(r, j)'
  <2>1. CASE pc'[r] = "sleep"
    BY <2>1 DEF About
  <2>2. CASE Asks(r, "claim", NoJob)
    BY <1>a, <2>2
  <2> QED BY <1>b, <2>1, <2>2 DEF Claims
<1>3. ASSUME NEW i \in Job \ {j}, Starts(r, i) PROVE Goal
  <2>1. ~About(r, j) /\ ~About(r, j)'
    BY <1>3, <1>b DEF Starts, About, Claiming
  <2> QED BY <1>0, <1>3, <2>1 DEF Starts
<1>4. ASSUME NEW i \in Job \ {j}, Extends(r, i) \/ Loses(r, i) \/ Fails(r, i) PROVE Goal
  <2>1. ~About(r, j) /\ ~About(r, j)'
    BY <1>4 DEF Extends, Loses, Fails, About, Ready
  <2> QED BY <1>0, <1>4, <2>1 DEF Extends, Loses, Fails, Clocks
<1>5. ASSUME NEW i \in Job \ {j}, Continues(r, i) PROVE Goal
  <2>1. ~About(r, j)
    BY <1>5 DEF Continues, About
  <2>2. PICK op \in {"logs", "finish"} : Asks(r, op, i)
    BY <1>5 DEF Continues
  <2>3. ~About(r, j)'
    BY <1>a, <2>2
  <2> QED BY <1>5, <2>1, <2>3 DEF Continues, Clocks
<1>6. ASSUME TakesWork(r) PROVE Goal
  <2>1. ~About(r, j) /\ ~About(r, j)'
    BY <1>6, <1>b DEF TakesWork, About
  <2> QED BY <1>6, <2>1 DEF TakesWork, Waits, Clocks
<1>7. ASSUME ClaimEnds(r) PROVE Goal
  BY <1>7 DEF ClaimEnds, Claiming, About, Ready, Clocks
<1>8. Goal
  BY <1>1, <1>2, <1>3, <1>4, <1>5, <1>6, <1>7 DEF Elsewhere
<1> QED BY <1>8 DEF JobsOf

LEMMA LoopsOn ==
  ASSUME NEW r \in Runner, NEW j \in Job, Loops(r)
  PROVE  \/ Elsewhere(r, j)
         \/ Begins(r, j) \/ Skips(r, j) \/ Starts(r, j) \/ Extends(r, j)
         \/ Continues(r, j) \/ Loses(r, j) \/ Fails(r, j)
BY DEF Loops, Elsewhere

-----------------------------------------------------------------------------
(* A runner whose calls are all answered.  Its jobs are its own, it is not *)
(* told that one is not, and each is renewed in time: when its heartbeat   *)
(* is due the lease covers the wait for the runner and the call.           *)
Reserve == Lease - CallMax - Beat

HealthBudget == MaxJobs >= 1 /\ Lease > Beat + WaitMax + 2 * CallMax

Answers(r) ==
  (pc[r] = "call" /\ Op(r) \in {"beat", "logs"} /\ call[r].ans = "ok" /\ HeldBy(r, Subject(r))) =>
    row[Subject(r)].lease >= Lease - call[r].age

Owned(r) ==
  clean[r] /\ enrolled[r] => \A j \in JobsOf(r) : HeldBy(r, j) \/ row[j].state \in Ended

Denied(r) ==
  (/\ pc[r] = "call" /\ Op(r) # "claim" /\ clean[r]
   /\ call[r].ans = "notheld" \/ (Op(r) = "logs" /\ held[r][Subject(r)] = "run")) =>
    ~HeldBy(r, Subject(r))

Covered(r, j) ==
  /\ About(r, j) => row[j].lease > Spare(r)
  /\ ~About(r, j) /\ beat[r][j] > 0 => row[j].lease >= beat[r][j] + Reserve
  /\ ~About(r, j) /\ beat[r][j] = 0 =>
       \E w \in Nat : Soon(r, j, w) /\ row[j].lease > w + CallMax

InTime(r) == clean[r] => \A j \in JobsOf(r) : HeldBy(r, j) => Covered(r, j)

Care(r) == Answers(r) /\ Owned(r) /\ Denied(r) /\ InTime(r)

LEMMA HealthFacts ==
  ASSUME HealthBudget
  PROVE  /\ Roomy /\ WaitMax \in Nat \ {0} /\ Reserve \in Nat
         /\ Reserve > WaitMax + CallMax /\ Reserve = Lease - CallMax - Beat
         /\ Lease > 2 * CallMax
<1>1. MaxJobs - 1 \in Nat
  BY DEF HealthBudget
<1>2. Pair(MaxJobs - 1) \in Nat /\ Calls(MaxJobs - 1) \in Nat
  BY <1>1, PairFact, CallsFacts
<1>3. WaitMax \in Nat \ {0}
  BY <1>2 DEF WaitMax, Round, Nap
<1> QED BY <1>3 DEF HealthBudget, Roomy, Reserve

LEMMA CoveredFacts ==
  ASSUME TypeOK, HealthBudget, NEW r \in Runner, NEW j \in Job, Covered(r, j)
  PROVE  row[j].lease > 0
<1>1. beat[r][j] \in Nat /\ row[j].lease \in Nat /\ Spare(r) \in Nat
  BY AgeFacts, FieldFacts DEF TypeOK
<1> QED BY <1>1, HealthFacts DEF Covered

LEMMA LoopJobs ==
  ASSUME TypeOK, NEW r \in Runner, Loops(r), clean'[r], NEW j \in Job, j \in JobsOf(r)'
  PROVE  Starts(r, j) \/ (j \in JobsOf(r) /\ clean[r])
<1>0. clean[r] \in BOOLEAN
  BY DEF TypeOK
<1>1. ASSUME ~clean[r] PROVE FALSE
  <2>1. PICK i \in Job : Loses(r, i)
    BY <1>1 DEF Loops, Begins, Skips, Starts, Extends, Continues, Fails, TakesWork, ClaimEnds, Waits
  <2> QED BY <1>1, <2>1, JobsFacts DEF Loses
<1>2. ASSUME ~Starts(r, j) PROVE j \in JobsOf(r)
  <2>1. CASE Elsewhere(r, j)
    BY <2>1, ElsewhereFacts
  <2>2. CASE Begins(r, j)
    BY <2>2 DEF Begins, JobsOf
  <2>3. CASE Skips(r, j) \/ Extends(r, j) \/ Continues(r, j) \/ Fails(r, j)
    BY <2>3 DEF Skips, Extends, Continues, Fails, JobsOf
  <2>4. CASE Loses(r, j)
    BY <2>4, JobsFacts DEF Loses
  <2> QED BY <1>2, <2>1, <2>2, <2>3, <2>4, LoopsOn
<1> QED BY <1>1, <1>2

LEMMA AnswersStep ==
  ASSUME TypeOK, TypeOK', Timeless, NEW r \in Runner, Shape(r), Gone(r)', Answers(r), StepOf(r)
  PROVE  Answers(r)'
<1>0. Typed(r)
  BY ShapeTyped
<1>1. CASE Untouched(r)
  <2>1. /\ Op(r)' = Op(r) /\ Subject(r)' = Subject(r) /\ call'[r] = call[r] /\ pc'[r] = pc[r]
    BY <1>1 DEF Untouched, Op, Subject
  <2>2. ASSUME pc[r] = "call", Op(r) \in {"beat", "logs"}, call[r].ans = "ok",
               HeldBy(r, Subject(r))'
        PROVE  row'[Subject(r)].lease >= Lease - call[r].age
    <3>1. PICK j \in Job : j = Subject(r)
      BY <1>0, <2>2 DEF Typed
    <3>2. /\ row[j].lease \in Nat /\ row'[j].lease \in Nat /\ call[r].age \in Nat
      BY AgeFacts, FieldFacts DEF TypeOK
    <3>3. HeldBy(r, j)'
      BY <2>1, <2>2, <3>1 DEF HeldBy
    <3>4. \/ HeldBy(r, j) /\ row'[j].lease >= row[j].lease
          \/ row'[j].lease = Lease
      BY <3>3, HeldFacts
    <3>5. HeldBy(r, j) => row[j].lease >= Lease - call[r].age
      BY <2>2, <3>1 DEF Answers
    <3> QED BY <3>1, <3>2, <3>4, <3>5
  <2> QED BY <2>1, <2>2 DEF Answers
<1>2. CASE Hears(r)
  <2>1. /\ Op(r)' = Op(r) /\ call'[r].age \in 0 .. CallMax
        /\ Op(r) # "claim" => Subject(r)' = Subject(r)
    BY <1>0, <1>2, HearsFacts, AgeFacts
  <2>2. Op(r) \in {"beat", "logs"} /\ call'[r].ans = "ok" /\ HeldBy(r, Subject(r))' =>
          row'[Subject(r)].lease = Lease
    BY <1>0, <1>2, HearsFacts
  <2> QED BY <2>1, <2>2 DEF Answers
<1>3. CASE Dies(r) \/ Revives(r)
  BY <1>3 DEF Dies, Revives, Answers
<1>4. CASE Loops(r)
  <2>1. ASSUME NEW op, NEW i, Asks(r, op, i) PROVE Answers(r)'
    BY <2>1, SentFields DEF Asks, Answers
  <2>2. ASSUME NEW n, Claims(r, n) PROVE Answers(r)'
    BY <2>1, <2>2 DEF Claims, Answers
  <2>3. ASSUME NEW i \in Job, Begins(r, i) \/ Continues(r, i) PROVE Answers(r)'
    BY <2>1, <2>3 DEF Begins, Continues
  <2>4. CASE TakesWork(r) \/ \E i \in Job : Starts(r, i)
    BY <2>2, <2>4 DEF TakesWork, Starts
  <2>5. CASE ClaimEnds(r) \/ \E i \in Job : Skips(r, i) \/ Extends(r, i) \/ Loses(r, i) \/ Fails(r, i)
    BY <2>5 DEF ClaimEnds, Skips, Extends, Loses, Fails, Ready, Answers
  <2> QED BY <1>4, <2>3, <2>4, <2>5 DEF Loops
<1> QED BY <1>1, <1>2, <1>3, <1>4 DEF StepOf

LEMMA AnswersTick ==
  ASSUME TypeOK, Tick, Roomy, NEW r \in Runner, Shape(r), Answers(r)
  PROVE  Answers(r)'
<1>1. /\ Op(r)' = Op(r) /\ Subject(r)' = Subject(r) /\ call'[r].ans = call[r].ans
      /\ pc[r] = "call" <=> pc'[r] = "call"
      /\ pc[r] = "call" => call[r].age < CallMax /\ call'[r].age = call[r].age + 1
  BY CallTick
<1>2. Typed(r) /\ call[r].age \in 0 .. CallMax /\ Lease > CallMax
  BY AgeFacts, ShapeTyped, WaitFacts
<1>3. ASSUME pc[r] = "call", Op(r) \in {"beat", "logs"}, call[r].ans = "ok",
             HeldBy(r, Subject(r))'
      PROVE  row'[Subject(r)].lease >= Lease - call'[r].age
  <2>1. PICK j \in Job : j = Subject(r)
    BY <1>2, <1>3 DEF Typed
  <2>2. HeldBy(r, j)
    BY <1>1, <1>3, <2>1, RowTick DEF HeldBy
  <2>3. row[j].lease >= Lease - call[r].age
    BY <1>3, <2>1, <2>2 DEF Answers
  <2>4. row'[j].lease >= Lease - call'[r].age
    BY <1>1, <1>2, <1>3, <2>3, RowTick
  <2> QED BY <2>1, <2>4
<1> QED BY <1>1, <1>3 DEF Answers

LEMMA OwnedStep ==
  ASSUME TypeOK, TypeOK', Timeless, HealthBudget, NEW r \in Runner, Shape(r), Claimed(r),
         Owned(r), InTime(r), StepOf(r)
  PROVE  Owned(r)'
<1> SUFFICES ASSUME clean'[r], enrolled'[r], NEW j \in Job, j \in JobsOf(r)'
             PROVE  HeldBy(r, j)' \/ row'[j].state \in Ended
  BY DEF Owned, JobsOf
<1>0. enrolled[r]
  BY Leaves DEF Timeless
<1>1. CASE Untouched(r) \/ Hears(r)
  <2>1. clean[r] /\ j \in JobsOf(r)
    BY <1>1, HearsFacts, ShapeTyped DEF Untouched, Waits, JobsOf
  <2>2. HeldBy(r, j) \/ row[j].state \in Ended
    BY <1>0, <2>1 DEF Owned
  <2>3. HeldBy(r, j) => row[j].lease > 0 /\ row[j].lease \in Nat
    BY <2>1, CoveredFacts, FieldFacts DEF InTime, TypeOK
  <2> QED BY <2>2, <2>3, StepSeen DEF Seen
<1>2. CASE Dies(r) \/ Revives(r)
  BY <1>2 DEF Dies, Revives, Waits, Shape, JobsOf
<1>3. CASE Loops(r) /\ UNCHANGED <<row, enrolled>>
  <2>1. HeldBy(r, j) \/ row[j].state \in Ended
    BY <1>0, <1>3, LoopJobs DEF Owned, Claimed, Starts
  <2> QED BY <1>3, <2>1 DEF HeldBy
<1> QED BY <1>1, <1>2, <1>3 DEF StepOf

LEMMA DeniedStep ==
  ASSUME TypeOK, TypeOK', Timeless, NEW r \in Runner, Shape(r), Shape(r)', Gone(r)',
         Owned(r), Denied(r), StepOf(r)
  PROVE  Denied(r)'
<1>0. Typed(r)
  BY ShapeTyped
<1>1. ASSUME NEW j \in JobsOf(r), clean[r], ~HeldBy(r, j) PROVE ~HeldBy(r, j)'
  <2>1. j \in Job /\ (enrolled[r] => row[j].state \in Ended)
    BY <1>1 DEF Owned, JobsOf
  <2> QED BY <1>1, <2>1, HeldFacts DEF Ended
<1>2. CASE Untouched(r)
  <2>1. /\ Op(r)' = Op(r) /\ Subject(r)' = Subject(r) /\ call'[r] = call[r] /\ pc'[r] = pc[r]
        /\ held'[r] = held[r] /\ clean'[r] = clean[r]
    BY <1>2 DEF Untouched, Op, Subject
  <2>2. ASSUME pc[r] = "call", Op(r) # "claim", clean[r], ~HeldBy(r, Subject(r))
        PROVE  ~HeldBy(r, Subject(r))'
    <3>1. Subject(r) \in JobsOf(r)
      BY <2>2 DEF Shape
    <3>2. PICK j \in JobsOf(r) : j = Subject(r)
      BY <3>1
    <3>3. ~HeldBy(r, j)'
      BY <1>1, <2>2, <3>2
    <3> QED BY <2>1, <3>2, <3>3 DEF HeldBy
  <2> QED BY <2>1, <2>2 DEF Denied
<1>3. CASE Hears(r)
  <2>1. /\ Op(r)' = Op(r) /\ held'[r] = held[r] /\ clean'[r] = clean[r] /\ pc[r] = "call"
        /\ Op(r) # "claim" => Subject(r)' = Subject(r)
        /\ Op(r) \in {"beat", "logs", "finish"} /\ call'[r].ans = "notheld" =>
             ~HeldBy(r, Subject(r)) /\ row' = row
    BY <1>0, <1>3, HearsFacts DEF Waits
  <2>2. ASSUME Op(r) # "claim", clean[r]
        PROVE  /\ Subject(r) \in JobsOf(r) /\ Op(r) \in {"beat", "logs", "finish"}
               /\ ~HeldBy(r, Subject(r)) => ~HeldBy(r, Subject(r))'
    <3>1. Subject(r) \in JobsOf(r) /\ Op(r) \in {"beat", "logs", "finish"}
      BY <2>1, <2>2 DEF Shape
    <3>2. PICK j \in JobsOf(r) : j = Subject(r)
      BY <3>1
    <3>3. ~HeldBy(r, j) => ~HeldBy(r, j)'
      BY <1>1, <2>2, <3>2
    <3> QED BY <2>1, <2>2, <3>1, <3>2, <3>3 DEF HeldBy
  <2> QED BY <2>1, <2>2 DEF Denied
<1>4. CASE Dies(r) \/ Revives(r)
  BY <1>4 DEF Dies, Revives, Denied
<1>5. CASE Loops(r) /\ UNCHANGED <<row, enrolled>>
  <2>1. ASSUME NEW op, NEW i, Asks(r, op, i)
        PROVE  Op(r)' = op /\ Subject(r)' = i /\ call'[r].ans = "none"
    BY <2>1, SentFields DEF Asks, Op, Subject
  <2>2. ASSUME NEW n, Claims(r, n) PROVE Denied(r)'
    BY <2>1, <2>2 DEF Claims, Denied
  <2>3. ASSUME NEW i \in Job, Begins(r, i) PROVE Denied(r)'
    <3>1. CASE Asks(r, "logs", i) /\ held'[r] = [held[r] EXCEPT ![i] = "end"]
      <4>1. held'[r][i] = "end"
        BY <3>1 DEF TypeOK
      <4> QED BY <2>1, <3>1, <4>1 DEF Denied
    <3>2. CASE Asks(r, "finish", i) \/ Asks(r, "beat", i)
      BY <2>1, <3>2 DEF Denied
    <3> QED BY <2>3, <3>1, <3>2 DEF Begins
  <2>4. ASSUME NEW i \in Job, Continues(r, i) PROVE Denied(r)'
    <3>1. CASE Asks(r, "finish", i)
      BY <2>1, <3>1 DEF Denied
    <3>2. CASE /\ Op(r) = "beat" /\ call[r].ans = "notheld" /\ Asks(r, "logs", i)
               /\ clean'[r] = clean[r]
      <4>1. clean[r] => ~HeldBy(r, i)
        BY <2>4, <3>2 DEF Continues, About, Denied
      <4> QED BY <1>5, <2>1, <3>2, <4>1 DEF Denied, HeldBy
    <3> QED BY <2>4, <3>1, <3>2 DEF Continues
  <2>5. CASE TakesWork(r) \/ \E i \in Job : Starts(r, i)
    BY <2>2, <2>5 DEF TakesWork, Starts
  <2>6. CASE ClaimEnds(r) \/ \E i \in Job : Skips(r, i) \/ Extends(r, i) \/ Loses(r, i) \/ Fails(r, i)
    BY <2>6 DEF ClaimEnds, Skips, Extends, Loses, Fails, Ready, Denied
  <2> QED BY <1>5, <2>3, <2>4, <2>5, <2>6 DEF Loops
<1> QED BY <1>2, <1>3, <1>4, <1>5 DEF StepOf

(* The clocks of a job whose lease was just renewed or given. *)
LEMMA CoveredFresh ==
  ASSUME HealthBudget, NEW r \in Runner, NEW j \in Job, TypeOK', Shape(r)', j \in JobsOf(r)',
         Prompt(r)', ~About(r, j)', NEW a \in 0 .. CallMax, row'[j].lease >= Lease - a,
         beat'[r][j] = Minus(Beat, a)
  PROVE  Covered(r, j)'
<1>1. row'[j].lease \in Nat /\ beat'[r][j] \in Nat
  BY FieldFacts DEF TypeOK
<1>2. CASE beat'[r][j] > 0
  <2>1. beat'[r][j] = Beat - a
    BY <1>2 DEF Minus
  <2>2. row'[j].lease >= beat'[r][j] + Reserve
    BY <1>1, <2>1, HealthFacts
  <2> QED BY <1>2, <2>2 DEF Covered
<1>3. CASE beat'[r][j] = 0
  <2>1. PICK w \in Nat : w = WaitMax
    BY HealthFacts
  <2>2. Soon(r, j, w)'
    BY <2>1 DEF Prompt
  <2>3. row'[j].lease > w + CallMax
    BY <1>1, <2>1, HealthFacts
  <2> QED BY <1>3, <2>2, <2>3 DEF Covered
<1> QED BY <1>1, <1>2, <1>3

LEMMA InTimeIdle ==
  ASSUME TypeOK, TypeOK', Timeless, HealthBudget, NEW r \in Runner, Shape(r), Gone(r)',
         Owned(r), InTime(r), Untouched(r) \/ Hears(r)
  PROVE  InTime(r)'
<1> SUFFICES ASSUME clean'[r], NEW j \in Job, j \in JobsOf(r)', HeldBy(r, j)'
             PROVE  Covered(r, j)'
  BY DEF InTime, JobsOf
<1>1. clean[r] /\ j \in JobsOf(r) /\ beat'[r] = beat[r]
  <2>1. Typed(r)
    BY ShapeTyped
  <2>2. CASE Untouched(r)
    BY <2>2 DEF Untouched, Clocks, JobsOf
  <2>3. CASE Hears(r)
    BY <2>1, <2>3, HearsFacts DEF Waits, Clocks, JobsOf
  <2> QED BY <2>2, <2>3
<1>2. HeldBy(r, j) /\ row'[j].lease >= row[j].lease
  BY <1>1, HeldFacts DEF Owned, Ended
<1>3. About(r, j)' = About(r, j) /\ Spare(r)' = Spare(r)
  BY HearsFacts, ShapeTyped DEF Untouched, About, Op, Subject, Spare
<1>4. Covered(r, j)
  BY <1>1, <1>2 DEF InTime
<1>5. /\ row[j].lease \in Nat /\ row'[j].lease \in Nat /\ Spare(r) \in Nat /\ beat[r][j] \in Nat
      /\ Reserve \in Nat
  BY AgeFacts, FieldFacts, HealthFacts DEF TypeOK
<1>6. CASE About(r, j)
  BY <1>2, <1>3, <1>4, <1>5, <1>6 DEF Covered
<1>7. CASE ~About(r, j) /\ beat[r][j] > 0
  BY <1>1, <1>2, <1>3, <1>4, <1>5, <1>7 DEF Covered
<1>8. CASE ~About(r, j) /\ beat[r][j] = 0
  <2>1. PICK w \in Nat : Soon(r, j, w) /\ row[j].lease > w + CallMax
    BY <1>4, <1>8 DEF Covered
  <2>2. Soon(r, j, w)'
    BY <2>1, SoonIdle, SoonHears
  <2>3. row'[j].lease > w + CallMax
    BY <1>2, <1>5, <2>1
  <2> QED BY <1>1, <1>3, <1>8, <2>2, <2>3 DEF Covered
<1> QED BY <1>5, <1>6, <1>7, <1>8

LEMMA InTimeLoops ==
  ASSUME TypeOK, TypeOK', HealthBudget, NEW r \in Runner, Shape(r), Shape(r)', Gone(r),
         Claimed(r), Prompt(r)', Care(r), Loops(r), UNCHANGED <<row, enrolled>>
  PROVE  InTime(r)'
<1> SUFFICES ASSUME clean'[r], NEW j \in Job, j \in JobsOf(r)', HeldBy(r, j)'
             PROVE  Covered(r, j)'
  BY DEF InTime, JobsOf
<1>0. HeldBy(r, j) /\ enrolled[r] /\ row' = row
  BY DEF HeldBy, Gone
<1>1. /\ row[j].lease \in Nat /\ Spare(r) \in Nat /\ beat[r][j] \in Nat /\ Reserve \in Nat
      /\ call[r].age \in 0 .. CallMax /\ beat[r] \in [Job -> 0 .. Beat]
      /\ Reserve > WaitMax + CallMax /\ WaitMax \in Nat /\ Roomy /\ Lease > 2 * CallMax
  BY AgeFacts, FieldFacts, HealthFacts DEF TypeOK
<1>a. ASSUME NEW op \in {"beat", "logs", "finish"}, Asks(r, op, j)
      PROVE  About(r, j)' /\ Spare(r)' = CallMax
  BY <1>a, SentFields DEF Asks, About, Op, Subject, Spare
<1>2. CASE Starts(r, j)
  <2>1. row[j].lease >= Lease - call[r].age
    BY <1>0, <1>2 DEF Starts, Claimed, HeldBy, Ended
  <2>2. ~About(r, j)'
    <3>1. CASE pc'[r] = "sleep"
      BY <3>1 DEF About
    <3>2. CASE Asks(r, "claim", NoJob)
      BY <3>2, SentFields DEF Asks, About, Op
    <3> QED BY <1>2, <3>1, <3>2 DEF Starts, Claims
  <2>3. beat'[r][j] = Beat
    BY <1>1, <1>2 DEF Starts
  <2>4. PICK a \in 0 .. CallMax : a = call[r].age
    BY <1>1
  <2>5. CASE Beat > 0
    BY <1>0, <1>1, <2>1, <2>2, <2>3, <2>5 DEF Covered, Reserve
  <2>6. CASE Beat = 0
    BY <1>0, <2>1, <2>2, <2>3, <2>4, <2>6, CoveredFresh DEF Minus
  <2> QED BY <2>5, <2>6
<1>3. CASE ~Starts(r, j)
  <2>0. j \in JobsOf(r) /\ clean[r]
    BY <1>3, LoopJobs
  <2>1. Covered(r, j)
    BY <1>0, <2>0 DEF Care, InTime
  <2>2. CASE Elsewhere(r, j)
    <3>1. /\ ~About(r, j) /\ ~About(r, j)' /\ beat'[r][j] = beat[r][j]
      BY <2>2, ElsewhereFacts
    <3>2. CASE beat[r][j] > 0
      BY <1>0, <2>1, <3>1, <3>2 DEF Covered, Reserve
    <3>3. CASE beat[r][j] = 0
      <4>1. PICK w \in Nat : Soon(r, j, w) /\ row[j].lease > w + CallMax
        BY <2>1, <3>1, <3>3 DEF Covered
      <4>2. Soon(r, j, w)'
        <5>1. ~Skips(r, j)
          BY <3>3 DEF Skips
        <5> QED BY <1>1, <1>3, <2>0, <3>1, <4>1, <5>1, SoonLoops
      <4> QED BY <1>0, <3>1, <3>3, <4>1, <4>2 DEF Covered
    <3> QED BY <1>1, <3>2, <3>3
  <2>3. CASE Begins(r, j)
    <3>1. About(r, j)' /\ Spare(r)' = CallMax
      BY <1>a, <2>3 DEF Begins
    <3>2. ~About(r, j)
      BY <2>3 DEF Begins, About
    <3>3. row[j].lease > CallMax
      BY <1>1, <2>1, <3>2 DEF Covered
    <3> QED BY <1>0, <3>1, <3>3 DEF Covered
  <2>4. CASE Skips(r, j)
    <3>1. ~About(r, j) /\ ~About(r, j)' /\ beat'[r][j] = beat[r][j] /\ beat[r][j] > 0
      BY <2>4 DEF Skips, About, Clocks
    <3> QED BY <1>0, <1>1, <2>1, <3>1 DEF Covered, Reserve
  <2>5. CASE Extends(r, j)
    <3>1. row[j].lease >= Lease - call[r].age
      BY <1>0, <2>5 DEF Extends, About, Care, Answers
    <3>2. beat'[r][j] = Minus(Beat, call[r].age)
      BY <1>1, <2>5 DEF Extends
    <3>3. ~About(r, j)'
      BY <2>5 DEF Extends, Ready, About
    <3>4. PICK a \in 0 .. CallMax : a = call[r].age
      BY <1>1
    <3> QED BY <1>0, <3>1, <3>2, <3>3, <3>4, CoveredFresh
  <2>6. CASE Continues(r, j)
    <3>1. About(r, j)' /\ Spare(r)' = CallMax
      BY <1>a, <2>6 DEF Continues
    <3>2. ~(Op(r) = "beat" /\ call[r].ans = "notheld")
      BY <1>0, <2>0, <2>6 DEF Continues, About, Care, Denied
    <3>3. Op(r) = "logs" /\ call[r].ans = "ok"
      BY <2>6, <3>2 DEF Continues
    <3>4. row[j].lease >= Lease - call[r].age
      BY <1>0, <2>6, <3>3 DEF Continues, About, Care, Answers
    <3>5. row[j].lease > CallMax
      BY <1>1, <3>4
    <3> QED BY <1>0, <3>1, <3>5 DEF Covered
  <2>7. CASE Loses(r, j)
    BY <2>7, JobsFacts DEF Loses
  <2>8. CASE Fails(r, j)
    BY <2>8 DEF Fails
  <2> QED BY <1>3, <2>2, <2>3, <2>4, <2>5, <2>6, <2>7, <2>8, LoopsOn
<1> QED BY <1>2, <1>3

LEMMA CareStep ==
  ASSUME Base, TypeOK', Timeless, HealthBudget, NEW r \in Runner, Care(r)
  PROVE  Care(r)'
<1>0. /\ TypeOK /\ Shape(r) /\ Claimed(r) /\ Gone(r) /\ Roomy
      /\ Answers(r) /\ Owned(r) /\ Denied(r) /\ InTime(r)
  BY HealthFacts DEF Base, Care
<1>1. StepOf(r) /\ Shape(r)' /\ Prompt(r)' /\ Gone(r)'
  BY <1>0, BaseTimeless
<1>2. Answers(r)'
  BY <1>0, <1>1, AnswersStep
<1>3. Owned(r)'
  BY <1>0, <1>1, OwnedStep
<1>4. Denied(r)'
  BY <1>0, <1>1, DeniedStep
<1>5. InTime(r)'
  <2>1. CASE Untouched(r) \/ Hears(r)
    BY <1>0, <1>1, <2>1, InTimeIdle
  <2>2. CASE Loops(r) /\ UNCHANGED <<row, enrolled>>
    BY <1>0, <1>1, <2>2, InTimeLoops
  <2>3. CASE Dies(r) \/ Revives(r)
    BY <1>0, <2>3 DEF Dies, Revives, Waits, Shape, InTime, JobsOf
  <2> QED BY <1>1, <2>1, <2>2, <2>3 DEF StepOf
<1> QED BY <1>2, <1>3, <1>4, <1>5 DEF Care

LEMMA CareTick ==
  ASSUME Base, TypeOK', Tick, HealthBudget, NEW r \in Runner, Care(r)
  PROVE  Care(r)'
<1>0. /\ TypeOK /\ Shape(r) /\ Prompt(r) /\ Roomy
      /\ Answers(r) /\ Owned(r) /\ Denied(r) /\ InTime(r)
  BY HealthFacts DEF Base, Care
<1>1. Shape(r)' /\ Prompt(r)'
  BY <1>0, BaseTick
<1>2. /\ enrolled' = enrolled /\ clean' = clean /\ held' = held /\ JobsOf(r)' = JobsOf(r)
  BY DEF Tick, JobsOf
<1>3. /\ Op(r)' = Op(r) /\ Subject(r)' = Subject(r) /\ call'[r].ans = call[r].ans
      /\ pc[r] = "call" <=> pc'[r] = "call"
      /\ pc[r] = "call" => call[r].age < CallMax /\ call'[r].age = call[r].age + 1
  BY <1>0, CallTick
<1>4. \A j \in Job : /\ row'[j].state = row[j].state /\ HeldBy(r, j)' = HeldBy(r, j)
                     /\ row[j].lease \in Nat
                     /\ row'[j].lease = IF row[j].lease > 0 THEN row[j].lease - 1 ELSE 0
  BY <1>0, RowTick DEF HeldBy
<1>5. ASSUME NEW j \in Job, pc[r] = "call", Subject(r) = j
      PROVE  HeldBy(r, Subject(r))' = HeldBy(r, Subject(r))
  BY <1>3, <1>4, <1>5 DEF HeldBy
<1>6. Typed(r) /\ call[r].age \in 0 .. CallMax
  BY <1>0, AgeFacts, ShapeTyped
<1>7. Answers(r)'
  BY <1>0, AnswersTick
<1>8. Owned(r)'
  BY <1>0, <1>2, <1>4 DEF Owned, JobsOf
<1>9. Denied(r)'
  <2>1. ASSUME pc[r] = "call", Op(r) # "claim"
        PROVE  HeldBy(r, Subject(r))' = HeldBy(r, Subject(r))
    BY <1>5, <1>6, <2>1 DEF Typed
  <2> QED BY <1>0, <1>2, <1>3, <2>1 DEF Denied
<1>10. InTime(r)'
  <2> SUFFICES ASSUME clean[r], NEW j \in Job, j \in JobsOf(r), HeldBy(r, j)
               PROVE  Covered(r, j)'
    BY <1>2, <1>4 DEF InTime, JobsOf
  <2>1. Covered(r, j) /\ row[j].lease \in Nat /\ row[j].lease > 0 /\ row'[j].lease = row[j].lease - 1
    BY <1>0, <1>4, CoveredFacts DEF InTime
  <2>2. About(r, j)' = About(r, j)
    BY <1>3 DEF About
  <2>3. beat'[r][j] = Minus(beat[r][j], 1) /\ beat[r][j] \in Nat
    BY <1>0 DEF Tick, TypeOK
  <2>4. CASE About(r, j)
    <3>1. Spare(r)' = Spare(r) - 1 /\ Spare(r) \in Nat
      BY <1>0, <1>3, <1>6, <2>4, AgeFacts DEF Spare, About
    <3> QED BY <2>1, <2>2, <2>4, <3>1 DEF Covered
  <2>5. CASE ~About(r, j) /\ beat[r][j] > 1
    BY <2>1, <2>2, <2>3, <2>5, HealthFacts DEF Covered, Minus
  <2>6. CASE ~About(r, j) /\ beat[r][j] = 1
    <3>1. beat'[r][j] = 0
      BY <2>3, <2>6 DEF Minus
    <3>2. PICK w \in Nat : w = WaitMax
      BY HealthFacts
    <3>3. Soon(r, j, w)'
      BY <1>1, <1>2, <2>2, <2>6, <3>2 DEF Prompt
    <3>4. row'[j].lease > w + CallMax
      BY <2>1, <2>6, <3>2, HealthFacts DEF Covered
    <3> QED BY <2>2, <2>6, <3>1, <3>3, <3>4 DEF Covered
  <2>7. CASE ~About(r, j) /\ beat[r][j] = 0
    <3>1. PICK w \in Nat : Soon(r, j, w) /\ row[j].lease > w + CallMax
      BY <2>1, <2>7 DEF Covered
    <3>2. w > 0 /\ Soon(r, j, w - 1)'
      BY <1>0, <1>1, <3>1, SoonTick
    <3>3. PICK v \in Nat : v = w - 1
      BY <3>2
    <3>4. Soon(r, j, v)' /\ row'[j].lease > v + CallMax /\ beat'[r][j] = 0
      BY <2>1, <2>3, <2>7, <3>1, <3>2, <3>3 DEF Minus
    <3> QED BY <2>2, <2>7, <3>4 DEF Covered
  <2> QED BY <2>3, <2>4, <2>5, <2>6, <2>7
<1> QED BY <1>7, <1>8, <1>9, <1>10 DEF Care

(* A runner whose calls are all answered, however slowly, keeps the lease  *)
(* of every job it holds, for any number of jobs and runners and whatever  *)
(* the others do, if a lease covers the period of the heartbeats, the      *)
(* longest wait for the runner and two calls.                              *)
THEOREM HealthyKeepsJobs == HealthBudget => (Spec => []HealthyKeeps)
<1> SUFFICES ASSUME HealthBudget PROVE Spec => []HealthyKeeps
  OBVIOUS
<1> DEFINE Inv == Base /\ \A r \in Runner : Care(r)
<1>1. Init => Inv
  <2> SUFFICES ASSUME Init PROVE Inv
    OBVIOUS
  <2>1. ASSUME NEW r \in Runner PROVE Care(r)
    BY DEF Init, Care, Answers, Owned, Denied, InTime, JobsOf
  <2> QED BY <2>1, BaseInit
<1>2. Inv /\ TypeOK' /\ [Next]_vars => Inv'
  <2> SUFFICES ASSUME Inv, TypeOK', [Next]_vars PROVE Inv'
    OBVIOUS
  <2>1. ASSUME NEW r \in Runner, Timeless
        PROVE  Shape(r)' /\ Claimed(r)' /\ Prompt(r)' /\ Gone(r)' /\ Care(r)'
    BY <2>1, BaseTimeless, CareStep, HealthFacts
  <2>2. ASSUME NEW r \in Runner, Tick
        PROVE  Shape(r)' /\ Claimed(r)' /\ Prompt(r)' /\ Gone(r)' /\ Care(r)'
    BY <2>2, BaseTick, CareTick, HealthFacts
  <2> QED BY <2>1, <2>2 DEF Base, Timeless
<1>3. Inv => HealthyKeeps
  <2> SUFFICES ASSUME Inv, NEW r \in Runner, NEW j \in Job,
                      HeldBy(r, j), held[r][j] # "no", clean[r]
               PROVE  row[j].lease > 0
    BY DEF HealthyKeeps
  <2>1. Covered(r, j)
    BY DEF Care, InTime, JobsOf
  <2> QED BY <2>1, CoveredFacts DEF Base
<1> QED BY <1>1, <1>2, <1>3, TypeCorrect, PTL DEF Spec

-----------------------------------------------------------------------------
(* Two runners on one job.  A runner that has lost a job goes on with it   *)
(* until a call about it is answered, or fails when lease_until had passed *)
(* before it.  lease_until is at most a call later than the lease was.     *)
Runs(r, j) == enrolled[r] /\ held[r][j] = "run"

(* The job is not r's, and it cannot be that r has just been given it.     *)
Apart(r, j) == ~HeldBy(r, j) /\ (row[j].runner # r \/ row[j].state \notin Ended)

(* How soon r stops, once the job is no longer its own. *)
Stops(r, j, n) ==
  /\ About(r, j) /\ Op(r) = "logs" => n >= Spare(r)
  /\ About(r, j) /\ Op(r) = "beat" =>
       /\ call[r].ans # "ok"
       /\ late[r] => n >= Spare(r) + CallMax
       /\ ~late[r] /\ left[r][j] = 0 => n >= Spare(r) + WaitMax + 2 * CallMax
       /\ left[r][j] > 0 => n + 1 >= left[r][j] + WaitMax + 3 * CallMax
  /\ ~About(r, j) /\ left[r][j] = 0 => \E w \in Nat : Soon(r, j, w) /\ n >= w + 2 * CallMax
  /\ ~About(r, j) /\ left[r][j] > 0 => n + 1 >= left[r][j] + WaitMax + 3 * CallMax

StopMax == WaitMax + 4 * CallMax - 1

OverlapBudget == Roomy /\ CallMax >= 1 /\ Beat <= Lease /\ MaxOverlap >= StopMax

(* The clocks of a job that the runner has: the heartbeat comes before     *)
(* lease_until.                                                            *)
Clocked(r) ==
  \A j \in Job :
    /\ held[r][j] = "run" => beat[r][j] <= left[r][j]
    /\ About(r, j) /\ late[r] => left[r][j] = 0
    /\ Runs(r, j) /\ HeldBy(r, j) => left[r][j] <= row[j].lease + CallMax

Stale(r) ==
  \A j \in Job : Runs(r, j) /\ ~HeldBy(r, j) /\ row[j].state \notin Ended => Stops(r, j, StopMax)

(* All but the last to be given the job stop in time. *)
Others(j) ==
  /\ over[j] <= MaxOverlap
  /\ \E x \in Runner \cup {NoRunner} :
       /\ row[j].runner \in {x, NoRunner}
       /\ \A r \in Runner \ {x} : Runs(r, j) =>
            \E n \in Nat : Stops(r, j, n) /\ over[j] + n <= MaxOverlap

LEMMA OverlapFacts ==
  ASSUME OverlapBudget
  PROVE  /\ Roomy /\ CallMax \in Nat \ {0} /\ WaitMax \in Nat \ {0} /\ StopMax \in Nat
         /\ StopMax = WaitMax + 4 * CallMax - 1 /\ MaxOverlap >= StopMax
         /\ Beat <= Lease /\ Lease > 2 * CallMax
<1>1. Roomy /\ CallMax \in Nat \ {0} /\ WaitMax \in Nat \ {0} /\ Lease > WaitMax + 2 * CallMax
  BY WaitFacts DEF OverlapBudget
<1>2. StopMax \in Nat /\ StopMax = WaitMax + 4 * CallMax - 1
  BY <1>1 DEF StopMax
<1> QED BY <1>1, <1>2 DEF OverlapBudget

LEMMA CountFacts ==
  ASSUME TypeOK, NEW r \in Runner, NEW j \in Job
  PROVE  /\ left[r][j] \in 0 .. Lease /\ beat[r][j] \in 0 .. Beat
         /\ row[j].lease \in 0 .. Lease /\ row[j] \in Row /\ over[j] \in Nat
         /\ held[r][j] \in {"no", "run", "end"} /\ Spare(r) \in Nat
         /\ call[r].age \in 0 .. CallMax
         /\ left[r] \in [Job -> 0 .. Lease] /\ beat[r] \in [Job -> 0 .. Beat]
         /\ held[r] \in [Job -> {"no", "run", "end"}]
<1>1. row[j] \in Row /\ over[j] \in Nat
  BY DEF TypeOK
<1>2. row[j].lease \in 0 .. Lease
  BY <1>1, FieldFacts
<1>3. /\ left[r] \in [Job -> 0 .. Lease] /\ beat[r] \in [Job -> 0 .. Beat]
      /\ held[r] \in [Job -> {"no", "run", "end"}]
  BY DEF TypeOK
<1>4. call[r].age \in 0 .. CallMax /\ Spare(r) \in Nat
  BY AgeFacts
<1> QED BY <1>1, <1>2, <1>3, <1>4

(* A heartbeat is answered with success only for a job that is held. *)
LEMMA BeatHeard ==
  ASSUME TypeOK, NEW r \in Runner, Typed(r), Hears(r), Op(r) = "beat", call'[r].ans = "ok"
  PROVE  HeldBy(r, Subject(r)) /\ HeldBy(r, Subject(r))'
<1>1. PICK k \in Job \cup {NoJob} :
        Executed(r, call[r].req, "ok", k) /\ call'[r] = Exchange(Op(r), k, call[r].age, "ok")
  <2>1. ~ call'[r] = Exchange(Op(r), Subject(r), call[r].age, "error")
    BY ExchangeFields
  <2>2. PICK ans \in Answer, k \in Job \cup {NoJob} :
          /\ Executed(r, call[r].req, ans, k)
          /\ call'[r] = Exchange(Op(r), k, call[r].age, ans)
    BY <2>1 DEF Hears
  <2>3. ans = "ok"
    BY <2>2, ExchangeFields
  <2> QED BY <2>2, <2>3
<1>2. k = Subject(r) /\ HeldBy(r, k) /\ Renew(k)
  BY <1>1 DEF Executed, Op, Subject
<1>3. Subject(r) \in Job /\ Subject(r)' = Subject(r)
  BY HearsFacts DEF Hears, Typed
<1>4. row'[k] = Entry(row[k].state, row[k].runner, row[k].attempts, Lease, row[k].ttl)
  BY <1>2, <1>3 DEF Renew, TypeOK
<1> QED BY <1>2, <1>3, <1>4, EntryFields DEF HeldBy

(* The clocks, step by step. *)
LEMMA ClockedStep ==
  ASSUME TypeOK, TypeOK', Timeless, OverlapBudget, NEW r \in Runner, Shape(r), Claimed(r),
         Gone(r)', Answers(r), Clocked(r), StepOf(r)
  PROVE  Clocked(r)'
<1> SUFFICES ASSUME NEW j \in Job
             PROVE  /\ held'[r][j] = "run" => beat'[r][j] <= left'[r][j]
                    /\ About(r, j)' /\ late'[r] => left'[r][j] = 0
                    /\ Runs(r, j)' /\ HeldBy(r, j)' => left'[r][j] <= row'[j].lease + CallMax
  BY DEF Clocked
<1>1. /\ held[r][j] = "run" => beat[r][j] <= left[r][j]
      /\ About(r, j) /\ late[r] => left[r][j] = 0
      /\ Runs(r, j) /\ HeldBy(r, j) => left[r][j] <= row[j].lease + CallMax
  BY DEF Clocked
<1>2. /\ left[r][j] \in 0 .. Lease /\ beat[r][j] \in 0 .. Beat
      /\ row[j].lease \in 0 .. Lease /\ row'[j].lease \in 0 .. Lease
      /\ call[r].age \in 0 .. CallMax
      /\ left[r] \in [Job -> 0 .. Lease] /\ beat[r] \in [Job -> 0 .. Beat]
      /\ held[r] \in [Job -> {"no", "run", "end"}]
  <2>1. row'[j] \in Row
    BY DEF TypeOK
  <2> QED BY <2>1, CountFacts, FieldFacts
<1>3. enrolled'[r] => enrolled[r]
  BY Leaves DEF Timeless
<1>4. ASSUME held'[r][j] = held[r][j], left'[r][j] = left[r][j], beat'[r][j] = beat[r][j],
             About(r, j)' /\ late'[r] => left[r][j] = 0
      PROVE  /\ held'[r][j] = "run" => beat'[r][j] <= left'[r][j]
             /\ About(r, j)' /\ late'[r] => left'[r][j] = 0
             /\ Runs(r, j)' /\ HeldBy(r, j)' => left'[r][j] <= row'[j].lease + CallMax
  <2>1. ASSUME Runs(r, j)', HeldBy(r, j)' PROVE left[r][j] <= row'[j].lease + CallMax
    <3>1. Runs(r, j)
      BY <1>3, <1>4, <2>1 DEF Runs
    <3>2. \/ HeldBy(r, j) /\ row'[j].lease >= row[j].lease
          \/ row'[j].lease = Lease
      BY <2>1, HeldFacts
    <3> QED BY <1>1, <1>2, <3>1, <3>2
  <2> QED BY <1>1, <1>4, <2>1
<1>5. CASE Untouched(r)
  BY <1>1, <1>4, <1>5 DEF Untouched, About, Op, Subject
<1>6. CASE Hears(r)
  <2>1. /\ held'[r][j] = held[r][j] /\ left'[r][j] = left[r][j] /\ beat'[r][j] = beat[r][j]
        /\ late'[r] = late[r] /\ About(r, j)' = About(r, j)
    <3>1. Typed(r)
      BY ShapeTyped
    <3> QED BY <1>6, <3>1, HearsFacts DEF Waits, Clocks, About
  <2> QED BY <1>1, <1>4, <2>1
<1>7. CASE Dies(r) \/ Revives(r)
  BY <1>1, <1>4, <1>7 DEF Dies, Revives, Waits, Clocks, About, Runs
<1>8. CASE Loops(r) /\ row' = row /\ enrolled' = enrolled
  <2>0. HeldBy(r, j)' = HeldBy(r, j)
    BY <1>8 DEF HeldBy
  <2>1. CASE Elsewhere(r, j)
    BY <1>4, <2>1, ElsewhereFacts
  <2>2. CASE Begins(r, j)
    <3>1. left'[r] = left[r] /\ beat'[r] = beat[r] /\ late'[r] = (left[r][j] = 0)
      BY <2>2 DEF Begins, Clocks
    <3>2. held'[r][j] = "run" => held[r][j] = "run"
      BY <1>2, <2>2 DEF Begins
    <3> QED BY <1>1, <1>8, <2>0, <3>1, <3>2 DEF Runs
  <2>3. CASE Skips(r, j)
    BY <1>4, <2>3 DEF Skips, Clocks, About
  <2>4. CASE Starts(r, j)
    <3>1. left'[r][j] = Lease /\ beat'[r][j] = Beat
      BY <1>2, <2>4 DEF Starts
    <3>2. ~About(r, j)'
      <4>1. ASSUME Asks(r, "claim", NoJob) PROVE ~About(r, j)'
        BY <4>1, SentFields DEF Asks, About, Op
      <4> QED BY <2>4, <4>1 DEF Starts, Claims, About
    <3>3. ASSUME enrolled[r], HeldBy(r, j) PROVE Lease <= row[j].lease + CallMax
      BY <1>2, <2>4, <3>3 DEF Starts, Claimed, HeldBy, Ended
    <3> QED BY <1>8, <2>0, <3>1, <3>2, <3>3, OverlapFacts DEF Runs
  <2>5. CASE Extends(r, j)
    <3>1. left'[r][j] = Minus(Lease, call[r].age) /\ beat'[r][j] = Minus(Beat, call[r].age)
      BY <1>2, <2>5 DEF Extends
    <3>2. ~About(r, j)'
      BY <2>5 DEF Extends, Ready, About
    <3>3. beat'[r][j] <= left'[r][j]
      BY <1>2, <3>1, OverlapFacts DEF Minus
    <3>4. ASSUME HeldBy(r, j) PROVE left'[r][j] <= row[j].lease + CallMax
      <4>1. row[j].lease >= Lease - call[r].age
        BY <2>5, <3>4 DEF Extends, About, Answers
      <4> QED BY <1>2, <3>1, <4>1 DEF Minus
    <3> QED BY <1>8, <2>0, <3>2, <3>3, <3>4
  <2>6. CASE Continues(r, j)
    BY <1>1, <1>4, <2>6 DEF Continues, Clocks
  <2>7. CASE Loses(r, j)
    BY <1>2, <2>7 DEF Loses, Ready, About, Runs
  <2>8. CASE Fails(r, j)
    BY <1>4, <2>8 DEF Fails, Ready, About, Clocks
  <2> QED BY <1>8, <2>1, <2>2, <2>3, <2>4, <2>5, <2>6, <2>7, <2>8, LoopsOn
<1> QED BY <1>5, <1>6, <1>7, <1>8 DEF StepOf

LEMMA ClockedTick ==
  ASSUME TypeOK, Tick, NEW r \in Runner, Clocked(r)
  PROVE  Clocked(r)'
<1> SUFFICES ASSUME NEW j \in Job
             PROVE  /\ held'[r][j] = "run" => beat'[r][j] <= left'[r][j]
                    /\ About(r, j)' /\ late'[r] => left'[r][j] = 0
                    /\ Runs(r, j)' /\ HeldBy(r, j)' => left'[r][j] <= row'[j].lease + CallMax
  BY DEF Clocked
<1>1. /\ held'[r][j] = held[r][j] /\ late'[r] = late[r] /\ Runs(r, j)' = Runs(r, j)
      /\ left'[r][j] = Minus(left[r][j], 1) /\ beat'[r][j] = Minus(beat[r][j], 1)
  BY DEF Tick, Runs
<1>2. About(r, j)' = About(r, j) /\ HeldBy(r, j)' = HeldBy(r, j)
  BY CallTick, RowTick DEF About, HeldBy
<1>3. row'[j].lease = IF row[j].lease > 0 THEN row[j].lease - 1 ELSE 0
  BY RowTick
<1> QED BY <1>1, <1>2, <1>3, CountFacts DEF Clocked, Minus

(* A runner that has lost a job stops as soon as before. *)
LEMMA StopsIdle ==
  ASSUME TypeOK, TypeOK', Timeless, OverlapBudget, NEW r \in Runner, NEW j \in Job, NEW n \in Nat,
         Shape(r), Runs(r, j), Stops(r, j, n), Apart(r, j), Untouched(r) \/ Hears(r)
  PROVE  Stops(r, j, n)'
<1>1. Typed(r)
  BY ShapeTyped
<1>2. /\ left'[r] = left[r] /\ late'[r] = late[r] /\ Op(r)' = Op(r)
      /\ About(r, j)' = About(r, j) /\ Spare(r)' = Spare(r)
  <2>1. CASE Untouched(r)
    BY <2>1 DEF Untouched, About, Op, Subject, Spare
  <2>2. CASE Hears(r)
    BY <1>1, <2>2, HearsFacts DEF Waits, Clocks, About, Spare
  <2> QED BY <2>1, <2>2
<1>3. CASE About(r, j)
  <2>1. Op(r) = "beat" => call'[r].ans # "ok"
    <3>1. CASE Untouched(r)
      BY <1>3, <3>1 DEF Untouched, Stops
    <3>2. CASE Hears(r)
      BY <1>1, <1>3, <3>2, BeatHeard DEF About, Apart
    <3> QED BY <3>1, <3>2
  <2> QED BY <1>2, <1>3, <2>1 DEF Stops
<1>4. CASE ~About(r, j) /\ left[r][j] = 0
  <2>1. PICK w \in Nat : Soon(r, j, w) /\ n >= w + 2 * CallMax
    BY <1>4 DEF Stops
  <2>2. Soon(r, j, w)'
    BY <2>1, SoonIdle, SoonHears
  <2> QED BY <1>2, <1>4, <2>1, <2>2 DEF Stops
<1>5. CASE ~About(r, j) /\ left[r][j] # 0
  <2>1. left[r][j] > 0
    BY <1>5, CountFacts
  <2> QED BY <1>2, <1>5, <2>1 DEF Stops
<1> QED BY <1>3, <1>4, <1>5

LEMMA StopsLoops ==
  ASSUME TypeOK, TypeOK', OverlapBudget, NEW r \in Runner, NEW j \in Job, NEW n \in Nat,
         Shape(r), Shape(r)', Claimed(r), Clocked(r), Prompt(r)',
         Apart(r, j), Loops(r), UNCHANGED <<row, enrolled>>,
         Runs(r, j) => Stops(r, j, n), Runs(r, j)'
  PROVE  Runs(r, j) /\ Stops(r, j, n)'
<1>0. /\ left[r][j] \in Nat /\ Spare(r) \in Nat /\ n \in Nat /\ CallMax \in Nat \ {0}
      /\ WaitMax \in Nat \ {0} /\ Roomy /\ enrolled[r]
      /\ held[r] \in [Job -> {"no", "run", "end"}]
  BY CountFacts, OverlapFacts DEF Runs
<1>1. ~Starts(r, j)
  BY <1>0 DEF Starts, Claimed, Apart, Claiming
<1>2. held[r][j] = "run"
  <2>1. CASE Elsewhere(r, j)
    BY <2>1, ElsewhereFacts DEF Runs
  <2>2. CASE \/ Begins(r, j) \/ Skips(r, j) \/ Extends(r, j)
             \/ Continues(r, j) \/ Loses(r, j) \/ Fails(r, j)
    BY <1>0, <2>2 DEF Begins, Skips, Extends, Continues, Loses, Fails, Runs
  <2> QED BY <1>1, <2>1, <2>2, LoopsOn
<1>3. Runs(r, j) /\ Stops(r, j, n)
  BY <1>0, <1>2 DEF Runs
<1> SUFFICES Stops(r, j, n)'
  BY <1>3
<1>4. j \in JobsOf(r) /\ j \in JobsOf(r)'
  BY <1>2 DEF JobsOf, Runs
<1>a. ASSUME NEW op \in {"beat", "logs", "finish"}, Asks(r, op, j)
      PROVE  About(r, j)' /\ Spare(r)' = CallMax /\ Op(r)' = op /\ call'[r].ans = "none"
  BY <1>a, SentFields DEF Asks, About, Op, Subject, Spare
<1>b. ASSUME ~About(r, j)', left'[r][j] = 0, n >= WaitMax + 2 * CallMax PROVE Stops(r, j, n)'
  <2>1. PICK w \in Nat : w = WaitMax
    BY <1>0
  <2>2. Soon(r, j, w)'
    BY <1>4, <1>b, <2>1 DEF Prompt
  <2> QED BY <1>b, <2>1, <2>2 DEF Stops
<1>5. CASE Elsewhere(r, j)
  <2>1. ~About(r, j) /\ ~About(r, j)' /\ left'[r][j] = left[r][j]
    BY <1>5, ElsewhereFacts
  <2>2. CASE left[r][j] = 0
    <3>1. PICK w \in Nat : Soon(r, j, w) /\ n >= w + 2 * CallMax
      BY <1>3, <2>1, <2>2 DEF Stops
    <3>2. ~Skips(r, j)
      BY <1>0, <1>2, <2>2, CountFacts DEF Skips, Clocked
    <3>3. Soon(r, j, w)'
      BY <1>0, <1>1, <1>4, <2>1, <3>1, <3>2, SoonLoops
    <3> QED BY <2>1, <2>2, <3>1, <3>3 DEF Stops
  <2>3. CASE left[r][j] > 0
    BY <1>3, <2>1, <2>3 DEF Stops
  <2> QED BY <1>0, <1>3, <2>2, <2>3
<1>6. CASE Begins(r, j)
  <2>1. Asks(r, "beat", j) /\ late'[r] = (left[r][j] = 0) /\ left'[r] = left[r] /\ ~About(r, j)
    BY <1>0, <1>2, <1>6 DEF Begins, Clocks, Runs, About
  <2>2. About(r, j)' /\ Spare(r)' = CallMax /\ Op(r)' = "beat" /\ call'[r].ans = "none"
    BY <1>a, <2>1
  <2>3. CASE left[r][j] = 0
    <3>1. n >= CallMax + CallMax
      BY <1>0, <1>3, <2>1, <2>3 DEF Stops
    <3>2. late'[r] /\ left'[r][j] = 0
      BY <2>1, <2>3
    <3> QED BY <1>0, <2>2, <3>1, <3>2 DEF Stops
  <2>4. CASE left[r][j] > 0
    <3>1. left'[r][j] > 0 /\ n + 1 >= left'[r][j] + WaitMax + 3 * CallMax
      BY <1>0, <1>3, <2>1, <2>4 DEF Stops
    <3>2. left[r][j] # 0
      BY <1>0, <2>4
    <3>3. ~late'[r]
      BY <2>1, <3>2, Zenon
    <3> QED BY <1>0, <2>2, <3>1, <3>3 DEF Stops
  <2> QED BY <1>0, <1>3, <2>3, <2>4
<1>7. CASE Skips(r, j)
  <2>1. ~About(r, j) /\ ~About(r, j)' /\ left'[r] = left[r]
    BY <1>7 DEF Skips, About, Clocks
  <2>2. left[r][j] > 0
    BY <1>2, <1>7, CountFacts DEF Skips, Clocked
  <2> QED BY <1>3, <2>1, <2>2 DEF Stops
<1>8. CASE Extends(r, j)
  BY <1>3, <1>8 DEF Extends, Stops
<1>9. CASE Continues(r, j)
  <2>1. Asks(r, "logs", j) /\ Op(r) = "beat" /\ About(r, j)
    BY <1>2, <1>9 DEF Continues
  <2>2. About(r, j)' /\ Spare(r)' = CallMax /\ Op(r)' = "logs"
    BY <1>a, <2>1
  <2>3. n >= CallMax
    BY <1>0, <1>3, <2>1 DEF Stops
  <2> QED BY <2>2, <2>3 DEF Stops
<1>10. CASE Loses(r, j)
  BY <1>0, <1>10 DEF Loses, Runs
<1>11. CASE Fails(r, j)
  <2>1. /\ About(r, j) /\ Op(r) = "beat" /\ ~late[r] /\ ~About(r, j)' /\ left'[r] = left[r]
    <3>1. Op(r) # "finish"
      BY <1>2, <1>11 DEF Fails, About, Shape, Subject
    <3> QED BY <1>11, <3>1 DEF Fails, Ready, About, Clocks
  <2>2. CASE left[r][j] = 0
    <3>1. n >= WaitMax + 2 * CallMax
      BY <1>0, <1>3, <2>1, <2>2 DEF Stops
    <3> QED BY <1>b, <2>1, <2>2, <3>1
  <2>3. CASE left[r][j] > 0
    BY <1>3, <2>1, <2>3 DEF Stops
  <2> QED BY <1>0, <1>3, <2>2, <2>3
<1> QED BY <1>1, <1>3, <1>5, <1>6, <1>7, <1>8, <1>9, <1>10, <1>11, LoopsOn

LEMMA StopsStep ==
  ASSUME Base, TypeOK', Timeless, OverlapBudget, NEW r \in Runner, NEW j \in Job, NEW n \in Nat,
         Clocked(r), Apart(r, j), Runs(r, j) => Stops(r, j, n), Runs(r, j)'
  PROVE  Runs(r, j) /\ Stops(r, j, n)'
<1>0. TypeOK /\ Shape(r) /\ Claimed(r) /\ Roomy /\ Typed(r) /\ enrolled[r]
  BY ShapeTyped, OverlapFacts, Leaves DEF Base, Timeless, Runs
<1>1. StepOf(r) /\ Shape(r)' /\ Prompt(r)'
  BY <1>0, BaseTimeless
<1>2. CASE Untouched(r) \/ Hears(r)
  <2>1. held'[r] = held[r]
    BY <1>0, <1>2, HearsFacts DEF Untouched, Waits
  <2>2. Runs(r, j)
    BY <1>0, <2>1 DEF Runs
  <2> QED BY <1>0, <1>2, <2>2, StopsIdle
<1>3. CASE Loops(r) /\ UNCHANGED <<row, enrolled>>
  BY <1>0, <1>1, <1>3, StopsLoops
<1>4. CASE Dies(r) \/ Revives(r)
  BY <1>0, <1>4 DEF Dies, Revives, Waits, Shape, JobsOf, Runs
<1> QED BY <1>1, <1>2, <1>3, <1>4 DEF StepOf

LEMMA StopsTick ==
  ASSUME Base, TypeOK', Tick, OverlapBudget, NEW r \in Runner, NEW j \in Job, NEW n \in Nat,
         Runs(r, j), Stops(r, j, n)
  PROVE  n > 0 /\ Stops(r, j, n - 1)'
<1>0. /\ TypeOK /\ Shape(r) /\ Roomy /\ n \in Nat /\ CallMax \in Nat \ {0}
      /\ WaitMax \in Nat \ {0} /\ left[r][j] \in Nat /\ Spare(r) \in Nat
  BY OverlapFacts, CountFacts DEF Base
<1>1. Shape(r)' /\ Prompt(r)' /\ j \in JobsOf(r) /\ j \in JobsOf(r)'
  BY <1>0, BaseTick DEF Tick, JobsOf, Runs
<1>2. /\ Op(r)' = Op(r) /\ call'[r].ans = call[r].ans /\ late'[r] = late[r]
      /\ About(r, j)' = About(r, j)
      /\ About(r, j) => Spare(r) > 0 /\ Spare(r)' = Spare(r) - 1
      /\ left'[r][j] = IF left[r][j] > 0 THEN left[r][j] - 1 ELSE 0
  <2>1. late'[r] = late[r] /\ left'[r][j] = Minus(left[r][j], 1)
    BY DEF Tick
  <2>2. About(r, j) => Spare(r) > 0 /\ Spare(r)' = Spare(r) - 1
    BY <1>0, CallTick, CountFacts DEF About, Spare
  <2> QED BY <1>0, <2>1, <2>2, CallTick DEF Minus, About
<1>3. CASE About(r, j) /\ Op(r) = "logs"
  BY <1>0, <1>2, <1>3 DEF Stops
<1>4. CASE About(r, j) /\ Op(r) = "beat"
  <2>1. CASE left[r][j] > 1
    BY <1>0, <1>2, <1>4, <2>1 DEF Stops
  <2>2. CASE left[r][j] = 1
    <3>1. n + 1 >= 1 + WaitMax + 3 * CallMax
      BY <1>0, <1>4, <2>2 DEF Stops
    <3>2. Spare(r)' <= CallMax - 1
      BY <1>0, <1>2, <1>4, CountFacts DEF Spare
    <3> QED BY <1>0, <1>2, <1>4, <2>2, <3>1, <3>2 DEF Stops
  <2>3. CASE left[r][j] = 0
    BY <1>0, <1>2, <1>4, <2>3 DEF Stops
  <2> QED BY <1>0, <2>1, <2>2, <2>3
<1>5. CASE About(r, j) /\ Op(r) \notin {"logs", "beat"}
  <2>1. held[r][j] = "end"
    BY <1>0, <1>5 DEF Shape, About
  <2> QED BY <2>1 DEF Runs
<1>6. CASE ~About(r, j) /\ left[r][j] > 1
  BY <1>0, <1>2, <1>6 DEF Stops
<1>7. CASE ~About(r, j) /\ left[r][j] = 1
  <2>1. n >= 1 + WaitMax + 2 * CallMax
    BY <1>0, <1>7 DEF Stops
  <2>2. PICK w \in Nat : w = WaitMax
    BY <1>0
  <2>3. Soon(r, j, w)'
    BY <1>1, <1>2, <1>7, <2>2 DEF Prompt
  <2> QED BY <1>0, <1>2, <1>7, <2>1, <2>2, <2>3 DEF Stops
<1>8. CASE ~About(r, j) /\ left[r][j] = 0
  <2>1. PICK w \in Nat : Soon(r, j, w) /\ n >= w + 2 * CallMax
    BY <1>8 DEF Stops
  <2>2. w > 0 /\ Soon(r, j, w - 1)'
    BY <1>0, <1>1, <2>1, SoonTick
  <2>3. PICK v \in Nat : v = w - 1
    BY <2>2
  <2>4. Soon(r, j, v)' /\ n - 1 >= v + 2 * CallMax /\ n > 0
    BY <1>0, <2>1, <2>2, <2>3
  <2> QED BY <1>2, <1>8, <2>4 DEF Stops
<1> QED BY <1>0, <1>3, <1>4, <1>5, <1>6, <1>7, <1>8

(* More time is enough too. *)
LEMMA StopsMore ==
  ASSUME TypeOK, OverlapBudget, NEW r \in Runner, NEW j \in Job, NEW n \in Nat, NEW m \in Nat,
         n <= m, Stops(r, j, n)
  PROVE  Stops(r, j, m)
<1>1. left[r][j] \in Nat /\ Spare(r) \in Nat /\ CallMax \in Nat /\ WaitMax \in Nat
  BY OverlapFacts, CountFacts
<1> QED BY <1>1 DEF Stops

LEMMA StopsMoreNext ==
  ASSUME OverlapBudget, NEW r \in Runner, NEW j \in Job, NEW n \in Nat, NEW m \in Nat, n <= m
  PROVE  (TypeOK /\ Stops(r, j, n) => Stops(r, j, m))'
<1>1. TypeOK /\ Stops(r, j, n) => Stops(r, j, m)
  BY StopsMore
<1> QED BY <1>1, PTL

(* When the lease is over: the runner stops within StopMax. *)
LEMMA StopsAtLast ==
  ASSUME TypeOK, OverlapBudget, NEW r \in Runner, NEW j \in Job, Shape(r), Prompt(r), Runs(r, j),
         About(r, j) /\ Op(r) = "beat" => call[r].ans # "ok", left[r][j] <= CallMax
  PROVE  Stops(r, j, StopMax)
<1>1. /\ CallMax \in Nat \ {0} /\ WaitMax \in Nat \ {0} /\ left[r][j] \in Nat
      /\ Spare(r) \in Nat /\ Spare(r) <= CallMax /\ StopMax = WaitMax + 4 * CallMax - 1
  BY OverlapFacts, CountFacts DEF Spare
<1>2. CASE About(r, j)
  <2>1. /\ StopMax >= Spare(r) + CallMax /\ StopMax >= Spare(r)
        /\ StopMax >= Spare(r) + WaitMax + 2 * CallMax
        /\ StopMax + 1 >= left[r][j] + WaitMax + 3 * CallMax
    BY <1>1
  <2> QED BY <1>2, <2>1 DEF Stops
<1>3. CASE ~About(r, j) /\ left[r][j] > 0
  BY <1>1, <1>3 DEF Stops
<1>4. CASE ~About(r, j) /\ left[r][j] = 0
  <2>1. Soon(r, j, WaitMax)
    BY <1>4 DEF Prompt, JobsOf, Runs
  <2> QED BY <1>1, <1>4, <2>1 DEF Stops
<1> QED BY <1>1, <1>2, <1>3, <1>4

LEMMA AtLastNext ==
  ASSUME OverlapBudget, NEW r \in Runner, NEW j \in Job
  PROVE  (TypeOK /\ Shape(r) /\ Prompt(r) /\ Runs(r, j) /\ left[r][j] <= CallMax
          /\ ~(About(r, j) /\ Op(r) = "beat" /\ call[r].ans = "ok") => Stops(r, j, StopMax))'
<1>1. TypeOK /\ Shape(r) /\ Prompt(r) /\ Runs(r, j) /\ left[r][j] <= CallMax
      /\ ~(About(r, j) /\ Op(r) = "beat" /\ call[r].ans = "ok") => Stops(r, j, StopMax)
  BY StopsAtLast
<1> QED BY <1>1, PTL

LEMMA StaleStep ==
  ASSUME Base, TypeOK', Timeless, OverlapBudget, NEW r \in Runner, Clocked(r), Answers(r), Stale(r)
  PROVE  Stale(r)'
<1> SUFFICES ASSUME NEW j \in Job, Runs(r, j)', ~HeldBy(r, j)', row'[j].state \notin Ended
             PROVE  Stops(r, j, StopMax)'
  BY DEF Stale
<1>0. /\ TypeOK /\ Shape(r) /\ Claimed(r) /\ Roomy /\ Typed(r) /\ enrolled[r]
      /\ StopMax \in Nat /\ Seen(r, j) /\ enrolled'[r]
  BY ShapeTyped, OverlapFacts, Leaves, StepSeen DEF Base, Timeless, Runs
<1>1. StepOf(r) /\ Shape(r)' /\ Prompt(r)'
  BY <1>0, BaseTimeless
<1>2. row[j].state \notin Ended
  BY <1>0 DEF Seen
<1>3. CASE ~HeldBy(r, j)
  <2>1. PICK n \in Nat : n = StopMax
    BY <1>0
  <2>2. Runs(r, j) => Stops(r, j, n)
    BY <1>2, <1>3, <2>1 DEF Stale
  <2>3. Apart(r, j)
    BY <1>2, <1>3 DEF Apart
  <2>4. Stops(r, j, n)'
    BY <2>2, <2>3, StopsStep
  <2> QED BY <2>1, <2>4
<1>4. CASE HeldBy(r, j)
  <2>1. row[j].lease = 0 /\ row'[j].state = "queued"
    BY <1>0, <1>4 DEF Seen
  <2>2. Untouched(r) \/ Hears(r)
    <3>1. CASE row' = row
      BY <1>4, <2>1, <3>1 DEF HeldBy
    <3> QED BY <1>1, <3>1 DEF StepOf
  <2>3. held'[r] = held[r] /\ left'[r] = left[r] /\ About(r, j)' = About(r, j) /\ Op(r)' = Op(r)
    <3>1. CASE Untouched(r)
      BY <3>1 DEF Untouched, About, Op, Subject
    <3>2. CASE Hears(r)
      BY <1>0, <3>2, HearsFacts DEF Waits, Clocks, About
    <3> QED BY <2>2, <3>1, <3>2
  <2>4. left'[r][j] <= CallMax
    <3>1. Runs(r, j)
      BY <1>0, <2>3 DEF Runs
    <3>2. left[r][j] <= row[j].lease + CallMax
      BY <1>4, <3>1 DEF Clocked
    <3> QED BY <2>1, <2>3, <3>2
  <2>5. ASSUME About(r, j), Op(r) = "beat" PROVE call'[r].ans # "ok"
    <3>1. CASE Untouched(r)
      <4>1. ASSUME call[r].ans = "ok" PROVE FALSE
        <5>1. 0 >= Lease - call[r].age
          BY <1>4, <2>1, <2>5, <4>1 DEF Answers, About
        <5> QED BY <1>0, <5>1, OverlapFacts, CountFacts
      <4> QED BY <3>1, <4>1 DEF Untouched
    <3>2. CASE Hears(r)
      <4>1. Subject(r)' = j
        BY <2>3, <2>5 DEF About
      <4>2. call'[r].ans = "ok" => HeldBy(r, j)'
        BY <1>0, <2>5, <3>2, <4>1, BeatHeard DEF HeldBy, About
      <4> QED BY <4>2
    <3> QED BY <2>2, <3>1, <3>2
  <2> QED BY <1>1, <2>3, <2>4, <2>5, AtLastNext
<1> QED BY <1>3, <1>4

LEMMA StaleTick ==
  ASSUME Base, TypeOK', Tick, OverlapBudget, NEW r \in Runner, Stale(r)
  PROVE  Stale(r)'
<1> SUFFICES ASSUME NEW j \in Job, Runs(r, j)', ~HeldBy(r, j)', row'[j].state \notin Ended
             PROVE  Stops(r, j, StopMax)'
  BY DEF Stale
<1>1. TypeOK /\ StopMax \in Nat
  BY OverlapFacts DEF Base
<1>2. Runs(r, j) /\ ~HeldBy(r, j) /\ row[j].state \notin Ended
  BY <1>1, RowTick DEF Tick, Runs, HeldBy
<1>3. PICK n \in Nat : n = StopMax
  BY <1>1
<1>4. n > 0 /\ Stops(r, j, n - 1)'
  BY <1>2, <1>3, StopsTick DEF Stale
<1>5. PICK m \in Nat : m = n - 1
  BY <1>4
<1>6. m <= n
  BY <1>5
<1> QED BY <1>3, <1>4, <1>5, <1>6, StopsMoreNext

(* The time two runners have worked on a job is counted afresh whenever it *)
(* is given to one, and the others stop in what is left.                   *)
LEMMA OthersStep ==
  ASSUME Base, TypeOK', Timeless, OverlapBudget, NEW j \in Job, Others(j),
         \A r \in Runner : Clocked(r) /\ Stale(r)
  PROVE  Others(j)'
<1>0. /\ TypeOK /\ over[j] \in Nat /\ StopMax \in Nat /\ MaxOverlap \in Nat
      /\ MaxOverlap >= StopMax /\ row[j].runner \in Runner \cup {NoRunner}
      /\ row'[j].runner \in Runner \cup {NoRunner}
  <2>1. row[j] \in Row /\ row'[j] \in Row /\ over[j] \in Nat
    BY DEF Base, TypeOK
  <2> QED BY <2>1, FieldFacts, OverlapFacts DEF Base
<1>1. Moves(j)
  BY <1>0, StepMoves
<1>2. PICK x \in Runner \cup {NoRunner} :
        /\ row[j].runner \in {x, NoRunner}
        /\ \A r \in Runner \ {x} : Runs(r, j) =>
             \E n \in Nat : Stops(r, j, n) /\ over[j] + n <= MaxOverlap
  BY DEF Others
<1>3. CASE row[j].state = "queued" /\ over'[j] = 0
  <2>1. ASSUME NEW r \in Runner, Runs(r, j)'
        PROVE  \E n \in Nat : Stops(r, j, n)' /\ over'[j] + n <= MaxOverlap
    <3>1. PICK n \in Nat : n = StopMax
      BY <1>0
    <3>2. ~HeldBy(r, j) /\ row[j].state \notin Ended
      BY <1>3 DEF HeldBy, Ended
    <3>3. Stops(r, j, n)'
      BY <2>1, <3>1, <3>2, StopsStep DEF Stale, Apart
    <3> QED BY <1>0, <1>3, <3>1, <3>3
  <2>2. row'[j].runner \in {row'[j].runner, NoRunner}
    OBVIOUS
  <2> QED BY <1>0, <1>3, <2>1, <2>2 DEF Others
<1>4. CASE row'[j].runner \in {row[j].runner, NoRunner}
  <2>1. over'[j] \in Nat /\ over'[j] <= over[j]
    BY <1>0, <1>1 DEF Moves
  <2>2. ASSUME NEW r \in Runner \ {x}, Runs(r, j)'
        PROVE  \E n \in Nat : Stops(r, j, n)' /\ over'[j] + n <= MaxOverlap
    <3>1. row[j].runner # r
      BY <1>2
    <3>2. Apart(r, j)
      BY <3>1 DEF Apart, HeldBy
    <3>3. CASE Runs(r, j)
      <4>1. PICK n \in Nat : Stops(r, j, n) /\ over[j] + n <= MaxOverlap
        BY <1>2, <3>3
      <4>2. Stops(r, j, n)'
        BY <2>2, <3>2, <4>1, StopsStep
      <4> QED BY <1>0, <2>1, <4>1, <4>2
    <3>4. CASE ~Runs(r, j)
      <4>1. PICK n \in Nat : n = 0
        OBVIOUS
      <4>2. Runs(r, j) => Stops(r, j, n)
        BY <3>4
      <4>3. Runs(r, j)
        BY <2>2, <3>2, <4>2, StopsStep
      <4> QED BY <3>4, <4>3
    <3> QED BY <3>3, <3>4
  <2>3. over'[j] <= MaxOverlap
    BY <1>0, <2>1 DEF Others
  <2>4. row'[j].runner \in {x, NoRunner}
    BY <1>2, <1>4
  <2> QED BY <2>2, <2>3, <2>4 DEF Others
<1> QED BY <1>1, <1>3, <1>4 DEF Moves, MovesRow

LEMMA OthersTick ==
  ASSUME Base, TypeOK', Tick, OverlapBudget, NEW j \in Job, Others(j)
  PROVE  Others(j)'
<1>0. TypeOK /\ over[j] \in Nat /\ MaxOverlap \in Nat
  BY OverlapFacts DEF Base, TypeOK
<1>1. over'[j] = IF ~Shared(j) THEN 0 ELSE IF over[j] > MaxOverlap THEN over[j] ELSE over[j] + 1
  BY DEF Tick
<1>2. row'[j].runner = row[j].runner
  BY <1>0, RowTick
<1>3. PICK x \in Runner \cup {NoRunner} :
        /\ row[j].runner \in {x, NoRunner}
        /\ \A r \in Runner \ {x} : Runs(r, j) =>
             \E n \in Nat : Stops(r, j, n) /\ over[j] + n <= MaxOverlap
  BY DEF Others
<1>4. over'[j] \in Nat /\ over'[j] <= over[j] + 1
  BY <1>0, <1>1 DEF Others
<1>5. ASSUME NEW r \in Runner \ {x}, Runs(r, j)
      PROVE  \E n \in Nat : Stops(r, j, n)' /\ over[j] + 1 + n <= MaxOverlap
  <2>1. PICK n \in Nat : Stops(r, j, n) /\ over[j] + n <= MaxOverlap
    BY <1>3, <1>5
  <2>2. n > 0 /\ Stops(r, j, n - 1)'
    BY <1>5, <2>1, StopsTick
  <2>3. PICK m \in Nat : m = n - 1
    BY <2>2
  <2> QED BY <1>0, <2>1, <2>2, <2>3
<1>6. ASSUME NEW r \in Runner \ {x}, Runs(r, j)'
      PROVE  \E n \in Nat : Stops(r, j, n)' /\ over'[j] + n <= MaxOverlap
  <2>1. Runs(r, j)
    BY <1>6 DEF Tick, Runs
  <2>2. PICK n \in Nat : Stops(r, j, n)' /\ over[j] + 1 + n <= MaxOverlap
    BY <1>5, <2>1
  <2> QED BY <1>0, <1>4, <2>2
<1>7. over'[j] <= MaxOverlap
  <2>1. CASE ~Shared(j)
    BY <1>0, <1>1, <2>1
  <2>2. CASE Shared(j)
    <3>1. PICK r \in Runner \ {x} : Works(r, j)
      BY <2>2 DEF Shared
    <3>2. \E n \in Nat : Stops(r, j, n)' /\ over[j] + 1 + n <= MaxOverlap
      BY <1>5, <3>1 DEF Works, Runs
    <3> QED BY <1>0, <1>4, <3>2
  <2> QED BY <2>1, <2>2
<1> QED BY <1>2, <1>3, <1>6, <1>7 DEF Others

(* However calls fail, and whatever happens to the runners and the reaper, *)
(* two runners do not work on a job for more than StopMax after it was     *)
(* given to the second, for any number of jobs and runners.                *)
THEOREM OverlapIsBrief == OverlapBudget => (Spec => []BriefOverlap)
<1> SUFFICES ASSUME OverlapBudget PROVE Spec => []BriefOverlap
  OBVIOUS
<1> DEFINE Inv == /\ Base /\ \A r \in Runner : Answers(r) /\ Clocked(r) /\ Stale(r)
                  /\ \A j \in Job : Others(j)
<1>1. ASSUME Init PROVE Inv
  <2>1. Base
    BY <1>1, BaseInit
  <2>2. ASSUME NEW r \in Runner
        PROVE  /\ Answers(r)
               /\ pc[r] = "sleep" /\ \A j \in Job : held[r][j] = "no"
    BY <1>1 DEF Init, Answers
  <2>3. ASSUME NEW r \in Runner PROVE Clocked(r) /\ Stale(r)
    BY <2>2 DEF Clocked, Stale, Runs, About
  <2>4. ASSUME NEW j \in Job PROVE Others(j)
    <3>1. over[j] = 0 /\ row[j].runner = NoRunner
      BY <1>1, EntryFields DEF Init
    <3>2. \A r \in Runner : ~Runs(r, j)
      BY <2>2 DEF Runs
    <3> QED BY <3>1, <3>2, OverlapFacts DEF Others
  <2> QED BY <2>1, <2>2, <2>3, <2>4
<1>2. Inv /\ TypeOK' /\ [Next]_vars => Inv'
  <2> SUFFICES ASSUME Inv, TypeOK', [Next]_vars PROVE Inv'
    OBVIOUS
  <2>0. Roomy /\ TypeOK /\ \A r \in Runner : Shape(r) /\ Claimed(r)
    BY OverlapFacts DEF Base
  <2>1. CASE Timeless
    <3>1. ASSUME NEW r \in Runner
          PROVE  /\ Shape(r)' /\ Claimed(r)' /\ Prompt(r)' /\ Gone(r)'
                 /\ Answers(r)' /\ Clocked(r)' /\ Stale(r)'
      <4>1. StepOf(r) /\ Shape(r)' /\ Claimed(r)' /\ Prompt(r)' /\ Gone(r)'
        BY <2>0, <2>1, BaseTimeless
      <4>2. Answers(r)'
        BY <2>0, <2>1, <4>1, AnswersStep
      <4>3. Clocked(r)'
        BY <2>0, <2>1, <4>1, ClockedStep
      <4>4. Stale(r)'
        BY <2>1, StaleStep
      <4> QED BY <4>1, <4>2, <4>3, <4>4
    <3>2. ASSUME NEW j \in Job PROVE Others(j)'
      BY <2>1, OthersStep
    <3> QED BY <3>1, <3>2 DEF Base
  <2>2. CASE Tick
    <3>1. ASSUME NEW r \in Runner
          PROVE  /\ Shape(r)' /\ Claimed(r)' /\ Prompt(r)' /\ Gone(r)'
                 /\ Answers(r)' /\ Clocked(r)' /\ Stale(r)'
      <4>1. Shape(r)' /\ Claimed(r)' /\ Prompt(r)' /\ Gone(r)'
        BY <2>0, <2>2, BaseTick
      <4>2. Answers(r)' /\ Clocked(r)'
        BY <2>0, <2>2, AnswersTick, ClockedTick
      <4>3. Stale(r)'
        BY <2>2, StaleTick
      <4> QED BY <4>1, <4>2, <4>3
    <3>2. ASSUME NEW j \in Job PROVE Others(j)'
      BY <2>2, OthersTick
    <3> QED BY <3>1, <3>2 DEF Base
  <2> QED BY <2>1, <2>2 DEF Timeless
<1>3. Inv => BriefOverlap
  BY DEF Others, BriefOverlap
<1> QED BY <1>1, <1>2, <1>3, TypeCorrect, PTL DEF Spec
=============================================================================
