----------------------------- MODULE RunnerJobs -----------------------------
(***************************************************************************)
(* Jobs and the runners that take them by lease: the rows of runner_jobs   *)
(* and their reaper (crates/pnex-backend services/runners.rs), and the     *)
(* loop of a runner (crates/pnex-runner lib.rs), which claims, starts a    *)
(* workload, renews the lease, reports the end, and destroys the workload  *)
(* of a job it has lost.                                                   *)
(*                                                                         *)
(* Any call may fail for the runner, before or after the server has        *)
(* executed it; a call it gave up may still be executed later.  Time is    *)
(* discrete: its unit is the timeout of a call (20 s), leases are kept as  *)
(* what is left of them.  One round of the runner (every 3 s) stands for   *)
(* all those of a unit.                                                    *)
(***************************************************************************)
EXTENDS Naturals, FiniteSets

CONSTANTS
  Job, Runner,
  MaxJobs,     \* workloads of a runner
  MaxAttempts, \* claims after which a lapsed job fails
  MaxClaims,   \* bound on the claims of a job, at least MaxAttempts
  Lease, Beat, \* lease of a job, period of its heartbeats
  CallMax,     \* timeout of a call
  QueueTtl,    \* how long a job may stay queued
  MaxOverlap,  \* how long two runners may work on a job
  Faulty,      \* runners that may crash, be deleted, or have a call delayed
  MaxFaults,   \* bound on crashes, delayed calls, failed destructions, runners deleted
               \* and rounds of the reaper that take time or are cut short
  NoRunner, NoJob

ASSUME TimeAssumption ==
  /\ Lease \in Nat \ {0} /\ Beat \in Nat /\ CallMax \in Nat
  /\ QueueTtl \in Nat \ {0} /\ MaxOverlap \in Nat
ASSUME BoundAssumption ==
  /\ MaxJobs \in Nat /\ MaxAttempts \in Nat /\ MaxClaims \in Nat /\ MaxFaults \in Nat
ASSUME NoneAssumption == NoRunner \notin Runner /\ NoJob \notin Job

VARIABLES
  row,      \* runner_jobs
  reap,     \* next statement of the reaper
  enrolled, \* the runner has a row, its token works
  pc,       \* where the loop of the runner is
  todo,     \* jobs to follow in this round
  held,     \* Runner::held, and what is left to do for the job
  left,     \* until lease_until
  beat,     \* until beat_at
  call,     \* the call under way
  late,     \* lease_until had passed when the job was looked at
  stray,    \* a call given up that the server may still execute
  pod,      \* workloads
  over,     \* history: how long two runners have worked on the job since it was claimed
  clean,    \* history: no call failed since the runner took the first of its jobs
  faults

runnerVars == <<pc, todo, held, left, beat, call, late, stray>>
histVars == <<over, clean, faults>>
vars == <<row, reap, enrolled, runnerVars, pod, histVars>>

(* "reported" is succeeded or failed as the runner says; "lapsed" and      *)
(* "stopped" are failed with the outcomes lease_expired and stopped.       *)
Ended == {"reported", "lapsed", "stopped", "expired"}

Row == [state : {"none", "queued", "running"} \cup Ended, runner : Runner \cup {NoRunner},
        attempts : 0 .. MaxClaims, lease : 0 .. Lease, ttl : 0 .. QueueTtl]

Entry(s, r, n, l, t) == [state |-> s, runner |-> r, attempts |-> n, lease |-> l, ttl |-> t]

Request == [op : {"none", "claim", "beat", "logs", "finish"}, job : Job \cup {NoJob}]
Answer == {"ok", "notheld", "error"}
Call == [req : Request, age : 0 .. CallMax, ans : Answer \cup {"none"}]

NoRequest == [op |-> "none", job |-> NoJob]
Exchange(op, j, a, ans) == [req |-> [op |-> op, job |-> j], age |-> a, ans |-> ans]
Sent(op, j) == Exchange(op, j, 0, "none")
NoCall == Sent("none", NoJob)

TypeOK ==
  /\ row \in [Job -> Row] /\ reap \in {"fail", "requeue"}
  /\ enrolled \in [Runner -> BOOLEAN]
  /\ pc \in [Runner -> {"down", "sleep", "follow", "call"}]
  /\ todo \in [Runner -> SUBSET Job]
  /\ held \in [Runner -> [Job -> {"no", "run", "end"}]]
  /\ left \in [Runner -> [Job -> 0 .. Lease]] /\ beat \in [Runner -> [Job -> 0 .. Beat]]
  /\ call \in [Runner -> Call] /\ late \in [Runner -> BOOLEAN]
  /\ stray \in [Runner -> Request]
  /\ pod \in [Runner -> [Job -> {"none", "running", "ended"}]]
  /\ over \in [Job -> Nat] /\ clean \in [Runner -> BOOLEAN] /\ faults \in 0 .. MaxFaults

Init ==
  /\ row = [j \in Job |-> Entry("none", NoRunner, 0, 0, 0)]
  /\ reap = "fail" /\ enrolled = [r \in Runner |-> TRUE]
  /\ pc = [r \in Runner |-> "sleep"] /\ todo = [r \in Runner |-> {}]
  /\ held = [r \in Runner |-> [j \in Job |-> "no"]]
  /\ left = [r \in Runner |-> [j \in Job |-> 0]] /\ beat = left
  /\ call = [r \in Runner |-> NoCall] /\ late = [r \in Runner |-> FALSE]
  /\ stray = [r \in Runner |-> NoRequest]
  /\ pod = [r \in Runner |-> [j \in Job |-> "none"]]
  /\ over = [j \in Job |-> 0] /\ clean = [r \in Runner |-> TRUE] /\ faults = 0

Fault == faults < MaxFaults /\ faults' = faults + 1

HeldBy(r, j) == row[j].state = "running" /\ row[j].runner = r

(* ttl does not matter any more *)
EndRow(w, s) == Entry(s, w.runner, w.attempts, 0, 0)

-----------------------------------------------------------------------------
(* The server. *)

Create(j) ==
  /\ row[j].state = "none"
  /\ row' = [row EXCEPT ![j] = Entry("queued", NoRunner, 0, 0, QueueTtl)]
  /\ UNCHANGED <<reap, enrolled, runnerVars, pod, histVars>>

(* Mutant: the row gets one heartbeat, and the runner is told the lease. *)
ClaimBriefly(r, j) ==
  /\ row[j].state = "queued" /\ row[j].ttl > 0 /\ row[j].attempts < MaxClaims
  /\ row' = [row EXCEPT ![j] = Entry("running", r, @.attempts + 1, Beat, @.ttl)]

Claim(r, j) ==
  /\ row[j].state = "queued" /\ row[j].ttl > 0 /\ row[j].attempts < MaxClaims
  /\ row' = [row EXCEPT ![j] = Entry("running", r, @.attempts + 1, Lease, @.ttl)]

(* A job that has nothing to run with is claimed, and failed at once. *)
Refuse(r, j) ==
  /\ row[j].state = "queued" /\ row[j].ttl > 0 /\ row[j].attempts < MaxClaims
  /\ row' = [row EXCEPT ![j] = Entry("reported", r, @.attempts + 1, 0, 0)]

Renew(j) == row' = [row EXCEPT ![j] = Entry(@.state, @.runner, @.attempts, Lease, @.ttl)]

(* may_send_logs, for a job that is not held *)
StoppedWith(r, j) == row[j].state = "stopped" /\ row[j].runner = r

Report(r, j, ans) == row' = [row EXCEPT ![j] = EndRow(@, "reported")] /\ ans = "ok"

(* Mutant: finish does not ask for a running job. *)
FinishAny(r, j, ans) ==
  IF row[j].runner = r THEN Report(r, j, ans) ELSE UNCHANGED row /\ ans = "notheld"

(* finish, after the lease of a job that is held was renewed: the request  *)
(* may end between the two.  A job already ended with this runner answers  *)
(* as if by it.                                                            *)
Finish(r, j, ans) ==
  IF HeldBy(r, j) THEN Report(r, j, ans) \/ (Renew(j) /\ ans = "error")
  ELSE /\ UNCHANGED row
       /\ ans = IF row[j].state \in {"reported", "lapsed", "stopped"} /\ row[j].runner = r
                THEN "ok" ELSE "notheld"

(* The server executes a request of r; k is the job it answers with.  A    *)
(* request that is refused, or a claim that gets no job, is one that fails.*)
Executed(r, q, ans, k) ==
  /\ enrolled[r]
  /\ \/ /\ q.op = "claim" /\ k \in Job
        /\ (Claim(r, k) /\ ans = "ok") \/ (Refuse(r, k) /\ ans = "error")
     \/ /\ q.op \in {"beat", "logs"} /\ k = q.job
        /\ IF HeldBy(r, k) THEN Renew(k) /\ ans = "ok"
           ELSE /\ UNCHANGED row
                /\ ans = IF q.op = "logs" /\ StoppedWith(r, k) THEN "ok" ELSE "notheld"
     \/ q.op = "finish" /\ k = q.job /\ Finish(r, k, ans)

(* Every claim counts afresh how long the runner before goes on. *)
Recounted ==
  over' = [j \in Job |-> IF row[j].attempts < row'[j].attempts THEN 0 ELSE over[j]]

Serve(r) ==
  /\ pc[r] = "call" /\ call[r].ans = "none"
  /\ \E ans \in Answer, k \in Job \cup {NoJob} :
       /\ Executed(r, call[r].req, ans, k)
       /\ call' = [call EXCEPT ![r] = Exchange(@.req.op, k, @.age, ans)]
  /\ Recounted
  /\ UNCHANGED <<reap, enrolled, pc, todo, held, left, beat, late, stray, pod, clean, faults>>

(* A call that the runner gave up arrives. *)
ServeStray(r) ==
  /\ stray[r] # NoRequest
  /\ \E ans \in Answer, k \in Job \cup {NoJob} :
       Executed(r, stray[r], ans, k)
  /\ stray' = [stray EXCEPT ![r] = NoRequest]
  /\ Recounted
  /\ UNCHANGED <<reap, enrolled, pc, todo, held, left, beat, call, late, pod, clean, faults>>

(* A person stops the run of a job. *)
StopJob(j) ==
  /\ row[j].state \in {"queued", "running"}
  /\ row' = [row EXCEPT ![j] = EndRow(@, "stopped")]
  /\ UNCHANGED <<reap, enrolled, runnerVars, pod, histVars>>

(* runner_id REFERENCES runners(id) ON DELETE SET NULL *)
Forgotten(w) == Entry(w.state, NoRunner, w.attempts, w.lease, w.ttl)

(* delete_runner: its jobs go back to the queue, as old as they are; those *)
(* that have ended forget it.                                              *)
DeleteRunner(r) ==
  /\ r \in Faulty /\ enrolled[r] /\ Fault
  /\ row' = [j \in Job |-> IF HeldBy(r, j)
                           THEN Entry("queued", NoRunner, row[j].attempts, 0, row[j].ttl)
                           ELSE IF row[j].runner = r THEN Forgotten(row[j]) ELSE row[j]]
  /\ enrolled' = [enrolled EXCEPT ![r] = FALSE]
  /\ UNCHANGED <<reap, runnerVars, pod, over, clean>>

(* The statements of reap.  Jobs that ended 90 days ago are not looked at  *)
(* here.                                                                   *)
Lapsed(w) == w.state = "running" /\ w.lease = 0

Failed(w) == IF Lapsed(w) /\ w.attempts >= MaxAttempts THEN EndRow(w, "lapsed") ELSE w

(* Mutant: the third statement is missing. *)
RequeuedOnly(w) ==
  IF Lapsed(w) THEN Entry("queued", NoRunner, w.attempts, 0, QueueTtl) ELSE w

(* The second and the third, which concern different rows. *)
Requeued(w) ==
  IF Lapsed(w) THEN Entry("queued", NoRunner, w.attempts, 0, QueueTtl)
  ELSE IF w.state = "queued" /\ w.ttl = 0 THEN EndRow(w, "expired")
  ELSE w

Reap ==
  /\ reap = "fail" /\ UNCHANGED reap
  /\ row' = [j \in Job |-> Requeued(Failed(row[j]))]
  /\ UNCHANGED <<enrolled, runnerVars, pod, histVars>>

(* Other things happen, and time passes, after the first statement. *)
ReapPauses ==
  /\ reap = "fail" /\ reap' = "requeue" /\ Fault
  /\ row' = [j \in Job |-> Failed(row[j])]
  /\ UNCHANGED <<enrolled, runnerVars, pod, over, clean>>

ReapGoesOn ==
  /\ reap = "requeue" /\ reap' = "fail"
  /\ row' = [j \in Job |-> Requeued(row[j])]
  /\ UNCHANGED <<enrolled, runnerVars, pod, histVars>>

(* A statement fails, or the process of the reaper ends. *)
ReapCut ==
  /\ reap = "requeue" /\ reap' = "fail"
  /\ UNCHANGED <<row, enrolled, runnerVars, pod, histVars>>

-----------------------------------------------------------------------------
(* The runner. *)

JobsOf(r) == {j \in Job : held[r][j] # "no"}

(* The workload is destroyed, or cannot be and is left to remove_strays. *)
Destroy(r, j) ==
  \/ pod' = [pod EXCEPT ![r][j] = "none"] /\ UNCHANGED faults
  \/ UNCHANGED pod /\ Fault

Ask(r, op, j) ==
  /\ pc' = [pc EXCEPT ![r] = "call"]
  /\ call' = [call EXCEPT ![r] = Sent(op, j)]

(* The answer is dealt with: the loop goes on, at its next step p. *)
Resume(r, p) ==
  /\ pc' = [pc EXCEPT ![r] = p]
  /\ call' = [call EXCEPT ![r] = NoCall] /\ late' = [late EXCEPT ![r] = FALSE]

(* follow, up to its first call *)
Look(r, j) ==
  /\ pc[r] = "follow" /\ j \in todo[r]
  /\ todo' = [todo EXCEPT ![r] = @ \ {j}]

(* The first call about j, which may fail past its lease. *)
AskAbout(r, op, j) == Ask(r, op, j) /\ late' = [late EXCEPT ![r] = (left[r][j] = 0)]

(* The workload has ended: its logs are read and sent.  None to send is    *)
(* like a call that fails at once.                                         *)
Collect(r, j) ==
  /\ Look(r, j) /\ held[r][j] = "run" /\ pod[r][j] # "running"
  /\ held' = [held EXCEPT ![r][j] = "end"]
  /\ AskAbout(r, "logs", j)
  /\ Destroy(r, j)
  /\ UNCHANGED <<row, reap, enrolled, left, beat, stray, over, clean>>

(* The end could not be reported in an earlier round. *)
ReportAgain(r, j) ==
  /\ Look(r, j) /\ held[r][j] = "end"
  /\ AskAbout(r, "finish", j)
  /\ UNCHANGED <<row, reap, enrolled, held, left, beat, stray, pod, histVars>>

Heartbeat(r, j) ==
  /\ Look(r, j) /\ held[r][j] = "run" /\ pod[r][j] = "running" /\ beat[r][j] = 0
  /\ AskAbout(r, "beat", j)
  /\ UNCHANGED <<row, reap, enrolled, held, left, beat, stray, pod, histVars>>

LetRun(r, j) ==
  /\ Look(r, j) /\ held[r][j] = "run" /\ pod[r][j] = "running" /\ beat[r][j] > 0
  /\ UNCHANGED <<row, reap, enrolled, pc, held, left, beat, call, late, stray, pod, histVars>>

(* take_work, with n jobs held: a claim, unless there are enough. *)
TakeWork(r, n) ==
  IF n < MaxJobs
  THEN Ask(r, "claim", NoJob)
  ELSE pc' = [pc EXCEPT ![r] = "sleep"] /\ call' = [call EXCEPT ![r] = NoCall]

(* remove_strays, and the first claim of take_work *)
RemoveStrays(r) ==
  /\ pc[r] = "follow" /\ todo[r] = {}
  /\ \/ /\ pod' = [pod EXCEPT ![r] = [j \in Job |-> IF held[r][j] = "no" THEN "none" ELSE @[j]]]
        /\ UNCHANGED faults
     \/ (\E j \in Job : held[r][j] = "no" /\ pod[r][j] # "none") /\ UNCHANGED pod /\ Fault
  /\ TakeWork(r, Cardinality(JobsOf(r)))
  /\ UNCHANGED <<row, reap, enrolled, todo, held, left, beat, late, stray, over, clean>>

Answered(r, op, ans) == pc[r] = "call" /\ call[r].req.op = op /\ call[r].ans = ans

(* The workload starts, or cannot: then the job has ended. *)
Start(r) ==
  /\ Answered(r, "claim", "ok")
  /\ LET j == call[r].req.job
     IN /\ \/ held' = [held EXCEPT ![r][j] = "run"] /\ pod' = [pod EXCEPT ![r][j] = "running"]
           \/ held' = [held EXCEPT ![r][j] = "end"] /\ pod' = [pod EXCEPT ![r][j] = "none"]
        /\ left' = [left EXCEPT ![r][j] = Lease]
        /\ beat' = [beat EXCEPT ![r][j] = Beat]
  /\ TakeWork(r, Cardinality(JobsOf(r) \cup {call[r].req.job}))
  /\ UNCHANGED <<row, reap, enrolled, todo, late, stray, histVars>>

(* Mutant: an instant that has passed is not told from one to come. *)
MinusBelow(n, m) == n - m

Minus(n, m) == IF m < n THEN n - m ELSE 0

(* Both instants are counted from before the call. *)
Renewed(r) ==
  /\ Answered(r, "beat", "ok")
  /\ LET j == call[r].req.job
     IN /\ left' = [left EXCEPT ![r][j] = Minus(Lease, call[r].age)]
        /\ beat' = [beat EXCEPT ![r][j] = Minus(Beat, call[r].age)]
  /\ Resume(r, "follow")
  /\ UNCHANGED <<row, reap, enrolled, todo, held, stray, pod, histVars>>

(* What the runner remembers of a job it drops. *)
Drop(r, j) ==
  /\ clean' = [clean EXCEPT ![r] = @ \/ JobsOf(r) \subseteq {j}]
  /\ held' = [held EXCEPT ![r][j] = "no"]
  /\ left' = [left EXCEPT ![r][j] = 0] /\ beat' = [beat EXCEPT ![r][j] = 0]

(* The job is lost: its logs are offered first, for a person may have      *)
(* stopped it, and the workload is destroyed then, whatever the answer.    *)
Lost(r) ==
  /\ Answered(r, "beat", "notheld")
  /\ Ask(r, "logs", call[r].req.job)
  /\ UNCHANGED <<row, reap, enrolled, todo, held, left, beat, late, stray, pod, histVars>>

AtLogs(r, status) ==
  pc[r] = "call" /\ call[r].req.op = "logs" /\ held[r][call[r].req.job] = status

Abandon(r) ==
  /\ AtLogs(r, "run")
  /\ Destroy(r, call[r].req.job) /\ Drop(r, call[r].req.job)
  /\ Resume(r, "follow")
  /\ UNCHANGED <<row, reap, enrolled, todo, stray, over>>

LogsTaken(r) ==
  /\ AtLogs(r, "end") /\ call[r].ans = "ok"
  /\ Ask(r, "finish", call[r].req.job)
  /\ UNCHANGED <<row, reap, enrolled, todo, held, left, beat, late, stray, pod, histVars>>

(* The end is reported, or it is no longer for this runner to report. *)
Reported(r) ==
  /\ \/ AtLogs(r, "end") /\ call[r].ans = "notheld"
     \/ Answered(r, "finish", "ok") \/ Answered(r, "finish", "notheld")
  /\ Drop(r, call[r].req.job)
  /\ Resume(r, "follow")
  /\ UNCHANGED <<row, reap, enrolled, todo, stray, pod, over, faults>>

(* The runner goes on as it is. *)
Unanswered(r) ==
  /\ clean' = [clean EXCEPT ![r] = FALSE]
  /\ UNCHANGED <<held, left, beat>>

(* Mutant: a runner that cannot reach the server lets the workload run. *)
NeverGivesUp(r, op, j) == Resume(r, "follow") /\ Unanswered(r) /\ UNCHANGED <<pod, faults>>

(* A call about j has failed.  Past the lease the job is dropped, and its  *)
(* workload destroyed.                                                     *)
GivesUp(r, op, j) ==
  /\ Resume(r, "follow")
  /\ IF late[r] THEN Drop(r, j) ELSE Unanswered(r)
  /\ IF late[r] /\ op = "beat" THEN Destroy(r, j) ELSE UNCHANGED <<pod, faults>>

(* The call is held up in the network: the server executes it after the    *)
(* runner has given it up.                                                 *)
CallDelayed(r) ==
  /\ pc[r] = "call" /\ call[r].ans = "none" /\ r \in Faulty /\ Fault
  /\ stray' = [stray EXCEPT ![r] = call[r].req]
  /\ call' = [call EXCEPT ![r] = Exchange(@.req.op, @.req.job, @.age, "error")]
  /\ UNCHANGED <<row, reap, enrolled, pc, todo, held, left, beat, late, pod, over, clean>>

(* The call fails for the runner: refused, lost, or too late. *)
CallFails(r) ==
  /\ pc[r] = "call"
  /\ LET op == call[r].req.op
         j == call[r].req.job
     IN \/ /\ op = "claim"
           /\ Resume(r, "sleep")
           /\ UNCHANGED <<held, left, beat, pod, clean, faults>>
        \/ op \in {"beat", "finish"} /\ GivesUp(r, op, j)
        \/ /\ AtLogs(r, "end")
           /\ Ask(r, "finish", j)
           /\ Unanswered(r) /\ UNCHANGED <<late, pod, faults>>
  /\ UNCHANGED <<row, reap, enrolled, todo, stray, over>>

(* The process ends, its workloads stay.  The next one begins with none    *)
(* held: the first round removes them.                                     *)
Crash(r) ==
  /\ r \in Faulty /\ pc[r] # "down" /\ Fault
  /\ pc' = [pc EXCEPT ![r] = "down"] /\ todo' = [todo EXCEPT ![r] = {}]
  /\ held' = [held EXCEPT ![r] = [j \in Job |-> "no"]]
  /\ left' = [left EXCEPT ![r] = [j \in Job |-> 0]]
  /\ beat' = [beat EXCEPT ![r] = [j \in Job |-> 0]]
  /\ call' = [call EXCEPT ![r] = NoCall] /\ late' = [late EXCEPT ![r] = FALSE]
  /\ clean' = [clean EXCEPT ![r] = TRUE]
  /\ UNCHANGED <<row, reap, enrolled, stray, pod, over>>

Restart(r) ==
  /\ pc[r] = "down"
  /\ pc' = [pc EXCEPT ![r] = "follow"]
  /\ UNCHANGED <<row, reap, enrolled, todo, held, left, beat, call, late, stray, pod, histVars>>

(* The workload exits, or its deadline stops it. *)
PodEnds(r, j) ==
  /\ pod[r][j] = "running"
  /\ pod' = [pod EXCEPT ![r][j] = "ended"]
  /\ UNCHANGED <<row, reap, enrolled, runnerVars, histVars>>

-----------------------------------------------------------------------------
(* Two runners that are up and enrolled have a workload for the job. *)
Works(r, j) == enrolled[r] /\ held[r][j] = "run" /\ pod[r][j] = "running"
Shared(j) == \E r, s \in Runner : r # s /\ Works(r, j) /\ Works(s, j)

Older(w) == Entry(w.state, w.runner, w.attempts, Minus(w.lease, 1), Minus(w.ttl, 1))

(* One unit of time: nobody lingers between two calls, calls time out. *)
Tick ==
  /\ \A r \in Runner : pc[r] \in {"down", "sleep"} \/ (pc[r] = "call" /\ call[r].age < CallMax)
  /\ row' = [j \in Job |-> Older(row[j])]
  /\ left' = [r \in Runner |-> [j \in Job |-> Minus(left[r][j], 1)]]
  /\ beat' = [r \in Runner |-> [j \in Job |-> Minus(beat[r][j], 1)]]
  /\ call' = [r \in Runner |-> IF pc[r] # "call" THEN call[r]
                            ELSE Exchange(call[r].req.op, call[r].req.job, call[r].age + 1, call[r].ans)]
  /\ pc' = [r \in Runner |-> IF pc[r] = "sleep" THEN "follow" ELSE pc[r]]
  /\ todo' = [r \in Runner |-> IF pc[r] = "sleep" THEN JobsOf(r) ELSE todo[r]]
  /\ over' = [j \in Job |-> IF ~Shared(j) THEN 0
                            ELSE IF over[j] > MaxOverlap THEN over[j] ELSE over[j] + 1]
  /\ stray' = [r \in Runner |-> NoRequest]
  /\ UNCHANGED <<reap, enrolled, held, late, pod, clean, faults>>

LoopStep(r) ==
  \/ \E j \in Job : Collect(r, j) \/ ReportAgain(r, j) \/ Heartbeat(r, j) \/ LetRun(r, j)
  \/ RemoveStrays(r) \/ Start(r) \/ Renewed(r) \/ Lost(r) \/ Abandon(r)
  \/ LogsTaken(r) \/ Reported(r) \/ CallFails(r)

ServerStep ==
  \/ \E j \in Job : Create(j) \/ StopJob(j)
  \/ \E r \in Runner : Serve(r) \/ ServeStray(r) \/ DeleteRunner(r)
  \/ Reap \/ ReapPauses \/ ReapGoesOn \/ ReapCut

Next ==
  \/ ServerStep
  \/ \E r \in Runner : LoopStep(r) \/ CallDelayed(r) \/ Crash(r) \/ Restart(r)
                        \/ \E j \in Job : PodEnds(r, j)
  \/ Tick

Spec == Init /\ [][Next]_vars

(* Time passes, the loops of the runners and of the reaper go on, and      *)
(* every workload has a deadline.  Nothing is asked of the network.        *)
Fairness ==
  /\ WF_vars(Tick) /\ WF_vars(Reap) /\ WF_vars(ReapGoesOn)
  /\ WF_vars(\E r \in Runner : LoopStep(r))
  /\ \A j \in Job : WF_vars(\E r \in Runner : PodEnds(r, j))

LiveSpec == Spec /\ Fairness

-----------------------------------------------------------------------------
(* After a job was claimed, the runner that had it before goes on working  *)
(* on it for MaxOverlap at most, however calls fail: a runner that is cut  *)
(* off destroys its workload soon after its lease (lib.rs:311 has it       *)
(* "never two workloads").                                                 *)
BriefOverlap == \A j \in Job : over[j] <= MaxOverlap

(* A runner whose calls are all answered, however slowly, does not lose a  *)
(* job: four heartbeats fit in a lease (runners.rs:22).                    *)
HealthyKeeps ==
  \A r \in Runner, j \in Job :
    (HeldBy(r, j) /\ held[r][j] # "no" /\ clean[r]) => row[j].lease > 0

(* A job ends once: no late report, reaper, stop or deletion of its runner *)
(* changes what was recorded or puts it back into the queue.  Only the     *)
(* name of a runner that is deleted goes.                                  *)
EndsOnce ==
  [][\A j \in Job : row[j].state \in Ended =>
       /\ row'[j].state = row[j].state
       /\ row'[j].runner \in {row[j].runner, NoRunner}]_vars

(* Every job ends, even if every call of every runner fails. *)
Ends == \A j \in Job : row[j].state = "queued" ~> row[j].state \in Ended
=============================================================================
