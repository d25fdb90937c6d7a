# pnex-rs: TLA+ specifications of the distributed parts

pnex collects measurements from devices and edge agents of many organisations and
runs their *flows* (graphs of nodes, one tab per flow) and their *jobs* (containers
on machines of their own) from a cluster of backend pods that share PostgreSQL and
Valkey. This directory specifies the parts in which several processes have to
agree without trusting each other to be alive: who runs the flows of an
organisation and how a deploy reaches the runtime; who works on a job; how
measured points get from the disk of an agent to the server; which session speaks
for a device and when the device is off. Every definition is translated from the
Rust source; `PROJECT.json` maps it to its lines.

Paths below are relative to `src/crates/pnex-backend/src/` unless they start
with `crates/` (then relative to `src/`).

## 1. Inventory of the system

| Component | State it keeps | Operations | Hard behaviour |
|---|---|---|---|
| Flow runtime (`crates/pnex-flow-runtime`: `main.rs`, `engines.rs`) | engines per flow, last failure per flow, pending SIGUSR1, unread stdout | boot, diff reload, removal, crash | writes and signals during a boot or a reload, coalescing signals, full pipe, dying before the handler is installed |
| Flow supervisor (`services/flow_supervisor`) | the child, `runtime_wanted`, pending acknowledgements, `flows.json` | deploy (pre-flight, write, spawn or signal, wait), halt, respawn, pump | acknowledgement of an older deploy, child dying at each step, halt behind a deploy |
| Flow worker (`services/flow_cluster/worker.rs`) | `frags`, `seen`, `halted`, `healthy`, `stopped`, state lock | heartbeat, reconcile, apply_org, self_fence, stop_permanently, shutdown | checks before a lock that is awaited, self-fencing against the TTL, superseded incarnations |
| Placement store and controller (`services/flow_cluster/{store,controller}.rs`) | rows of `flow_workers`, `flow_placements`, `flow_leases` | assign, move, release, collect, lease | decisions on rows read earlier, ABA of (epoch, revision), leadership change |
| Placement planner (`services/flow_cluster/{placement,controller}.rs`) | the deployed flows per org as read last | read, release, fail over, rebalance, write | rows change between reads and writes, weights read every few rounds, capacities, settling |
| Deploy API (`controllers/flows/{lifecycle,crud,artifact}.rs`) | flows and versions in the database, org deploy lock | deploy, rollback, stop, restart, delete | push, mark and bump are three steps; each may fail; retries of a push |
| Row leases and sweeps (`store.rs`, `services/singleton.rs`) | one row per lease | try, renew, release | two statements, lost replies, rounds longer than the lease, loops that outlive the release |
| Write fence (`flow_cluster::fence_ok`) | cache of one second | check | stale owner |
| Org lock (`services/db_lock.rs`) | PostgreSQL advisory lock | acquire, release | lock lost with its connection |
| Jobs (`services/runners.rs`, `controllers/runners.rs`) and runner (`crates/pnex-runner`) | rows of `runner_jobs` with lease and attempts; `held` and the workloads of a runner | create, claim, heartbeat, logs, finish, stop, reap, delete a runner; follow, take work, abandon, restart | late, lost and repeated calls, a runner that is cut off, a reaper in two statements |
| Edge agent uplink (`crates/pnex-edge-agent`: `queue.rs`, `uplink.rs`; `services/edge_agent.rs`) | the queue on disk, the window of batches in flight; the high-water mark in the session and in Valkey | append, trim, connect, send, acknowledge, ingest | acknowledgements lost, connections replaced, two sessions side by side, mark lost, restarts |
| Device sessions (`controllers/ws_device.rs`, `services/device_bus.rs`) | lease, registry of a pod, route | connect, claim, register, refresh, release | an old session that ends after the new one began, tasks that stall, expiry |
| Device liveness (`services/device_liveness.rs`) | scores in Valkey, `last_seen_at` and `active` in PostgreSQL, marker of the reaper | claim, touch, release, reaper pass | four stores written by three actors, restarts of Valkey |
| Command acknowledgements, OTA (`services/cmd_acks.rs`, `ota.rs`) | pending commands, updates | send, answer, time out | answers across pods |
| Agent runs and chains (`services/agent_runs.rs`, `agent_chains.rs`, `agent_gateway.rs`) | runs, budgets | admit, settle, cancel | concurrent admission, double settlement |
| Everything else | | | request-scoped CRUD, user interface, numerical and document libraries, vendored engines |

How they interact. The API resolves the owner of an organisation
(`ensure_owner`), pushes the projected fragment to it (in process or over HTTP,
`transport::apply`), and after the acknowledgement marks the database and bumps
`flow_placements.revision`. Every worker reconciles: it reads its placements,
projects the orgs whose `(epoch, revision)` it has not seen, and hands the merged
artifact to its supervisor, which writes `flows.json` and spawns or signals the
runtime. The controller, elected through a row lease, moves orgs away from workers
whose heartbeat row is older than `worker_ttl_ms`; the worker that cannot
heartbeat for `self_fence_ms` kills its runtime by itself. Nothing but the state
lock of a worker, conditional SQL statements and time orders these actors.

Jobs are rows of PostgreSQL: a runner polls over HTTP, claims one, and keeps it
by renewing its lease; a reaper on one pod puts lapsed jobs back. Agents and devices hold one WebSocket each. The agent numbers its
points on disk, and the server answers each batch with the last number it has. A
device session claims a lease in Valkey, enters the registry of its pod and
publishes a route; a command sent on any pod follows the route, or the registry.
The same lease carries the sign of life from which the reaper derives `active`.

What makes each component correct, in a sentence:

- *lease*: the database never promises a lease to two processes;
- *supervisor*: one runtime, dark after a halt, and never left on an artifact
  older than the last one written;
- *worker and controller*: the old runtime is down before the org is given away,
  when the delays of the environment fit into the settings;
- *cluster*: an owner that believes it is up to date runs what the database says;
  after any failure it converges to it; a worker the org has left, or that was
  superseded, ends without it;
- *planner*: a plan is coherent, balancing does not hurt, placements come to rest,
  and every org with flows ends on a ready worker;
- *jobs*: a job ends, once; two runners work on it for a bounded time only; a
  runner that is answered does not lose it;
- *uplink*: a committed point leaves the queue only when the server has it or as
  the oldest under the bounds; in order and once while no mark is lost;
- *devices*: an old session takes nothing from the live one; commands find a device
  that stays connected; its last sign of life does not go back, and it is switched
  off only when it was silent.

## 2. Modules

| Module | Models | Theorems in |
|---|---|---|
| `RowLease` | `try_lease`, `release_lease`, `release_task_leases`, the loops and the shutdown hook | `FlowPlacementProofs` |
| `FlowRuntime` | the child processes: boot, SIGUSR1, reload tab by tab, stdout pipe | |
| `FlowSupervisor` (extends `FlowRuntime`) | supervision loop, `handle_deploy`, halt, pump | `FlowSupervisorProofs` |
| `WorkerFence` | one worker, one org and the controller in discrete time | `WorkerFenceProofs` |
| `FlowCluster` | API call, push, reconcile, placements and the life of the nodes, without time | `FlowClusterProofs` |
| `FlowPlacement` | the rounds of the controller: reads, `plan`, `pick_target`, writes | `FlowPlacementProofs` |
| `RunnerJobs` | jobs, their reaper, the loop of the runners and the calls between them | `RunnerJobsProofs` |
| `EdgeDelivery` | abstract: custody of points | |
| `EdgeUplink` | queue, window, sessions and marks; implements `EdgeDelivery` | `EdgeUplinkProofs` |
| `DeviceSessions` | lease, registry and route of the sessions of a device | `DeviceSessionsProofs` |
| `DeviceLiveness` | signs of life, releases, the reaper of silent devices | `DeviceLivenessProofs` |
| `MC...` | model-checking instances: symmetry sets, functions given to constants | |

`FlowSupervisor` is what `WorkerFence` and `FlowCluster` use as one step: there a
deploy succeeds, fails without effect, or fails after the runtime has read the
new artifact (`DeployFailed`, `MayHaveDeployed`). These are the outcomes
`FlowSupervisor` shows: a deploy whose acknowledgement times out has replaced
`flows.json`, a rejected one has not. That a halt returns and leaves no runtime
behind (`HaltIsServed`, `HaltFences`) is what `Fence` and `StopLocked` rely on.
`FlowPlacement` makes the moves that `FlowCluster` allows any controller to make;
`RowLease` is the leadership behind it and behind the reapers of `RunnerJobs` and
`DeviceLiveness`. `DeviceLiveness` lets a session end at any moment, since
`DeviceSessions` says how sessions replace each other.

### RowLease

`holder` and `left` are the row (absent when `holder = NoHolder`), `left` being
the time to `expires_at`; `grant[h]` is what the last successful `try_lease`
promised to process `h`. Only the clock of the database is used by the code, so
one clock suffices; all past instants are one value, which makes time finite
without a bound. `TryUpdate` and `UpdateMatchesNothing`/`TryInsert` are the two
statements, executed apart. `GrantReplyLost` is a statement executed whose reply
is lost. A process that restarts has a new boot number and is another `Holder`.

### FlowRuntime and FlowSupervisor

An artifact is the version (hash) of the tab of each flow. `Rejected` versions do
not build; a version that builds may still fail to start. Boot and reload read
the file in one step and handle one tab per step, writing one event each to a
pipe of `PipeCap` events that blocks the writer when full; the removals come last.
A process that has ended is a zombie until the end-of-life watcher has reaped it,
and `kill(pid, 0)` still finds it. The loop of the supervisor is at `pc`: free
(`loop`), or inside `handle_deploy` (`preflight`, `write`, `launch`, `ack`). Two
details of the source matter and are kept: the acknowledgement is registered
before the write, and `alive` is computed before the write and used after it.
The command channel is abstracted: a free loop may take any request. `haltReq` is
the caller that waits for `halt`. Left out: the length of the backoff, the debug
feed, health snapshots, wording of errors.

### WorkerFence

Ages instead of dates: `rowAge` of `heartbeat_at`, `silence` of
`last_heartbeat_ok`. An age beyond the TTL is one value (`Horizon`). The heartbeat
task sleeps `Period`, calls the database for at most `CallMax` (the statement may
be executed and its reply lost), looks at the silence only when the call fails, and
then waits for the state lock, which deploys ahead of it, all of them together, hold
for at most `LockMax` (the lock is fair). The reconcile task reads `healthy`
(`ReconcileCheck`) before it waits for the lock (`queued`): what it has read may be
stale when the lock is granted (`ReconcileBegin`). `Skew` is how far the controller's clock is ahead. The controller reads
the row (`DeclareDead`) and moves the org in a later step (`Failover`), on
condition that the owner is still the same, without reading the row again.
Supersession is in `FlowCluster`.

### FlowCluster

One organisation, whose deployed content is a member of a small set; the other
orgs of a worker appear as the deploys they cause (`OtherOrgApplied`, `others` in
`ReconcileRead`). `place` is the row of the org (owner, `<<epoch, revision>>`),
`boot` the rows of `flow_workers`. A node is one incarnation of a worker id; its
`frag` and `seen` are the entries of `WorkerState` for the org, `running` what its
runtime was last given. `lock` says which deploy holds the state lock and what it
has read or computed so far; `jobs` are pushes that wait for it; `late` is the
reconcile task that passed its checks before they would have failed and waits for
the lock. The API call has the steps of the source: `push` (ensure_owner and
transport), `wait`, `mark`, `bump`; a delete marks first. A push whose answer is
not awaited any more (time out, client gone, pod dead) stays with the owner, and
may be applied or dropped. A push reaches any node with the owner's id that is up:
`transport::apply` prefers one in the process of the caller, and that may be a
superseded incarnation that does not know it yet. `Fault` counts what need not happen: failed statements,
lost answers, processes that stop.

Simplifications: the deploy lock of the org is taken as correct (one call at a
time); a controller may make any move the store allows (the planner is in
`FlowPlacement`, the leadership in `RowLease`), and reads the weights and inserts a
new placement in one step; a worker to which an org is moved has a row; a full
resync may come at any time.

### FlowPlacement

`place`, `young` (younger than `release_grace_ms`), `flows` and `ready` are the
database; the rest is the round at `pc`: it reads workers, placements and, every
`MaxStale` rounds at the latest, weights, one statement each, and then plans on
what it has read. `Survey` takes the orgs one by one (`plan`'s first loop),
`Failover` places the orphans, `Rebalance` moves one org from the most to the least
loaded worker when they are `Apart` and the move is `Movable`; `Redirect` collapses
a second move of an org into the first. `Apply`, `Check` and `Delete` write change
by change; a statement that fails ends the round. `Meanwhile` is what others do
between the reads and the writes: workers turn, flows are deployed (one at a time),
`ensure_owner` places an org, a controller that has lost its lease moves one.

Kept as the code has it: `ensure_owner` ignores capacities; a worker over its
capacity is not relieved unless the spread exceeds the tolerance; a round that does
not read the weights counts each org as one flow, and neither releases nor
rebalances. The tolerance is `MinSpread` or the
`SpreadPart`-th of the mean, compared with integers instead of floats. Where the
code breaks ties by ids the choice is left open.

### RunnerJobs

`row` holds the columns of a job the code looks at; `held`, `todo` and `pc` are the
loop of a runner (`follow` each held job, then `take_work`), `pod` its workloads,
`call` the request under way. The unit of time is the timeout of a call
(20 s): a lease is six of them, a heartbeat period two (30 s, rounded up), and one
round of the runner stands for all those of a unit (it polls every 3 s). Any call may fail for the runner before
or after the server has executed it; a call it gave up may be executed later
(`CallDelayed`, `ServeStray`), within one unit of time at most. `Start` counts the jobs that are held when it asks
for more work, as `take_work` does: a job that is given again to a runner that
still has it takes no second place. The reaper executes its two statements apart, or is
cut short after the first. A job is held as in the source, by
runner and state alone (`HeldBy`), not by attempt. Runners in `Faulty` may crash, be deleted or have a call
delayed; `over` and `clean` are history.

Kept as the code has it: a job requeued between the two statements may be claimed
more than `MAX_ATTEMPTS` times; the deletion of a runner requeues its jobs without
a new `queue_expires_at` (`runners.rs:259`). Left out: capabilities, join tokens and
revocation, the storage of logs and sboms (the upload of an sbom checks the same as
that of logs; it would be a third call in the round of a job that ends, and so add
to the waits that section 5 counts), the time that the calls of a runner to its executor
take, rows
deleted after 90 days, errors of the status call, the kinds of jobs.

### EdgeDelivery and EdgeUplink

`EdgeDelivery` is what the agent promises: points committed, in custody, delivered
(perhaps again), discarded oldest first. `EdgeUplink` has the file (`queue`,
`next`), the memory of the agent (`acked`, `sentUpTo`, `inflight`), one channel pair
and one server session per connection, and the mark in Valkey. An acknowledgement
is cumulative; the purge that follows it may fail. A session reads the mark from
Valkey once, keeps it in memory, and writes it before it answers; the server
notices the end of a connection late, so an old session goes on with what it
received while a newer one is served. `calm` (history) is false after a mark was
lost or two sessions ingested side by side. `MaxSeq`, `MaxConn` and `MaxFaults`
bound points, connections and faults.

Left out: epochs (a queue file that was lost starts a new one), unreadable points,
the pause after a revocation, pings, frames that the server skips, and the buffer of the telemetry sink behind
the acknowledgement: `ingested` means handed to it. A skipped frame is one of two
things. One that cannot be decrypted (`ws_device.rs:359-361`): the nonces of the channel
are counters (`crates/pnex-core/src/frame.rs:13-15`), so after a frame of the agent that
was lost this way nothing that follows on the connection opens either, no answer comes,
and the agent connects again after its timeout; this is `Close` before `Disconnect`. One that opens
and does not parse (`ws_device.rs:486`): an agent that shares the types of the server
sends none; were one skipped, the next cumulative acknowledgement would release its
points, and `Delivers` would not hold.

### DeviceSessions

The unit of time is the ping of a device (5 s); the watchdog waits for nine of
them, the route lasts 90 s and is refreshed every 30 s, the lease lasts two units.
The task of a session is at `pc`: `Claim` (the lease, and the check of its answer),
`Insert` (registry of its pod), `ClaimRoute`, then the loop with `Frame`, then
`Release`, whose guard forgets only its own entry (`Forget`), and `Unroute`. It may
stall before each call for any time, and a call that fails may have been executed: a
claim whose answer is lost leaves the lease to a session that has ended, until it
expires. A call that Valkey executes after its session gave it up is left out. `StaleRoute` is a command that
finds the pod of the route deaf and deletes it. Left out: tokens and their
revalidation, telemetry and commands themselves, the subscriptions of a pod, the
sessions of browser extensions.

As the code has it, a session that stalls between its lease and its registration
can replace a newer one (`ws_device.rs:197`) and sends it away; the device then
connects again.

### DeviceLiveness

`lease` and `seen` (the score) are in Valkey, `cold` (`last_seen_at`) and `active`
in PostgreSQL, `epoch` is the marker by which the reaper notices that Valkey has
lost its data. Instants are kept as ages by the clock that is most ahead. A score,
the cutoff of a pass and the marker are readings of the clock of a pod taken before the
call (`device_liveness.rs:185`, `204`, `393`), so up to `Lag` old when they take effect: `Lag` bounds
the skew of the pods' clocks and the delay of a call together. The leases run on
the clock of Valkey. As in `DeviceSessions`, a call that fails may have been executed. `Release` gives up the lease and
`Persist` writes the sign of life later, within `WriteMax`; the pass of the reaper
is `StartPass`, `ReadFresh`, `ReadStale`, `PersistStale`, `RemoveStale`,
`Deactivate`, one step per call, and may be cut anywhere. Overlapping passes of two
reapers and devices other than the one are left out.

## 3. Runs

All runs use 1 to 3 actors; the sizes are chosen so that every action fires and
the scenarios named here exist.

| Run | Question | Instance |
|---|---|---|
| `lease` | is the lease exclusive, do rounds go on? | 3 processes, TTL 2: a take-over, a late release and an insert race fit |
| `supervisor_safety` | one runtime, halt fences, no reload lost? | 1 flow, 2 good and 1 bad version, 2 pids (an old and a new child), pipe of 1 |
| `supervisor_live` | applied, restarted, halted in the end? | 1 flow, 1 version, 2 pids |
| `fence_budget` | down before the move? | Period 2, self-fence 4, call 1, lock 3, skew 1, TTL 11: the sum is exactly the TTL |
| `cluster_live` | does an owner converge, does a worker that must stop end dark? | 1 worker, 2 faults, 1 release, revision <= 2 |
| `cluster_moved` | is seen = applied, does the old owner stop? | 2 workers, epoch <= 2, revision <= 2, 1 fault, 2 attempts, no release |
| `cluster_aba` | (violation) is a placement created again projected? | 2 workers, epoch <= 2, revision <= 3, no fault, 1 release |
| `placement` | is a plan coherent, does balancing help, do placements rest? | 3 orgs of weights up to 1, 2, 3; 2 workers, one with a capacity of 3; 3 moves, spread 1 or a fifth; 1 round on old weights, 1 disturbance |
| `runner_jobs` | brief overlap, no job lost by a healthy runner, one end? | 1 job, 2 runners, one of them faulty; 2 attempts, 3 claims, lease 6, heartbeat 2, overlap 4, 1 fault |
| `edge_uplink` | custody, order, once, settled? | 3 points, window 2, batches of 2, queue of 2, 2 connections, 2 faults |
| `device_sessions` | nothing taken, commands arrive? | 2 sessions, 2 pods, lease 2, route 6, refresh 2 (in pings), 2 faults |
| `device_liveness` | sign of life, off and on? | 2 sessions, TTL 3, lag 1, write 1, pass 2, ages up to 5, 1 fault |

Why the bounds suffice for what they are to show:

- *FlowCluster*: revision 2 holds a push and a bump of the sink or a move around
  one call; revision 3 of `cluster_aba` is what the old pair needs to come again.
- *FlowPlacement*: with weights 1, 2 and 3 an org that failed over is rebalanced in
  the same round, so that `Redirect` fires; the initial states are all placements
  and weights; one disturbance can fall between any two reads or writes, and the
  rounds after it show whether things come to rest.
- *RunnerJobs*: two claims by two runners make the overlap, a third claim makes the
  requeue beyond the attempts. `MaxOverlap = 4` is tight: TLC refutes 3.
- *EdgeUplink*: three points in a queue of two force a trim, two connections the
  replay and the sessions side by side.
- *DeviceSessions, DeviceLiveness*: the old session and its replacement are the two
  sessions. The TTL of two units is the ten seconds of the code in pings of five; with
  clocks that differ by a unit, `DeviceLiveness` needs three, or else a device that
  pings in time may be taken for silent. In it `MaxAge` is what the TTL and the pass need. With two faults it has 711,357
  states and takes three to five minutes: TLC finds nothing there either, and the theorems hold
  for any number.

`MaxFaults`, `MaxChurn`, `MaxReleases`, `MaxTries`, `MaxConn` and `MaxClaims` limit
how often things happen. Deadlock is not checked in the runs of `FlowCluster`,
`EdgeUplink`, `RunnerJobs`, `DeviceSessions` and `DeviceLiveness`: there the system
may really stop when the bounds are used up, every node has exited, or the device
or agent stays away. It is checked in all others.

### Disagreements between code and documentation

`cluster_aba` checks a promise that a comment makes and the code does not keep
(`OwnerReprojects`): a placement released and created again reaches an
(epoch, revision) its owner has seen long ago; nothing is projected until the next
full resync. `PROJECT.json` ("findings") quotes the promise.

The modules state more such promises, at their end, as properties that no run
checks, since a property of the table above covers what remains true. Each is
refuted by TLC when it takes the place of the properties of the configuration named
here.

| Property | Configuration | Promise | What happens | What holds instead |
|---|---|---|---|---|
| `GivenBackForGood` | `RowLease.cfg` | `store.rs`: the next candidate takes over at once | shutdown releases the lease, the loop that is still running takes it again | `RoundsGoOn` |
| `OneSweeper` | `RowLease.cfg` | `singleton.rs`: runs on ONE pod | a sweep longer than its lease overlaps the next holder's sweep | `ExclusiveGrant` |
| `AckedVersionRuns` | `FlowSupervisor_safety.cfg` | `lifecycle.rs:920-921`: never "deployed" without running | `resolve_deploy_ack` matches by flow alone: an event of the previous version acknowledges the next one | `RuntimeRunsArtifact` |
| `SignalOnlyReloads` | `FlowSupervisor_safety.cfg` | `flow_supervisor/mod.rs:9-10`: SIGUSR1 is a hot reload | the handler is installed after the boot: a signal during the boot kills the runtime | `KeepsRespawning` |
| `PreflightGuardsFile` | `FlowSupervisor_safety.cfg` | `flow_supervisor/mod.rs:600`: a version that does not build is not written | a pre-flight that dies before its report counts as green | `RuntimeRunsArtifact` |
| `UnackedStopKeepsFlow` | `FlowSupervisor_safety.cfg` | `lifecycle.rs`: an unacknowledged stop leaves the flow running | a stop that is not acknowledged has already removed the flow from `flows.json` | `Converges` |
| `OldRuntimeDownFirst` | `WorkerFence_budget.cfg` | `worker.rs:5-7`: the old runtime is down first | a worker comes back between the controller's read and its move, and both run the org | `DownBeforeMove` |
| `DownBeforeMove` | the same with the default delays | as above | a deploy holds the state lock for up to 20 s (`check_timeout`, `reload_ack`), self-fencing waits behind it, and only 4 s lie between `self_fence_ms` and `worker_ttl_ms` | `DownBeforeMove` under `Budget` |
| `CandidateKept` | `FlowCluster_moved.cfg` | `worker.rs:14-16`: a reconcile never overwrites a pushed candidate | a resync or a sink bump between push and mark puts the old content back for a while | `SeenIsApplied` |
| `StoppedStaysDark` | `FlowCluster_moved.cfg` | `worker.rs:5`: permanent fence | a reconcile waiting for the lock starts the runtime of a worker already stopped, until its last handle is dropped | `EndsDark` |
| `NoDoubleRun` | `FlowCluster_moved.cfg` | `flow-engine.md:484`: no double execution | a planned move has two runtimes until the old owner reconciles | `OldOwnerLeaves` |
| `InFlightKeepsPlacement` | `FlowCluster_aba.cfg` | `controller.rs:123-127`: a deploy in flight keeps its placement | the old placement of an idle org is released under a deploy in flight | `Converges` |
| `Deduplicated` | `EdgeUplink.cfg` | `queue.rs:3-5`: the mark deduplicates replays | an old session that still reads its socket and the new one ingest the same points | `OnceInOrder` |

The default delays, in ticks of 2 s, are `Period = 1`, `SelfFence = 3`, `Ttl = 5`,
`CallMax = 0`, `LockMax = 10`, `Skew = 0`; with `LockMax = 2` the property holds.

Three more sentences of the sources hold only with the exceptions that the
properties make: `crates/pnex-runner/src/lib.rs:311` ("never two workloads", see
`BriefOverlap`), `device_liveness.rs:16-18` (a restart of Valkey loses no history:
what is not yet in PostgreSQL is lost until the device's next sign of life, see
`SeenGrows`), and the grace after such a restart, which does not help a pass that
has read the marker before and its devices after it (`OffOnlyIfSilent`).

## 4. Fairness

- *RowLease*: each loop ticks and its rounds end (weak); the two statements of
  `try_lease` are not failed for ever (strong), since a database error is retried
  at the next tick; time passes.
- *FlowSupervisor*: the steps of `handle_deploy`, of the child and of the pump
  (weak: they run as soon as they can). The loop looks for a dead child and
  restarts it at every turn before it takes commands, and takes commands in order;
  as the model takes any command, these steps are given strong fairness. Crashes,
  deploys and requests are never forced.
- *FlowCluster*: the deploy that holds the lock goes on (weak); the Tokio mutex is
  fair, so whoever waits for it again and again gets it (strong, for reconcile,
  apply and stop); a full resync is due every `full_resync_ms`, which is why the
  fair reconcile is a full one; a superseded node notices it at its heartbeat; the
  call goes on. `cluster_moved` asks for less (`ReconcileFairness`): that the old owner
  stops needs nothing but its own reconcile task. Heartbeats, faults, moves, new calls and bumps are not forced.
- *FlowPlacement*: some leader keeps ticking and time passes (weak); nothing is
  asked of workers and deploys.
- *RunnerJobs*: time passes, the loops of the runners and of the reaper go on, and
  each workload has a deadline (weak). No call is asked to succeed.
- *EdgeUplink*: both ends go on with what they can do (weak), and the agent notices
  a session that has ended. Connections are bounded, so the last one stays up.
- *DeviceSessions, DeviceLiveness*: time passes, tasks and reaper go on, a device
  that is connected pings every 5 s, and the watchdog ends the task of one that is
  not (weak). Nothing makes a device connect or a connection last.
- *WorkerFence* has no liveness property; time is urgent (`MayWait`): a delay that
  is due ends before time passes on.

## 5. Proofs

TLAPS checks the following for all values of the constants that satisfy the
assumptions stated with them. Each module also has `TypeCorrect`.

**FlowSupervisorProofs.** `AtMostOneRuntime`, `HaltIsAFence`, `NoReloadLost`, for
any sets of flows, versions and pids and any pipe size. None of the three is
inductive. `IInv` adds: only the child held by the loop lives and only over an
existing file (`OnlyHandleLives`); between the write and the launch `~alive` means
that no child lives (`LaunchKnows`); a runtime is wanted only after a deploy and not
after a halt (`WantedSince`); and `CycleProgress`, the heart of `NoReloadLost`: a
child in the middle of a cycle works on the current file unless a signal is pending
or about to be sent, and the tabs it has handled are applied.

**WorkerFenceProofs.** `FencedBeforeFailover`: under
`Budget == (SelfFence - 1) + Period + 2 * CallMax + LockMax + Skew <= Ttl` the
runtime is down when its org has moved, unless the worker came back between the
controller's read and its move. `IInv` bounds the age of the row by the silence
and the silence by what the heartbeat task is doing (`RowFollows`,
`SilenceBounded`); hence a row read as dead means a runtime that is down and cannot
start without a heartbeat (`DeadIsDown`). `fence_budget` checks the same at
equality; the default settings do not satisfy it (section 3).

**FlowPlacementProofs.** `PlanCoherent`: for any orgs, workers, capacities and
limits, a plan has one change per org at most, from where the org was read to where
the plan counts it, and releases only orgs counted without flows. `PlanMatches` is
not inductive: `SurveyInv` says what the survey may have done so far (releases only,
no org counted away from its place), `PlanningInv` that an org waiting for a place
has no change yet and any other that was moved has one, `ChangesInv` the rest. The
hard step is `Rebalance` of an org that has failed over in the same plan, where the
change is collapsed into one or dropped.

`BalanceHelps` states `RebalancingHelps` for any finite sets of orgs and workers, any
weights, capacities and limits. `BalanceInv` carries it: during the survey the load of
a worker is the sum of the weights of the orgs counted there; an orphan was on no
worker that was read, so that the first failover ends the promise; and a rebalancing
step keeps it, because an org lighter than the distance leaves both workers between
the least and the most loaded one. Sums and maxima are induction over data, which
the provers cannot do from the library's induction theorems; the module does it with
the theorems on well-founded relations instead, by a least counterexample
(`LeastNumber`, `LeastSet`): the fold that adds weights is well defined
(`TotalsExist`, `TotalsAgree`), adds in any order (`TallyAdds`), and a finite set of
numbers has a maximum (`LargestNumber`), hence what the spread bounds (`Farthest`).
`FlowPlacement` assumes for this that orgs and workers are finite
(`FiniteAssumption`), which rows read from a table are.

The module also proves the lease behind the
controller (`RowLease`): `LeaseTypeCorrect`, `GrantsBacked`, `LeaseExclusive`,
`LeaseNeverStolen`. `GrantBackedByRow` (a running grant belongs to the holder and
does not outlast the row) is inductive with the type invariant; exclusivity follows
from it because the row has one holder, and the action property from the guards of
the take-over. It assumes TTL > 0.

**FlowClusterProofs.** `TypeCorrect` says here that no bound is ever exceeded, and
rests on `Bounded`: at most one push is awaited, and as long as it is, there is room
left for the bump that follows. `SeenApplied`: while nothing failed and no
placement was released, an idle owner that has seen the version of now has, and
runs, what the database says. Three invariants carry it. `Versions`: with no
release a version is never used twice, so a node knows the version of now only as
the owner it was made for, be it in `seen`, in the lock or in what a reconcile has
read. `AllAwaited`: while calm every push is awaited by the call, so none is applied
behind its back. `AppliedSeen`: fragment and runtime follow whatever sets `seen`,
through the steps of a deploy that holds the lock.

**EdgeUplinkProofs.** `Implements`: `Spec => Delivers`, the refinement of
`EdgeDelivery` with `held <- queue, delivered <- ingested, discarded <- trimmed`,
and from it `AllAccounted`. An acknowledgement is cumulative, so a purge is a
`Release` only if everything below it was ingested or trimmed. `IInv` says so
through the network: whatever is or will be acknowledged, and whatever a mark lets a
session skip, is settled (`MarksCovered`); below the last point of a batch there are
only settled points and points of this or earlier batches of the connection
(`NoGap`); what the connection has been sent reaches back without gaps to what is
settled (`SentBelow`); every number given out is accounted for (`Numbered`).
`PointsOnceInOrder` (`OrderInv`): while calm, the last session that has read the mark
knows all that was ingested and is alone to have a mark still to write (`Within`,
`Unmade`); the mark is complete when none has. So a session never ingests below
what any session has ingested.

**RunnerJobsProofs.** `JobsEndOnce`: whatever calls are late, lost, repeated or
executed after their caller gave up, a job that has ended keeps its state, and its
runner unless that is deleted. The argument is that every statement on a row is
conditional on a state that has not ended; the proof goes through every action,
the strays and the two statements of the reaper.

The other two are about time, and rest on how soon a runner looks at each of its
jobs. `Soon(r, j, w)` bounds this by what is left of the call under way, two calls
for each job still to be followed, one for each job that may yet be claimed, and the
next round; the most this can be is
`WaitMax = 5 * (MaxJobs - 1) * CallMax + 1` (in rounds of the model).
`Prompt`, that every job held is looked at within `WaitMax`, is an invariant
because a claim cannot bring a job that this runner holds or has just claimed and
whose lease has not run out (`Settled`), so that the claims of a round come to an end.

- `HealthyKeepsJobs`: under `HealthBudget == Lease > Beat + WaitMax + 2 * CallMax`
  a runner whose calls are all answered keeps the lease of every job it holds.
  `Covered` says by how much: while no heartbeat is due, the lease reaches
  `Lease - CallMax - Beat` beyond it; when one is, it covers the wait and the call.
  With the numbers of the code (lease 120 s, heartbeat 30 s) and one job, the
  budget holds with calls of 20 s. With `MAX_JOBS_DEFAULT = 4`
  it holds only while calls are answered within about 5 s: one loop follows all
  jobs in turn, so slow calls about three of them use up the lease of the fourth.
- `OverlapIsBrief`: under `OverlapBudget` (a lease longer than
  `WaitMax + 2 * CallMax`, a heartbeat period not longer than a lease) two runners
  that are up work on a job for at most `StopMax = WaitMax + 4 * CallMax - 1` after
  it was given to the second. `Clocked`: `lease_until` of a runner is at most a call
  later than the lease of the row, because both instants are counted from before the
  call. `Stops(r, j, n)` counts what a runner that has lost the job may still do:
  let `lease_until` come, be busy elsewhere, begin a call, have it fail, and ask for
  the logs. `Others` adds it up over the claims; the run shows the sum to be tight.

**DeviceSessionsProofs.** `RegistrationsKept`: the registration and the route of the
live session go only by a later claim of them, a crash, a restart, an expiry or a
command that finds the pod deaf, so in particular never by the end of an older
session.

**DeviceLivenessProofs.** `LastSeenGrows`: for any TTL, lag, pass and write times with
`WriteMax + Lag < Ttl`. `SeenInv`, up to `Lag` each time: a score in Valkey is at least as
recent as PostgreSQL (`ScoreInv`); what a release (`ReleaseInv`) or the pass (`PassInv`) is
about to write is not newer than the score, unless Valkey lost it; a score that is still
stale when it is removed is in PostgreSQL (`RemoveInv`). The assumption is needed: a release
whose write takes longer than the TTL may write an older instant over the one the
reaper has saved. With clocks that differ by `Lag` the sign of life may go back by that
much, when a session of a slow pod signs after one of a fast pod; with `Lag = 0` not at all.
`OffWhenSilent` (`QuietInv`): the score in Valkey is older than the last sign of life by
`Lag` at most unless Valkey was restarted since (`SignInv`); a pass without grace has found a marker as old as the TTL (`GraceInv`); and what the pass is
about to switch off was silent when it was read, or has been heard only since
(`OffInv`).

**Only model-checked**: all liveness properties (`RoundsGoOn`,
`SettlesOnArtifact`, `KeepsRespawning`, `HaltIsServed`, `Converges`,
`OldOwnerLeaves`, `EndsDark`, `Settles` and `Served` of `FlowPlacement`, `Ends`,
`Settles` of `EdgeUplink`, `CommandsReach`, `ActiveFollows`), since liveness under
fairness is out of the prover's reach. Every invariant and every action property of
the runs is also a theorem.

## 6. Not modelled

See the components with status `not_modelled` or `partly` in `PROJECT.json`, whose
notes say what is left out. In short: agent runs and chains, command
acknowledgements and OTA, the drain of a pod, builds, pipelines, retention and the
media pipeline are worth modelling and have not been; the write fence is a bound of
one second on a check; the org lock is assumed to work; REST CRUD, the user
interface, ontology, vision, documents, numerical libraries and vendored code,
which are most of the repository's lines, have little of what a model checker
finds; mirror and firmware are programs of their own. Hazards without a property
are listed with a note there.

## 7. What could come next

1. `AgentRuns`: admission and settlement against a budget, with concurrent
   admissions and a settlement repeated after a crash.
2. An abstract specification of the cluster (owner, intended content, content that
   runs) that `FlowCluster` without faults implements, on the invariants of
   `FlowClusterProofs`.
3. Command acknowledgements above `DeviceSessions`: a command is answered once, or
   times out; then OTA.
4. `OrgLock`: the advisory lock that dies with its connection under the call.
