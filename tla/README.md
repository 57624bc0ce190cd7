# taOS: a TLA+ verification project

taOS (`tinyagentos`) runs AI agents on the machines of a household: it lends
them the GPUs of those machines, gives them cards to work on, lets agents from
outside join and carries their chat. A controller process (one asyncio event
loop, some worker threads, SQLite stores) does all of it; remote workers register
with it, heartbeat and run what they are given. This project models the parts of
the controller where coroutines, threads, crashes and other machines meet,
because mistakes there need an unlucky order that no test writes down.

All models describe the code at one commit; line numbers are in `PROJECT.json`
("map").

## Inventory

| Component | State | Operations | Hard behaviour | Modelled in |
|---|---|---|---|---|
| VRAM reservation ledger (`vram_reservation.py`) | running counter, pending reservations, a lock | reserve, release, TTL sweep, available_vram | probe in a thread under the lock; release without the lock; sweep in a thread | `VramReservation` |
| GPU arbiter (`scheduler/gpu_arbiter.py`) | priority queue with shadow dict and tombstones, running tasks, reservations, futures | submit_gpu, the drain loop, eviction, cancel_op, lease renewal, pause/resume, stop/start | every await is a place for a cancellation; eviction order; lease loss; bounded queue | `GpuArbiter` |
| Cluster manager, its store and admin routes (`cluster/manager.py`, `worker_registry_store.py`, `routes/cluster.py`) | registry of workers, leases, generation and fence, rows, updates | register, heartbeat, unregister, claim/release/renew, drain, monitor, persist, revoke, block, update | monitor suspends between marking and sweeping; replaced objects; crash; second controller | `ClusterManager` |
| Job queue, workers, resource manager, gaming detector (`scheduling/`) | rows of jobs, limits, who has yielded | enqueue, dequeue, complete, fail, cancel, yield, reclaim, refresh | cancelled callers whose thread commits; limits applied while somebody yields; restart with running jobs | `JobQueue` |
| Project board (`projects/task_store.py`, `routes/projects.py`) | cards, claimers, blockers | create, claim, release, close, reopen, quarantine, patch | two claims at once; four ways back into the pool | `TaskBoard` |
| Mirror of the board (`projects/beads_bridge.py`) | dirty marks, a file, a subscriber | mark, render, export, announce | a change during a rendering; crash with marks in memory; stale edges | `BeadsBridge` |
| Invites, consent requests, agent registry (`projects/invite_store.py`, `routes/project_invites.py`, `routes/agent_auth_requests.py`, ...) | rows in four stores | redeem, approve, deny, register, life cycle | a handler is a dozen commits in several databases; compensation after failures | `Onboarding` |
| Agent chat (`agent_chat_router.py`, `agent_loop.py`, `bridge_session.py`, ACP adapter) | message log, queues, turns, streams | route, deliver, reply, stream, reconnect, time out | reconnects, turns that fail with messages waiting, chains of replies | `AgentChat` |
| Pairing store, worker agent | one-time codes, signing keys | announce, confirm, claim, revoke | concurrent redemption, expiry | planned |
| Routines, peer outbox, task scheduler, device pairing, decisions | rows, retries, slots | fire, retry, submit, decide | duplicate firing, lost delivery | planned |
| Downloads, updates, restarts, containers, proxy, knowledge, hub, desktop | mostly I/O | | out of reach of a model checker or without logic of their own | no |

How the modelled parts interact. A model pull (`routes/models.py`) and the
arbiter reserve VRAM on the same ledger before they load a model. The arbiter
runs a task that names a remote GPU under a lease of the cluster manager, renews
it while the task runs, and is told by the cluster manager to cancel the tasks
of leases that were taken away (`cancel_running_for_leases`). Routes, chat
commands and routines write the board; only the routes tell the mirror. A
redeemed invite creates a consent request and approves it with the same code as
an admin. The router hands a message to an agent's loop or to its bridge, and a
reply comes back to the router.

What makes them correct:

- ledger: the counter is exact; what is promised on a reading fits the GPU;
  every call is answered;
- arbiter: models loaded on a reading fit; a reservation lasts exactly as long as
  a run; no lease leaks; no submitter is forgotten; a cancelled task does not
  run; what finds no room in the queue is answered;
- cluster: one active lease a resource; no lease without its worker; offline
  workers hold none; store and registry agree across crashes; drains end, silent
  workers leave routing, a superseded controller lets go;
- jobs: one executor; starts within the limit; what has ended stays; a yield
  holds until it is taken back, and a reclaim restores the limits; waiting jobs
  are served;
- board: an agent holds one card; an open card can be claimed; no change is
  missing from the mirror for good;
- onboarding: one active agent a handle; an invite is good for one; a failed
  approval gives it back; "accepted" means usable; no identity without a request;
- chat: one turn at a time; what streams can still be settled, and what has been
  settled is never rewritten; counted chains of replies end; queues drain.

The hazards behind these properties are listed in `PROJECT.json` ("hazards"),
each at the line where it bites.

## Modules

| Module | Models |
|---|---|
| `VramUnits` | what the ledger counts: clients, what each asks for, the sum of a set of requests |
| `VramLedger` | abstract specification: a ledger that grants, admits and drops in one step |
| `VramReservation` | `vram_reservation.py` and the GPU memory its clients occupy; implements `VramLedger` |
| `GpuArbiter` | `scheduler/gpu_arbiter.py` on a host with a local GPU, with the ledger's lock and probe |
| `LeaseTable` | abstract specification of what a holder of a lease may rely on |
| `ClusterManager` | `cluster/manager.py`, `worker_registry_store.py` and the status-changing routes of `routes/cluster.py`; implements `LeaseTable` |
| `JobQueue` | `scheduling/job_queue.py`, `job_worker.py`, `resource_manager.py`, `gaming_detector.py` |
| `TaskBoard` | `projects/task_store.py` and the task routes |
| `BeadsBridge` | `projects/beads_bridge.py`, composed with `TaskBoard` |
| `Onboarding` | invites, consent requests, approval and the agent registry |
| `AgentChat` | router, agent loops over ACP, bridge sessions |
| `*Proofs` | theorems and proofs about the module they are named after |
| `MC*` | small instances for TLC |

Operators whose comment starts with "Mutant:" are plausible mistakes in the
operation that follows them. No specification uses them; putting one in the place
of its operation must violate the property `PROJECT.json` ("mutants") pairs it
with.

### VramReservation

A client's `pc` follows its `reserve()` call: waiting for the lock, probing in
the worker thread, probed (the reading is in `probe`), granted. `reserved` is
`_reserved_vram_mb`, `pending` the keys of `_pending`, `stale` those past the
TTL. The sweep on the event loop is one step (`SweepStaleUnlocked`); the sweep
that `available_vram()` runs in a worker thread is two, because the interpreter
(CPython 3.11 to 3.13 with the GIL) may switch threads between the pop and the
subtraction, while each of them is indivisible. `resident` is the memory really
in use: a client loads after its grant, and a client in `KeepResident` (a
backend that keeps the pulled model) may release with the model still loaded.
The clamp of a negative counter (267-269) never acts: LedgerExact.

### GpuArbiter

An action is the code between two awaits that really suspend. `sub` follows the
submitter, `run` the coroutine `_run_gpu_task`, `dpc`/`hand`/`retry` the drain
loop, `evicting` whoever waits in `_evict_task`. A task may be cancelled in
every one of these awaits. An admission check is `reserve()`: it takes the
ledger's lock and reads the hardware (`Probe`, into `seen`), and answers later,
on that reading and the promises of that moment. `vouch` says how a task got in:
"enforced", on a reading; "open", when the probe inside `reserve()` failed, which
records the grant and never refuses (`vram_reservation.py:125-136`); "bare", when
the first probe failed and the task was admitted without any reservation; and
"expired" once the TTL sweep has taken the reservation of a running task.
NoOvercommit vouches for the enforced ones; the others really can exceed the GPU.
A cycle puts back what it could not admit in the order it popped it (`retry` is
a sequence), so with the queue full it may be a more urgent newcomer, popped
later, that finds no room; it is answered with an exception. The second look at
the tombstones after the put (803-805) is dead code, since nothing suspends
between it and the first, and is left out.

### ClusterManager and LeaseTable

Handlers are single steps: the lease lock is never held across an await. The
monitor keeps the event loop while `mpc = "visit"` and suspends in `notify`,
`record` (a notification is written) and `cancel` (the arbiter ends tasks).
`frozen` holds the WorkerInfo objects of the current pass that were replaced or
removed; the monitor reads and marks those instead of the registered ones.
`upd` marks a worker whose update route waits for the answer to its deploy
command; heartbeats, removal and registration go on meanwhile.
`op` is the last statement issued for a row (SQLite runs them in order),
`persist` the heartbeats' persistence tasks that have not run. `Restart` is a
crash: memory is lost, committed rows come back as "stale" workers.

`LeaseTable` has one variable, the valid lease of each resource, and two actions:
a free resource is granted, a set of resources is lost. The refinement maps an
expired lease that has not been swept to "free". A resource therefore never
passes from holder to holder in one step, even where a claim sweeps an expired
lease first: that sweep is what the expiry has already been counted as.

### JobQueue

`job` is the status column, `order` the rows by creation. A dequeue has two
steps, the SQL in its thread and the return to the worker, because the worker
may be cancelled in between. Opening the queue fails every running row; this
happens at the start and once more when the first request to `/api/jobs` opens
its own queue on the same file. The resource manager's callers (`detector`,
`tray`, `refresh`) probe, decide and then make a sequence of `set_limit` calls
(`todo`), each a step. `yielded` is the manager's flag and `game` the detector's;
the tray may go through the detector or past it. `mixed` records that the last
yield or reclaim met the calls of its opposite under way, and is TRUE after a
start: the limits are written through, so a restart finds the throttled ones and
no yield to end, until somebody refreshes. Nothing in the repository does so
regularly, and no fairness is assumed of `Refresh`.

### TaskBoard and BeadsBridge

Each operation on a card is one guarded UPDATE, hence one action. `BeadsBridge`
adds what follows the commit: a route marks the project dirty some suspensions
later (`MarkDirty`), chat commands, routines and the GitHub sync mark nothing.
The file is modelled by the origins of the changes it does not show
(`missing`), a rendering in progress by the changes since it read (`snap`).
Closing a card publishes an event; the subscriber announces what it takes for
newly ready cards.

### Onboarding

The stores are separate databases behind awaits, so each committed statement is
an action and everybody else may run between two of them. `pc` follows a
redeemer or an admin through `redeem_invite` and `approve_request_record`: look
up the handle, register a pending row, activate it (where the partial unique
index decides), grant, decide. The registry's connection is shared: a write that
fails leaves its transaction open (`Dangling`) until the handler's `rollback()`,
and an activation another approval executes in it is undone with it although its
own `commit()` succeeds (`undo`, `Commit`, `Rollback`). Other writes in that gap
are taken as failing, which is what they amount to. The histories say which rows
the properties except: `excused` the handles hit by an error, a denial, a rollback
or the life cycle, `disturbed` the identities an admin moved before an approval
activated them or whose activation was rolled back, `back` the requests whose
redeem failed and gave the invite back, `burned` the invites hit by a crash or a
failing write.

### AgentChat

One channel in lively mode. A message is its place in the log. `todo` is what
routing has yet to hand over, `queue` what waits in an agent's loop or in a
bridge's stream queue, `inbox` what a bridge has received, `turns` what an ACP
agent is being driven with. `depth` counts the replies between a message and the
user independently of the code's own count `hops`, so HopCap compares the two.
`shown` holds the placeholders a session knows, by agent and trace id.

A bridge may answer any message it has received, any number of times and in any
order, with chunks, a final, an error, or a reply without its trace id (`Reply`).
`record_reply` is one step, except that two first chunks may race for the
placeholder (`RacingDelta`) and that a final whose trace cannot be written has
popped its placeholder already. `subscribe` drains the old queue into the new one
and swaps them under the lock without an await, so its net effect on what waits
is nothing (`Subscribe` leaves `queue` alone); what is lost is a frame that was
already given to a stream whose connection is broken (`Yield` to a dead stream).
Over ACP a turn streams, ends or fails, chunks may still come while the final is
being sent or after a failure (`LateDelta`), and the safe point takes the next
message from the queue. `stuck` and `uncounted` are histories: rows nothing will
settle any more, and chains whose count the code has lost.

## Runs

Passing runs:

| Run | Instance | Shows |
|---|---|---|
| `vram` | 4 clients (3, 2, 1, 0 units of 3), failing probe, TTL, one client that keeps its model, fairness | LedgerExact, NoOvercommit, refinement of `VramLedger`, ReserveAnswered |
| `arbiter` | tasks of 2, 2 and 0 units on 3, three priorities, one with a lease, fairness | NoOvercommit, NoLostWaiter; WaiterServed |
| `arbiter_faults` | tasks of 2, 2 and 0 units on 2, queue of 1, raising checks, failing probes, TTL, stop/start | NoOvercommit, ReservationsMatchRuns, NoLeaseLeak, RefusedNeverRuns, LostOnlyByCuts |
| `cluster` | 1 worker, 2 claims for its GPU (one by the arbiter, one by an API client), store, restarts, second controller, fairness | NoOrphanLease, OfflineReleased, RegistryDurable, refinement of `LeaseTable`; DrainCompletes, SilentLeavesRouting, OrphanTaskEnds, FenceReleases |
| `jobs` | 2 jobs, 2 workers, one resource, re-opening and restarts, fairness | OneExecutor, YieldSticks, ReclaimRestores, StartsWithinLimit, FinalIsFinal; JobServed |
| `board` | 2 cards, one edge, 1 agent, failing renderings, restarts, fairness | OneClaimPerAgent, OpenIsClaimable, NoLostExport; ExportCatchesUp |
| `onboarding` | 1 invite, 2 redeemers, 1 admin, 2 requests, 2 identities and a suspended one, 2 forms of a handle, failures, rollbacks, crashes | HandleUnique, AcceptedIsUsable, InviteSingleUse, ClaimIsTemporary, NoOrphanIdentity |
| `chat` | 2 agents behind bridges or one of them over ACP, 3 messages, max_hops 1, repeated and racing replies, failures, reconnects, restarts, fairness | OneTurn, StreamingIsOwned, HopCap, HistoryStable; QueueDrains |

Runs that show a disagreement between the code and what is written about it (the
quotes are in `PROJECT.json`, "findings"):

| Run | Property | What happens |
|---|---|---|
| `vram_stale_probe` | LoadsFit | a release between probe and check, with the model still loaded, lets the next load exceed the GPU |
| `arbiter_lost_retry` | RetriedLater | an exception in a drain cycle loses the entries popped before it |
| `cluster_sweep` | SweepsOnlyOffline | a fresh lease of an online worker is swept |
| `board_announce` | AnnouncedIsReady | the edges are followed in the wrong direction, so cards are announced that still wait |

Questions that a theorem now settles for every instance (two workers, the type
invariants, exclusive leases) have no run of their own any more.

### Smaller disagreements

Met while modelling; the models contain most of them and no run is kept for them.

Arbiter and ledger:
- the ledger's TTL takes the reservation of a task that runs longer
  (`vram_reservation.py:257`), and a failing probe admits whatever asks
  (`vram_reservation.py:125`, `gpu_arbiter.py:280`, 295): such tasks are not
  vouched for in NoOvercommit, and with them the GPU can be exceeded;
- a loaded model under reservation counts twice at admission, in the reading and
  in the promises (Fits), against the design note's "no double-counting";
- an entry that the drain loop drops because the queue filled up meanwhile stays
  in `_queued_entries` (`gpu_arbiter.py:808-812`);
- the drain loop never reads `entry.evictable` (`gpu_arbiter.py:746`);
- `stop()` during an eviction is swallowed by the clause meant for the victim
  (`gpu_arbiter.py:642`), and the processor goes on;
- a drain cycle that finds the queue full drops what it popped last, not what is
  least urgent (`gpu_arbiter.py:789-812`).

Cluster:
- a worker under update that heartbeats is routable and is given leases
  (`manager.py:327`, against `routes/cluster.py:1373-1375`); the route sends the
  deploy command without waiting for leases (1359-1367);
- `claim_lease` and `cancel_drain` do not look at `_fenced`, so a fenced
  controller can still grant a lease until the next pass (FenceReleases);
- revoke and block set a worker offline and keep its leases;
- a failing `remove_worker` is logged only, and the worker is back after the next
  start; an exception in `emit_event` ends the monitor.

Jobs:
- a yield that meets an `_apply_limits` already under way is overwritten
  (`resource_manager.py:260`, "If user has yielded, don't override throttled
  limits"); YieldSticks leaves that case out (`mixed`);
- a reclaim that meets a yield still setting its limits ends throttled, and a
  process that dies while it has yielded starts throttled with nobody to end it
  (`job_queue.py:112`), both until the next refresh; ReclaimRestores leaves them
  out;
- low memory lowers the CPU and NPU limits only, while the comment says "reduce
  all limits" (`resource_manager.py:279`);
- a worker cancelled in `dequeue` leaves its row running, and its slot taken,
  until the next start;
- `job_worker.py` parses the payload outside its try block.

Board:
- chat commands, routines and the GitHub sync do not mark the project dirty, so
  their changes reach the mirror with the next change of a route;
- projects created after the start are never subscribed (`beads_bridge.py:119`);
- the check for parent cycles and the write are two statements
  (`routes/projects.py:851`).

Onboarding:
- an invite stays "claimed" for ever after a crash, a failure of the OS-level
  path or a failing `mark_redeemed`; "expired" is written whatever the row says
  by then (`invite_store.py:349`);
- deny does not take the approve lock; the lock's entry is popped while others
  may wait for it (`agent_auth_requests.py:361`), so that after a failed approval
  two admins can be inside: the model lets admins approve one request side by
  side from the start, each admin one request at a time;
- `registry.rollback()` runs on a connection others share
  (`agent_auth_requests.py:563`): it can undo an activation that another approval
  has executed and not yet committed, and that request is accepted with an
  identity that is pending, against "approving the auth-request transitions them
  to 'active'" (552-555). Without `disturbed` TLC violates AcceptedIsUsable in 17
  steps;
- an admin who approves a request while its redeem is under way makes
  `set_decision` return None there (657); the redeem fails, the invite goes back
  to pending (`project_invites.py:1159-1160`) and a second redeem is accepted:
  two agents from one invite, against "single-use" (1074). Without `back` TLC
  violates InviteSingleUse in 18 steps;
- `create()` may raise after its commit (`auth_requests_store.py:115-119`): a
  request is left that no redeemer knows of;
- an admin who activates, through the life-cycle routes, a row that an approval
  has just registered and then suspends it lets that approval's clean-up delete
  an identity another request was accepted with (`agent_auth_requests.py:556`;
  TLC shows it in 18 steps with Lifecycle = Transition). Such rows are `disturbed`
  as well; the run keeps Lifecycle small (agents are brought back), the theorems
  allow every transition.

Chat:
- "Hop cap (max_hops) stops agent-authored chains unless overridden by mention"
  (`agent_chat_router.py:29`) does not hold where the count is lost: on the ACP
  path, the default transport, which never records hops; after a restart; and,
  since a reply pops the count (`bridge_session.py:343`, 360-361), for a second
  final, an untraced one (264) and one whose first attempt failed. HopCap is
  about the other chains (`uncounted`);
- a reply that was streamed is completed in place and not dispatched, although
  the comment there says "Re-dispatch so other agents in the channel see this
  reply.";
- a frame yielded to a dead stream is gone, although "no user_messages already
  enqueued are lost" (`bridge_session.py:203-205`);
- a bridge that dies in the middle of its answer leaves its message "streaming"
  for ever (it can be settled, but nobody does); so does, with nothing left that
  could settle it, a chunk that comes while the final is being sent
  (`acp_adapter.py:328`) or after a failure, the second of two concurrent first
  chunks (`bridge_session.py:286-299`), a chunk without a trace id, a final whose
  trace cannot be written (324-335), and a restart.

### Bounds

In `vram`, `arbiter`, `cluster`, `jobs` and `board` the sets of clients, tasks,
workers, leases, jobs and cards are the only bounds; no counter is capped. Three
clients are enough for one that holds, one that is admitted on an old reading
and one that releases in between; three tasks for a running one, one in the
drain loop's hand and one in its retry list; one worker with two claims for every
race on a lease; two workers and two jobs for a slot that is taken, leaked or
reported late; two cards for an agent that could hold both. `onboarding` uses
each request and identity once; two redeemers and an admin give three
approvals for two handles, and a redeem that fails can be tried again with the
second request. `chat` bounds the log (MaxMessages = 3, of which MaxUser = 1 is
the user's): a message, a reply to it and a reply to the reply reach beyond
max_hops = 1, and another agent's reply queues behind the message an agent is
working on. The properties hold with MaxUser = 2, too (680,000 states,
a few minutes).

`onboarding` uses symmetry over redeemers, requests and identities, which appear
only in equality tests; it has no liveness property.

### Fairness

`vram`: the asyncio lock wakes its waiters in arrival order (strong fairness of
Acquire), the probe has a timeout, the event loop runs what is ready. `arbiter`:
payloads end, cancelled ones unwind, ticks come; nothing is assumed of
submitters, operators or leases. `cluster`: the monitor runs (the notification
store answers), a cancelled task unwinds and a renewal loop comes round (strong
fairness, since the event loop takes its callbacks in turn whenever the monitor
is suspended); workers, lease holders and admins may do nothing for ever. `jobs`:
a worker's loop polls and its payload ends, probes and `set_limit` calls return;
nobody has to yield, to reclaim or to refresh. JobServed is about a process that
is left alone from some time on. `board`: a route that has
committed returns, the writer wakes after its debounce, the lock is handed on in
turn and a rendering does not fail for ever. `chat`: a turn ends, after
`request_timeout` (120 s) at the latest, and a bridge reconnects and reads; for
agents and users nothing is assumed.

## Proofs

For every set of clients, workers, jobs, cards, invites, agents and messages and
for every size, limit and bound, TLAPS checks:

- `VramReservationProofs`: VramTypeCorrect, LedgerCounterExact, ReservedLoadsFit
  and LedgerRefinement. The inductive invariant adds to TypeOK and LedgerExact
  who holds the lock in which step and that the enforced reservations fit the
  GPU, which a grant keeps because a reading never exceeds Total.
  LoadsFitWhenFreed proves LoadsFit where backends free a model before the
  release (`KeepResident = {}`), the TTL is off and probes answer; the run
  `vram_stale_probe` violates it by giving up the first of these. It needs who
  holds the lock (OneReserveInside: exactly the call between its probe and its
  check), that the reading is that call's own, and that a loaded model has a
  reservation, so that an old reading is too pessimistic at worst.
  LedgerKeepsPromises is about the abstract `VramLedger` alone.
  `VramUnitsProofs` has the lemmas on sums; a sum is the number of cells a set
  occupies, so the library's cardinality theorems apply and no induction is
  needed.
- `GpuArbiterProofs`: ArbiterTypeCorrect, ReservationsCorrect, LeasesReleased,
  CancellationFinal, ArbiterNeverOvercommits and WaitersNotLost. The invariant
  IInv relates a task's place in the queue, in the drain loop's hand, in the retry
  list and in its run: a task is in at most one of them, a tombstone is there for
  every refused task the drain loop may still start, and a resident model belongs
  to a started run. PromisesFit, a part of it, says that the reservations granted
  on readings fit the GPU: a grant is checked against all promises, whatever the
  reading says, so neither an old reading nor a grant without one breaks it; with
  ReservationsMatchRuns it gives ArbiterNeverOvercommits. WaitersNotLost adds
  that a waiter has no tombstone, that a run being cancelled under it is an
  eviction, and that entries are set aside only within a cycle; it assumes that
  admission checks do not raise and the arbiter is not stopped
  (`arbiter_lost_retry` shows why). WaitersLostOnlyByCuts drops the assumptions:
  with raising checks and stops, the two steps that cut a drain cycle short are
  the only ones that forget a waiter, and they forget only entries that cycle had
  popped; a full queue does not. EntriesRetried proves RetriedLater, the property
  of `arbiter_lost_retry`, under the same two assumptions as WaitersNotLost.
- `ClusterManagerProofs`: ClusterTypeCorrect, LeasesExclusive,
  LeasesNeverOrphaned, OfflineWorkersReleased, RegistryIsDurable and
  LeaseTableRefinement. TypeOK says that the monitor is in `notify` exactly while
  it has a worker to record; with it the first four are inductive.
  RegistryIsDurable needs a store (`Persistent`) and the strengthening
  PersistLive: a persistence task that holds a registered object belongs to a
  registered worker. The refinement rests on LeasesExclusive: every step but a
  claim only takes valid leases away, and a claim finds its resource free.
  LeasesNeverHandedOver draws the consequence a holder cares about from the
  abstract table. MonitorWaitsForCancelled is the safety half of "the monitor does
  not hang": what it awaits has been told to stop and is not started again.
- `JobQueueProofs`: JobsTypeCorrect, JobsHaveOneExecutor, EndedJobsStay and
  LimitsHold. The strengthening HandTaken says that the row in a worker's hands
  has left "pending" for good. LimitsHold maps workers to the rows they hold; the
  map is an injection into the running rows, which the dequeue has counted.
  YieldHolds strengthens YieldSticks to the time before the calls are through:
  while the user has yielded, nobody is about to apply limits, every pending call
  throttles, and each resource is throttled or has such a call on its way.
  ReclaimHolds is its counterpart for the GPU: no yield is under way, and the
  limit is the probed one, or somebody is probing or about to set it.
  JobsRunAtMostOnce says that a row leaves "pending" once and a job is handed out
  only there; SlotsLostOnlyByCancellation bounds the leaked slots by the number of
  cancelled workers: a cancellation adds one worker and at most one row, and no
  other step adds a row.
- `BeadsBridgeProofs`: BridgeTypeCorrect, AgentsHoldOneCard, OpenCardsClaimable
  and ExportsNotLost. The first invariant is about the board alone; the second
  says that whatever is missing from the file and is not covered by a mark or a
  waiting writer is covered by the board the writer has read. ClaimsAreLeases is
  a second refinement of `LeaseTable`: the claims of cards are leases on them, the
  claim UPDATE is the grant, and release, re-opening, un-quarantining and an
  owner's PATCH to "open" lose them.
- `OnboardingProofs`: OnboardingTypeCorrect, HandlesUnique, AcceptedUsable and
  IdentitiesOwned, for every set of life-cycle transitions and with nothing
  assumed of admins. The invariant says what an approval knows at each of its
  statements: the row it has registered is nobody else's until it is activated;
  unless the row is `disturbed` (or its handle `excused`), it is pending before
  the activation and has been active after it; the decision comes after the
  grants; and a transaction is open only while a handler is about to roll it back.
  An approval that finds its request accepted by another one has the same
  identity, because both are active under one handle. InvitesAreSingleUse and
  ClaimsAreTemporary: at most one redeemer holds an invite and none while it is
  pending, a redeemer works on the request it made itself, and an invite with an
  accepted request is not given out again, unless the redeem of that request had
  failed (`back`). DecisionsAreFinal: the statements are conditional on the row
  they find, so a decision, its author and its identity stay, and a revoked
  identity stays revoked until an approval deletes the row it registered.
- `AgentChatProofs`: ChatTypeCorrect, OneTurnAtATime, StreamsAreOwned,
  ChainsAreCapped and MessagesAreFinal. The loop is idle exactly while it has no
  turn; a placeholder is a streaming row of its agent, the only one of its trace
  id, and over ACP its turn is going on; a row that streams is somebody's
  placeholder. So the step that takes a placeholder out of `shown` is the one that
  settles it, and nothing else is ever rewritten (MessagesAreFinal). For the hop
  cap: a counted row's `hops` is at least its real distance from the user, and
  what a bridge remembers of an unanswered message is one more than the row says,
  and within the cap unless it was forced.

Assumptions: the named ASSUMEs of the modules (finite sets where something is
counted, natural sizes, constants of the right types, and markers such as NoOne
that are not clients). TLC evaluates them in every run.

### Only model-checked

The liveness properties (ReserveAnswered, WaiterServed, DrainCompletes,
SilentLeavesRouting, OrphanTaskEnds, FenceReleases, JobServed, ExportCatchesUp,
QueueDrains) are out of the prover's reach, which does not
handle fairness. SweepsOnlyOffline and AnnouncedIsReady are violated by the code
and have no theorem. Every other property of the runs is proved.

## Not modelled

- In the modelled components: the arbiter's compute-capability check and its
  admission on a controller without a GPU; monitoring counters; what a heartbeat
  says of hardware and models; the "local" worker; failing writes to the
  registry store; a monitor that dies of an exception; what a second controller
  itself writes to the store; the rolling update of all workers; strikes,
  parents and comments of cards; minting of invites, collaboration between
  households, tokens and scopes; threads, leads, mutes, redirects and subagents
  of the chat.
- Components listed as `not_modelled` in `PROJECT.json`: those with logic of
  their own are in the plan below. Containers, installers, downloads, the LLM
  proxy, knowledge fetchers, the hub's cryptography, the desktop shell, most HTTP
  routes (`routes/settings.py`, `routes/agents.py`, `routes/store_install.py`,
  ...) and the app catalogue are I/O, external services, CRUD over one table,
  generated data or user interface.

## Plan

Done: the ledger, the arbiter, the cluster manager with its abstract lease table,
the job queue, the board and its mirror, onboarding, the agent chat, and their
theorems.

1. Proofs: active handles as leases (`LeaseTable` once more, in `Onboarding`); an
   entry is dropped only when the arbiter's queue is full.
2. The composition of `GpuArbiter` with `LeaseTable`, replacing its free step
   LoseLease.
3. `PairingStore` and the worker's side of pairing and registration.
4. `RoutineRunner` on top of `TaskBoard`: a routine fires once a slot.
5. `PeerOutbox`: at-least-once delivery between households, retry bounds.
6. `TaskScheduler`: slots of a resource under failure and fallback.
