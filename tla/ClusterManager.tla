--------------------------- MODULE ClusterManager ---------------------------
(***************************************************************************)
(* tinyagentos/cluster/manager.py: the controller's registry of remote     *)
(* workers, their GPU leases, graceful drain, the monitor loop, the fence  *)
(* against a second controller, and the persisted registry it reloads      *)
(* after a restart; with the admin routes of routes/cluster.py that move   *)
(* a worker's status (revoke, block, update).                              *)
(*                                                                         *)
(* All of it runs on one event loop, and the lease lock is never held over *)
(* an await, so a handler is one action.  Only the monitor loop suspends   *)
(* in the middle of its work: while it records a notification, and while   *)
(* it waits for the GPU arbiter to end the tasks of leases it dropped.  In *)
(* between it keeps the event loop to itself (mpc = "visit").  It walks a  *)
(* list of WorkerInfo objects made when the pass began: a worker that      *)
(* registers again, or is removed, leaves it with an object that is no     *)
(* longer the registered one, whose status is frozen.                      *)
(*                                                                         *)
(* Refused requests change nothing and have no action: a message with a    *)
(* foreign generation, a claim for more VRAM than the worker reports free. *)
(* The controller's own "local" worker, which the monitor skips, is left   *)
(* out.  A lease id is fresh in the code; here it is used again once       *)
(* nobody refers to it.                                                    *)
(***************************************************************************)
EXTENDS Naturals

CONSTANTS Worker, Resource, Lease,
          Host,        \* Host[r]: the worker part of the resource id
          On,          \* On[l]: the resource the claim l asks for
          OfArbiter,   \* claims made by the GPU arbiter for one of its tasks
          Persistent   \* a worker_registry_store is wired

ASSUME ClusterAssumption == /\ Host \in [Resource -> Worker]
                            /\ On \in [Lease -> Resource]
                            /\ OfArbiter \subseteq Lease
                            /\ Persistent \in BOOLEAN

Routable == {"online", "update-available"}
Reported == {"draining", "update-available", "updating"} \* _VALID_STATUSES
Status   == Routable \cup Reported \cup {"offline", "stale"}
Absent   == "absent"  \* not in _workers

NoWorker == "no worker"

ASSUME NoWorkerAssumption == NoWorker \notin Worker

VARIABLES
    status,   \* status of the registered WorkerInfo, or Absent
    late,     \* workers whose last heartbeat is older than HEARTBEAT_TIMEOUT
    barred,   \* history: set offline by revoke or block, not back since
    upd,      \* upd[w]: an update route waits for the worker's answer
    leases,   \* keys of _leases
    expired,  \* those of them past expires_at
    task,     \* the arbiter task under the lease: none, running, cancelled
    mpc,      \* the monitor loop: sleep, visit, notify, record, cancel
    todo,     \* workers it has still to visit in this pass
    frozen,   \* the replaced objects among them (status Absent: not replaced)
    mw,       \* the worker whose departure it is recording
    mwait,    \* leases whose tasks it waits for
    fenced,   \* _fenced
    newer,    \* the durable generation is ahead of ours
    stored,   \* rows of cluster_workers
    op,       \* the last statement issued for a row and not yet committed
    persist   \* heartbeats' persistence tasks that have not started

workerVars  == <<status, late, barred, upd>>
leaseVars   == <<leases, expired, task>>
monitorVars == <<mpc, todo, frozen, mw, mwait>>
fenceVars   == <<fenced, newer>>
storeVars   == <<stored, op, persist>>
vars        == <<workerVars, leaseVars, monitorVars, fenceVars, storeVars>>

NotReplaced == [w \in Worker |-> [status |-> Absent, late |-> FALSE]]

Init == /\ status = [w \in Worker |-> Absent]
        /\ late = {} /\ barred = {}
        /\ upd = [w \in Worker |-> FALSE]
        /\ leases = {} /\ expired = {}
        /\ task = [l \in Lease |-> "none"]
        /\ mpc = "sleep" /\ todo = {} /\ frozen = NotReplaced
        /\ mw = NoWorker /\ mwait = {}
        /\ fenced = FALSE /\ newer = FALSE
        /\ stored = {} /\ op = [w \in Worker |-> "none"] /\ persist = {}

----------------------------------------------------------------------------
(* Leases *)

LeasesOf(w) == {l \in leases : Host[On[l]] = w}

Active == leases \ expired

\* Leases leave the table, and the arbiter cancels the tasks under them.
DropLeases(L) == /\ leases' = leases \ L /\ expired' = expired \ L
                 /\ task' = [l \in Lease |->
                               IF l \in L /\ task[l] = "running"
                               THEN "cancelled" ELSE task[l]]

\* Mutant: the claim looks for a lease by id, not by resource.
ClaimLeaseById(l) == /\ l \notin leases \cup mwait /\ task[l] = "none"
                     /\ status[Host[On[l]]] \in Routable
                     /\ leases' = leases \cup {l}
                     /\ UNCHANGED <<expired, task, workerVars, monitorVars,
                                    fenceVars, storeVars>>

\* A claim finds its worker routable and no active lease on the resource.
ClaimLease(l) == /\ l \notin leases \cup mwait /\ task[l] = "none"
                 /\ status[Host[On[l]]] \in Routable
                 /\ \A k \in Active : On[k] # On[l]
                 /\ leases' = leases \cup {l}
                 /\ task' = [task EXCEPT ![l] = IF l \in OfArbiter
                                                THEN "running" ELSE @]
                 /\ UNCHANGED <<expired, workerVars, monitorVars, fenceVars,
                                storeVars>>

Expire(l) == /\ l \in Active
             /\ expired' = expired \cup {l}
             /\ UNCHANGED <<leases, task, workerVars, monitorVars, fenceVars,
                            storeVars>>

\* release_lease by an API client, and renew_lease on one that has expired;
\* a renewal in time leaves the lease active.
ReleaseLease(l) == /\ l \in leases \ OfArbiter
                   /\ leases' = leases \ {l} /\ expired' = expired \ {l}
                   /\ UNCHANGED <<task, workerVars, monitorVars, fenceVars,
                                  storeVars>>

\* Mutant: a failed renewal is only logged.
RenewLostIgnored(l) == /\ task[l] = "running" /\ l \in expired
                       /\ leases' = leases \ {l} /\ expired' = expired \ {l}
                       /\ UNCHANGED <<task, workerVars, monitorVars,
                                      fenceVars, storeVars>>

\* The arbiter's renewal loop finds its lease expired or gone.
RenewLost(l) == /\ task[l] = "running" /\ l \notin Active
                /\ DropLeases({l})
                /\ UNCHANGED <<workerVars, monitorVars, fenceVars, storeVars>>

\* The arbiter's task ends and releases its lease.
TaskEnds(l) == /\ task[l] # "none"
               /\ task' = [task EXCEPT ![l] = "none"]
               /\ leases' = leases \ {l} /\ expired' = expired \ {l}
               /\ UNCHANGED <<workerVars, monitorVars, fenceVars, storeVars>>

----------------------------------------------------------------------------
(* Workers *)

\* The registered object of w is replaced or removed: the monitor keeps the
\* old one if it has still to visit it, and a persistence task that is
\* queued for it will find that it is not the registered one.
ReplaceObject(w) ==
    /\ frozen' = IF w \in todo /\ frozen[w].status = Absent
                 THEN [frozen EXCEPT ![w] = [status |-> status[w],
                                             late   |-> w \in late]]
                 ELSE frozen
    /\ persist' = {IF p = <<w, "registered">> THEN <<w, "replaced">> ELSE p :
                     p \in persist}
    /\ UNCHANGED <<mpc, todo, mw, mwait>>

\* A statement for the row of w goes to the database's thread.
Issue(w, stmt) == op' = IF Persistent THEN [op EXCEPT ![w] = stmt] ELSE op

\* The upsert is issued at once: no await comes before it.
RegisterWorker(w) == /\ ~ fenced
                     /\ status' = [status EXCEPT ![w] = "online"]
                     /\ late' = late \ {w} /\ barred' = barred \ {w}
                     /\ ReplaceObject(w)
                     /\ Issue(w, "upsert")
                     /\ UNCHANGED <<upd, leaseVars, fenceVars, stored>>

\* A worker that drains or updates is not put back online by a heartbeat
\* without a status of its own; any other worker is, offline or stale too.
Heartbeat(w, s) ==
    /\ status[w] # Absent /\ ~ fenced
    /\ status' = [status EXCEPT ![w] = IF s \in Reported THEN s
                                       ELSE IF @ \in Reported THEN @
                                       ELSE "online"]
    /\ late' = late \ {w} /\ barred' = barred \ {w}
    /\ persist' = IF Persistent THEN persist \cup {<<w, "registered">>}
                  ELSE persist
    /\ UNCHANGED <<upd, leaseVars, monitorVars, fenceVars, stored, op>>

\* Mutant: the leases are left to their TTL.
UnregisterWorkerKeepsLeases(w) ==
    /\ status[w] # Absent
    /\ status' = [status EXCEPT ![w] = Absent]
    /\ late' = late \ {w} /\ barred' = barred \ {w}
    /\ ReplaceObject(w)
    /\ Issue(w, "delete")
    /\ UNCHANGED <<upd, leaseVars, fenceVars, stored>>

\* Unlike the monitor it leaves the tasks to the arbiter's renewal loops.
UnregisterWorker(w) ==
    /\ status[w] # Absent
    /\ status' = [status EXCEPT ![w] = Absent]
    /\ late' = late \ {w} /\ barred' = barred \ {w}
    /\ leases' = leases \ LeasesOf(w) /\ expired' = expired \ LeasesOf(w)
    /\ ReplaceObject(w)
    /\ Issue(w, "delete")
    /\ UNCHANGED <<upd, task, fenceVars, stored>>

Silence(w) == /\ status[w] # Absent /\ w \notin late
              /\ late' = late \cup {w}
              /\ UNCHANGED <<status, barred, upd, leaseVars, monitorVars,
                             fenceVars, storeVars>>

\* drain_worker, graceful or not, whatever the worker's status was.
DrainWorker(w) == /\ status[w] # Absent
                  /\ status' = [status EXCEPT ![w] = "draining"]
                  /\ UNCHANGED <<late, barred, upd, leaseVars, monitorVars,
                                 fenceVars, storeVars>>

ForceDrainWorker(w) == /\ status[w] # Absent
                       /\ status' = [status EXCEPT ![w] = "offline"]
                       /\ DropLeases(LeasesOf(w))
                       /\ UNCHANGED <<late, barred, upd, monitorVars,
                                      fenceVars, storeVars>>

CancelDrain(w) == /\ status[w] = "draining"
                  /\ status' = [status EXCEPT ![w] = "online"]
                  /\ UNCHANGED <<late, barred, upd, leaseVars, monitorVars,
                                 fenceVars, storeVars>>

\* The revoke and block routes.  The node can pair again at any time.
Revoke(w) == /\ status[w] = "online"
             /\ status' = [status EXCEPT ![w] = "offline"]
             /\ barred' = barred \cup {w}
             /\ UNCHANGED <<late, upd, leaseVars, monitorVars, fenceVars,
                            storeVars>>

\* The update route: drain the worker, send it the deploy command, and take
\* a dropped connection for the restart; or cancel the drain on an error.
\* Until the answer the worker may heartbeat, be removed or register again.
BeginUpdate(w) == /\ ~ upd[w] /\ status[w] \in {"online", "draining"}
                  /\ status' = [status EXCEPT ![w] = "draining"]
                  /\ upd' = [upd EXCEPT ![w] = TRUE]
                  /\ UNCHANGED <<late, barred, leaseVars, monitorVars,
                                 fenceVars, storeVars>>

DeployAccepted(w) == /\ upd[w]
                     /\ upd' = [upd EXCEPT ![w] = FALSE]
                     /\ UNCHANGED <<status, late, barred, leaseVars,
                                    monitorVars, fenceVars, storeVars>>

DeployFails(w) == /\ upd[w]
                  /\ upd' = [upd EXCEPT ![w] = FALSE]
                  /\ status' = [status EXCEPT ![w] = IF @ = "draining"
                                                     THEN "online" ELSE @]
                  /\ UNCHANGED <<late, barred, leaseVars, monitorVars,
                                 fenceVars, storeVars>>

----------------------------------------------------------------------------
(* The persisted registry *)

\* Mutant: the task upserts whatever became of its worker.
PersistRunsUnguarded(p) == /\ p \in persist
                           /\ persist' = persist \ {p}
                           /\ op' = [op EXCEPT ![p[1]] = "upsert"]
                           /\ UNCHANGED <<workerVars, leaseVars, monitorVars,
                                          fenceVars, stored>>

\* A heartbeat's persistence task: a no-op if its object is not the
\* registered one any more, else it issues the upsert at once.
PersistRuns(p) == /\ p \in persist
                  /\ persist' = persist \ {p}
                  /\ op' = IF p[2] = "registered"
                           THEN [op EXCEPT ![p[1]] = "upsert"] ELSE op
                  /\ UNCHANGED <<workerVars, leaseVars, monitorVars,
                                 fenceVars, stored>>

\* SQLite runs the statements in the order of their issue.
Commit(w) == /\ op[w] # "none"
             /\ op' = [op EXCEPT ![w] = "none"]
             /\ stored' = IF op[w] = "upsert" THEN stored \cup {w}
                          ELSE stored \ {w}
             /\ UNCHANGED <<workerVars, leaseVars, monitorVars, fenceVars,
                            persist>>

\* The controller process crashes and starts again: it knows the workers
\* that were committed, as "stale" ones, and its generation is the newest.
Restart == /\ status' = [w \in Worker |->
                           IF w \in stored THEN "stale" ELSE Absent]
           /\ late' = {} /\ barred' = {}
           /\ upd' = [w \in Worker |-> FALSE]
           /\ leases' = {} /\ expired' = {}
           /\ task' = [l \in Lease |-> "none"]
           /\ mpc' = "sleep" /\ todo' = {} /\ frozen' = NotReplaced
           /\ mw' = NoWorker /\ mwait' = {}
           /\ fenced' = FALSE /\ newer' = FALSE
           /\ op' = [w \in Worker |-> "none"] /\ persist' = {}
           /\ UNCHANGED stored

\* Another controller starts on the same store.
OtherStarts == /\ Persistent /\ ~ newer
               /\ newer' = TRUE
               /\ UNCHANGED <<workerVars, leaseVars, monitorVars, fenced,
                              storeVars>>

----------------------------------------------------------------------------
(* _monitor_loop *)

\* Compare generations, and list the workers.
MonitorWakes == /\ mpc = "sleep"
                /\ mpc' = "visit"
                /\ fenced' = (fenced \/ newer)
                /\ todo' = {w \in Worker : status[w] # Absent}
                /\ frozen' = NotReplaced
                /\ UNCHANGED <<mw, mwait, workerVars, leaseVars, newer,
                               storeVars>>

\* The object in the list: the registered one unless it was replaced.
Seen(w) == IF frozen[w].status = Absent
           THEN [status |-> status[w], late |-> w \in late]
           ELSE frozen[w]

\* The monitor marks that object offline.
MarkOffline(w) == status' = IF frozen[w].status = Absent
                            THEN [status EXCEPT ![w] = "offline"] ELSE status

Visiting(w) == mpc = "visit" /\ w \in todo /\ todo' = todo \ {w}

\* The leases of w go, whichever object they were claimed on, and the
\* monitor waits for their tasks.
DropAndWait(w) == /\ DropLeases(LeasesOf(w))
                  /\ mwait' = {l \in LeasesOf(w) : task[l] # "none"}
                  /\ mpc' = IF mwait' = {} THEN "visit" ELSE "cancel"

\* Mutant: only workers that are plainly online time out.
VisitLateOnlineOnly(w) ==
    /\ Visiting(w) /\ ~ fenced
    /\ Seen(w).late /\ Seen(w).status \in {"online", "updating"}
    /\ MarkOffline(w)
    /\ mw' = w /\ mpc' = "notify"
    /\ UNCHANGED <<late, barred, upd, leaseVars, frozen, mwait, fenceVars,
                   storeVars>>

\* Mutant: the departure is recorded and the leases stay.
VisitLateSweepsNothing(w) ==
    /\ Visiting(w) /\ ~ fenced
    /\ Seen(w).late /\ Seen(w).status \in Routable \cup {"updating"}
    /\ MarkOffline(w)
    /\ UNCHANGED <<mpc, mw, late, barred, upd, leaseVars, frozen, mwait,
                   fenceVars, storeVars>>

\* No heartbeat for too long: offline, and a notification ...
VisitLate(w) == /\ Visiting(w) /\ ~ fenced
                /\ Seen(w).late /\ Seen(w).status \in Routable \cup {"updating"}
                /\ MarkOffline(w)
                /\ mw' = w /\ mpc' = "notify"
                /\ UNCHANGED <<late, barred, upd, leaseVars, frozen, mwait,
                               fenceVars, storeVars>>

\* ... and when that is written, the leases go.
SweepNotified == /\ mpc = "notify"
                 /\ DropAndWait(mw)
                 /\ mw' = NoWorker
                 /\ UNCHANGED <<workerVars, todo, frozen, fenceVars, storeVars>>

TasksEnded == /\ mpc = "cancel"
              /\ \A l \in mwait : task[l] = "none"
              /\ mpc' = "visit" /\ mwait' = {}
              /\ UNCHANGED <<workerVars, leaseVars, todo, frozen, mw,
                             fenceVars, storeVars>>

\* Mutant: a drain is complete only when the worker has gone silent.
VisitDrainedLate(w) == /\ Visiting(w) /\ ~ fenced
                       /\ Seen(w).status = "draining" /\ LeasesOf(w) = {}
                       /\ Seen(w).late
                       /\ MarkOffline(w)
                       /\ mpc' = "record"
                       /\ UNCHANGED <<late, barred, upd, leaseVars, frozen,
                                      mw, mwait, fenceVars, storeVars>>

\* A drain is complete when the leases are gone; this is recorded too.
VisitDrained(w) == /\ Visiting(w) /\ ~ fenced
                   /\ Seen(w).status = "draining" /\ LeasesOf(w) = {}
                   /\ MarkOffline(w)
                   /\ mpc' = "record"
                   /\ UNCHANGED <<late, barred, upd, leaseVars, frozen, mw,
                                  mwait, fenceVars, storeVars>>

Recorded == /\ mpc = "record"
            /\ mpc' = "visit"
            /\ UNCHANGED <<workerVars, leaseVars, todo, frozen, mw, mwait,
                           fenceVars, storeVars>>

\* A draining worker has gone silent: finish the drain by force.
VisitDrainStale(w) == /\ Visiting(w) /\ ~ fenced
                      /\ Seen(w).status = "draining" /\ LeasesOf(w) # {}
                      /\ Seen(w).late
                      /\ MarkOffline(w)
                      /\ DropAndWait(w)
                      /\ UNCHANGED <<late, barred, upd, frozen, mw, fenceVars,
                                     storeVars>>

VisitSkip(w) == /\ Visiting(w) /\ ~ fenced
                /\ \/ Seen(w).status \in {"offline", "stale"}
                   \/ ~ Seen(w).late /\ ~ (/\ Seen(w).status = "draining"
                                           /\ LeasesOf(w) = {})
                /\ UNCHANGED <<workerVars, leaseVars, mpc, frozen, mw, mwait,
                               fenceVars, storeVars>>

\* Mutant: a fenced controller clears up after routable workers only.
VisitFencedRoutable(w) ==
    /\ Visiting(w) /\ fenced
    /\ IF Seen(w).status \in Routable
       THEN MarkOffline(w) /\ DropAndWait(w)
       ELSE UNCHANGED <<status, leaseVars, mpc, mwait>>
    /\ UNCHANGED <<late, barred, upd, frozen, mw, fenceVars, storeVars>>

\* A fenced controller takes every worker out of routing and drops every
\* lease, also of workers that are draining.
VisitFenced(w) == /\ Visiting(w) /\ fenced
                  /\ IF Seen(w).status \in Routable THEN MarkOffline(w)
                     ELSE UNCHANGED status
                  /\ DropAndWait(w)
                  /\ UNCHANGED <<late, barred, upd, frozen, mw, fenceVars,
                                 storeVars>>

\* The end of the pass: expired leases are swept.
MonitorSleeps == /\ mpc = "visit" /\ todo = {}
                 /\ mpc' = "sleep"
                 /\ leases' = IF fenced THEN leases ELSE Active
                 /\ expired' = IF fenced THEN expired ELSE {}
                 /\ UNCHANGED <<task, workerVars, todo, frozen, mw, mwait,
                                fenceVars, storeVars>>

----------------------------------------------------------------------------
Visit(w) == \/ VisitLate(w) \/ VisitDrained(w) \/ VisitDrainStale(w)
            \/ VisitSkip(w) \/ VisitFenced(w)

MonitorStep == \/ MonitorWakes \/ SweepNotified \/ TasksEnded \/ Recorded
               \/ MonitorSleeps \/ \E w \in Worker : Visit(w)

WorkerStep(w) == \/ RegisterWorker(w) \/ UnregisterWorker(w)
                 \/ \E s \in Reported \cup {"none"} : Heartbeat(w, s)
                 \/ DrainWorker(w) \/ ForceDrainWorker(w) \/ CancelDrain(w)
                 \/ Revoke(w) \/ BeginUpdate(w) \/ DeployAccepted(w)
                 \/ DeployFails(w)

LeaseStep(l) == \/ ClaimLease(l) \/ ReleaseLease(l) \/ RenewLost(l)
                \/ TaskEnds(l)

\* What the event loop runs while the monitor is suspended ...
LoopStep == /\ mpc # "visit"
            /\ \/ \E w \in Worker : WorkerStep(w)
               \/ \E l \in Lease : LeaseStep(l)
               \/ \E p \in persist : PersistRuns(p)

\* ... and what does not wait for it: time, the database's thread, other
\* processes.
OutsideStep == \/ \E w \in Worker : Silence(w) \/ Commit(w)
               \/ \E l \in Lease : Expire(l)
               \/ Restart \/ OtherStarts

Next == MonitorStep \/ LoopStep \/ OutsideStep

Spec == Init /\ [][Next]_vars

\* The event loop runs the monitor, a cancelled task unwinds, and a renewal
\* loop comes round: strongly fair, because the loop takes its callbacks in
\* turn whenever the monitor is suspended.  Nothing is assumed of workers,
\* lease holders, admins, the store or the process.
Fairness == /\ WF_vars(MonitorStep)
            /\ \A l \in Lease :
                 /\ SF_vars(/\ mpc # "visit" /\ task[l] = "cancelled"
                            /\ TaskEnds(l))
                 /\ SF_vars(mpc # "visit" /\ RenewLost(l))

FairSpec == Spec /\ Fairness

----------------------------------------------------------------------------
(* Properties *)

TypeOK ==
    /\ status \in [Worker -> Status \cup {Absent}]
    /\ late \subseteq Worker /\ barred \subseteq Worker
    /\ upd \in [Worker -> BOOLEAN]
    /\ leases \subseteq Lease /\ expired \subseteq leases
    /\ task \in [Lease -> {"none", "running", "cancelled"}]
    /\ mpc \in {"sleep", "visit", "notify", "record", "cancel"}
    /\ todo \subseteq Worker /\ mwait \subseteq Lease
    /\ frozen \in [Worker -> [status : Status \cup {Absent}, late : BOOLEAN]]
    /\ mw \in Worker \cup {NoWorker} /\ (mpc = "notify" <=> mw # NoWorker)
    /\ fenced \in BOOLEAN /\ newer \in BOOLEAN
    /\ stored \subseteq Worker
    /\ op \in [Worker -> {"none", "upsert", "delete"}]
    /\ persist \subseteq Worker \X {"registered", "replaced"}

\* A resource never has two active leases, though an expired one may still
\* be in the table, and workers drain, vanish and come back in between.
LeaseExclusive ==
    \A k, l \in Active : On[k] = On[l] => k = l

\* No lease survives the removal of its worker (taOS #1705): a worker that
\* registers under the same name starts without leases.
NoOrphanLease == \A l \in leases : status[Host[On[l]]] # Absent

\* An offline worker holds no leases, unless the monitor is still recording
\* that it went offline, or an admin revoked it (the monitor does not look
\* at offline workers, so it could never clear these up later).
OfflineReleased ==
    \A w \in Worker : status[w] = "offline" /\ LeasesOf(w) # {} =>
                         mw = w \/ w \in barred

\* What the store holds or is about to hold are exactly the registered
\* workers: no persistence task resurrects one that was removed, none of
\* those registered is forgotten (CodeRabbit PR #1928).
RegistryDurable ==
    \A w \in Worker :
        status[w] # Absent <=> op[w] = "upsert" \/ (w \in stored /\ op[w] = "none")

\* A drained worker is taken offline; heartbeats, also ones that report
\* "draining" again, do not keep it in between.
DrainCompletes ==
    \A w \in Worker : (status[w] = "draining" /\ LeasesOf(w) = {} /\ ~ fenced)
                          ~> (status[w] # "draining" \/ fenced)

\* A worker that has gone silent does not stay in routing.
SilentLeavesRouting ==
    \A w \in Worker : (w \in late /\ status[w] \in Routable)
                          ~> (w \notin late \/ status[w] \notin Routable)

\* Whoever takes a lease away, its task on the GPU ends.
OrphanTaskEnds ==
    \A l \in Lease : (task[l] # "none" /\ l \notin leases) ~> task[l] = "none"

\* A controller that finds itself superseded gives up the leases of every
\* worker, whatever the worker's status.
FenceReleases ==
    \A w \in Worker : fenced ~> (LeasesOf(w) = {} \/ ~ fenced)

\* The monitor takes workers offline and sweeps their leases under the lease
\* lock, so no lease is ever swept from a worker that is routable.
SweepsOnlyOffline ==
    [][mpc = "notify" /\ LeasesOf(mw) # {} /\ LeasesOf(mw)' = {} /\ ~ fenced'
          => status[mw] \notin Routable]_vars

\* The lease that is valid on a resource.
NoLease == "no lease"
Holder == [r \in Resource |-> IF \E l \in Active : On[l] = r
                               THEN CHOOSE l \in Active : On[l] = r
                               ELSE NoLease]

\* To its clients the manager is a lease table: claims, expiry, releases,
\* drains, sweeps, fencing and restarts in any order never move a resource
\* from one lease to another in one step, nor grant one that is taken.
Leases == INSTANCE LeaseTable WITH holder <- Holder, Free <- NoLease
LeaseTableSpec == Leases!Spec
=============================================================================
