------------------------------ MODULE JobQueue ------------------------------
(***************************************************************************)
(* scheduling/: the persistent queue of heavy jobs (job_queue.py), the     *)
(* workers that pull from it (job_worker.py), the manager that sets its    *)
(* limits (resource_manager.py) and the detector that hands the machine to *)
(* its user (gaming_detector.py).                                          *)
(*                                                                         *)
(* A call of the queue waits for the queue's lock and runs in a thread, so *)
(* what a caller does between two calls can be overtaken.  The SQL of one  *)
(* call is one action; a dequeue has a second one, in which the worker     *)
(* gets the row, because the worker may be cancelled in between.  Payloads *)
(* and results are left out, seconds too: a poll or a refresh may come at  *)
(* any time.                                                               *)
(***************************************************************************)
EXTENDS Naturals, FiniteSets, Sequences

CONSTANTS Job, Worker,
          Resource,  \* the resource types in use
          Needs,     \* Needs[j]: the resource_type of the job
          Urgency,   \* Urgency[j]: its priority, higher first
          Accepts,   \* Accepts[w]: the resource_types the worker pulls
          Default,   \* DEFAULT_LIMITS
          Probed     \* Probed[r]: the limit the hardware probe gives

NoJob == "no job"

ASSUME JobQueueAssumption ==
    /\ NoJob \notin Job /\ IsFiniteSet(Job)
    /\ Resource \subseteq {"cpu", "npu", "gpu", "embed"} /\ Resource # {}
    /\ Needs \in [Job -> Resource] /\ Urgency \in [Job -> 0 .. 2]
    /\ Accepts \in [Worker -> SUBSET Resource]
    /\ {Default, Probed} \subseteq [{"cpu", "npu", "gpu", "embed"} -> Nat]

Ended == {"completed", "failed", "cancelled"}

\* Who calls the resource manager: the detector's loop, the tray icon, and
\* whoever asks for a fresh snapshot.
Caller == {"detector", "tray", "refresh"}

VARIABLES
    job,      \* job[j]: status of the row, "absent" before and "gone" after
    order,    \* the rows by created_at
    wpc,      \* wpc[w]: idle, asked (dequeue under way), busy, dead
    hand,     \* hand[w]: the job the worker has, or will be given
    limit,    \* _limits, and the same in queue_config
    yielded,  \* _yielded of the manager
    game,     \* _game_active of the detector
    cooling,  \* _game_exited_at is set
    call,     \* call[k]: idle, probe, apply, yield
    todo,     \* todo[k]: the set_limit calls it has still to make
    mixed     \* history: the last yield or reclaim met calls of its opposite
              \* under way; TRUE until there was one

queueVars   == <<job, order>>
workerVars  == <<wpc, hand>>
managerVars == <<limit, yielded, game, cooling, call, todo, mixed>>
vars        == <<queueVars, workerVars, managerVars>>

Init == /\ job = [j \in Job |-> "absent"] /\ order = <<>>
        /\ wpc = [w \in Worker |-> "idle"]
        /\ hand = [w \in Worker |-> NoJob]
        /\ limit = [r \in Resource |-> Default[r]]
        /\ yielded = FALSE /\ game = FALSE /\ cooling = FALSE
        /\ call = [k \in Caller |-> "idle"]
        /\ todo = [k \in Caller |-> <<>>]
        /\ mixed = TRUE

----------------------------------------------------------------------------
(* The queue *)

Row(j, s) == job' = [job EXCEPT ![j] = s]

Running(r) == {j \in Job : job[j] = "running" /\ Needs[j] = r}

Enqueue(j) == /\ job[j] = "absent"
              /\ Row(j, "pending") /\ order' = Append(order, j)
              /\ UNCHANGED <<workerVars, managerVars>>

Position(j) == CHOOSE i \in DOMAIN order : order[i] = j

\* Mutant: one job more than the limit.
HasCapacityOffByOne(r) == Cardinality(Running(r)) <= limit[r]

\* Mutant: the last slot is never used.
HasCapacityStrict(r) == Cardinality(Running(r)) + 1 < limit[r]

HasCapacity(r) == Cardinality(Running(r)) < limit[r]

Eligible(w) == {j \in Job : /\ job[j] = "pending" /\ Needs[j] \in Accepts[w]
                            /\ HasCapacity(Needs[j])}

\* The most urgent of the jobs J, the oldest of these.
First(j, J) == \A i \in J : \/ Urgency[j] > Urgency[i]
                            \/ /\ Urgency[j] = Urgency[i]
                               /\ Position(j) <= Position(i)

\* run_once: BEGIN IMMEDIATE, pick and mark in one transaction.
Dequeue(w) == /\ wpc[w] = "idle"
              /\ \E j \in Eligible(w) : /\ First(j, Eligible(w))
                                        /\ Row(j, "running")
                                        /\ hand' = [hand EXCEPT ![w] = j]
              /\ wpc' = [wpc EXCEPT ![w] = "asked"]
              /\ UNCHANGED <<order, managerVars>>

\* The thread's answer reaches the worker, which executes the job.
Execute(w) == /\ wpc[w] = "asked"
              /\ wpc' = [wpc EXCEPT ![w] = "busy"]
              /\ UNCHANGED <<queueVars, hand, managerVars>>

\* Mutant: the report does not look at the row.
ReportUnguarded(w, s) == /\ wpc[w] = "busy"
                         /\ Row(hand[w], s)
                         /\ wpc' = [wpc EXCEPT ![w] = "idle"]
                         /\ hand' = [hand EXCEPT ![w] = NoJob]
                         /\ UNCHANGED <<order, managerVars>>

\* complete() or fail(), for a row that is still running.
Report(w, s) == /\ wpc[w] = "busy"
                /\ job' = [job EXCEPT ![hand[w]] =
                                IF @ = "running" THEN s ELSE @]
                /\ wpc' = [wpc EXCEPT ![w] = "idle"]
                /\ hand' = [hand EXCEPT ![w] = NoJob]
                /\ UNCHANGED <<order, managerVars>>

\* The worker's task is cancelled, in the payload or while the thread has
\* its job: CancelledError passes the except clause, the row stays.
CancelWorker(w) == /\ wpc[w] # "dead"
                   /\ wpc' = [wpc EXCEPT ![w] = "dead"]
                   /\ hand' = [hand EXCEPT ![w] = NoJob]
                   /\ UNCHANGED <<queueVars, managerVars>>

Cancel(j) == /\ job[j] = "pending" /\ Row(j, "cancelled")
             /\ UNCHANGED <<order, workerVars, managerVars>>

\* cleanup() deletes ended rows that are old enough.
Cleanup(j) == /\ job[j] \in Ended /\ Row(j, "gone")
              /\ UNCHANGED <<order, workerVars, managerVars>>

\* Mutant: the rows are given to the workers again.
StaleRequeued(s) == IF s = "running" THEN "pending" ELSE s

\* _sync_init: whatever is running belongs to a process that is no more.
Stale(s) == IF s = "running" THEN "failed" ELSE s

FailStale == job' = [j \in Job |-> Stale(job[j])]

\* The first request to /api/jobs opens the queue a worker may be using;
\* two first requests open it twice.
OpenAgain == /\ FailStale
             /\ UNCHANGED <<order, workerVars, managerVars>>

\* The process with workers and manager ends and starts again; the limits
\* come from queue_config.
Restart == /\ FailStale
           /\ wpc' = [w \in Worker |-> "idle"]
           /\ hand' = [w \in Worker |-> NoJob]
           /\ yielded' = FALSE /\ game' = FALSE /\ cooling' = FALSE
           /\ mixed' = TRUE
           /\ call' = [k \in Caller |-> "idle"]
           /\ todo' = [k \in Caller |-> <<>>]
           /\ UNCHANGED <<order, limit>>

----------------------------------------------------------------------------
(* The limits *)

Throttled == [r \in Resource |-> IF r \in {"cpu", "embed"} THEN 1 ELSE 0]

AtMostOne(n) == IF n < 1 THEN n ELSE 1

\* A set_limit call, if it concerns a resource in use.
Call(r, n) == IF r \in Resource THEN <<<<r, n>>>> ELSE <<>>

\* What yield_resources sets ...
YieldCalls == Call("cpu", 1) \o Call("gpu", 0) \o Call("npu", 0)
                \o Call("embed", 1)

\* ... and what _apply_limits sets, with less than 1 GB of free memory or not.
ApplyCalls(lowRam) ==
    Call("cpu", Probed["cpu"]) \o Call("npu", Probed["npu"])
      \o Call("gpu", Probed["gpu"]) \o Call("embed", 1)
      \o IF lowRam THEN Call("cpu", 1) \o Call("npu", AtMostOne(Probed["npu"]))
         ELSE <<>>

\* yield_resources, up to the first call.
Yield(k) == /\ call[k] = "idle"
            /\ yielded' = TRUE
            /\ call' = [call EXCEPT ![k] = "yield"]
            /\ todo' = [todo EXCEPT ![k] = YieldCalls]
            /\ mixed' = \E o \in Caller : call[o] = "apply"
            /\ UNCHANGED <<queueVars, workerVars, limit>>

\* Mutant: the limits are left to the next snapshot.
ReclaimFlagOnly(k) == /\ call[k] = "idle"
                      /\ yielded' = FALSE
                      /\ mixed' = \E o \in Caller : call[o] = "yield"
                      /\ UNCHANGED <<queueVars, workerVars, limit, call, todo>>

\* reclaim_resources, up to the probe of its refresh.
Reclaim(k) == /\ call[k] = "idle"
              /\ yielded' = FALSE
              /\ call' = [call EXCEPT ![k] = "probe"]
              /\ mixed' = \E o \in Caller : call[o] = "yield"
              /\ UNCHANGED <<queueVars, workerVars, limit, todo>>

\* GamingDetector.check finds that a game has started,
GameStarts == /\ ~ game
              /\ game' = TRUE /\ cooling' = FALSE
              /\ Yield("detector")

Cooling(b) == /\ call["detector"] = "idle" /\ game
              /\ cooling' = b
              /\ UNCHANGED <<queueVars, workerVars, limit, yielded, game, call,
                             todo, mixed>>

\* is gone, is back before the cooldown is over,
GameEnds == ~ cooling /\ Cooling(TRUE)
GameBack == cooling /\ Cooling(FALSE)

\* or has been away for the whole cooldown.
GameOver == /\ game /\ cooling
            /\ game' = FALSE /\ cooling' = FALSE
            /\ Reclaim("detector")

\* force_yield and force_reclaim of the detector, or the manager's own
\* methods behind the detector's back (the desktop's toggle).
ForceYield == /\ \/ game' = TRUE /\ cooling' = FALSE
                 \/ UNCHANGED <<game, cooling>>
              /\ Yield("tray")

ForceReclaim == /\ \/ game' = FALSE /\ cooling' = FALSE
                   \/ UNCHANGED <<game, cooling>>
                /\ Reclaim("tray")

\* get_snapshot: somebody asks; nothing in the repository does so regularly.
Refresh == /\ call["refresh"] = "idle"
           /\ call' = [call EXCEPT !["refresh"] = "probe"]
           /\ UNCHANGED <<queueVars, workerVars, limit, yielded, game, cooling,
                          todo, mixed>>

\* Mutant: limits are applied whatever the user said meanwhile.
ApplyLimitsAlways(k) ==
    /\ call[k] = "probe"
    /\ call' = [call EXCEPT ![k] = "apply"]
    /\ \E lowRam \in BOOLEAN : todo' = [todo EXCEPT ![k] = ApplyCalls(lowRam)]
    /\ UNCHANGED <<queueVars, workerVars, limit, yielded, game, cooling,
                   mixed>>

\* The probe is over: _apply_limits, up to its first call.
ApplyLimits(k) ==
    /\ call[k] = "probe"
    /\ \/ /\ yielded
          /\ call' = [call EXCEPT ![k] = "idle"]
          /\ UNCHANGED todo
       \/ /\ ~ yielded
          /\ call' = [call EXCEPT ![k] = "apply"]
          /\ \E lowRam \in BOOLEAN :
                todo' = [todo EXCEPT ![k] = ApplyCalls(lowRam)]
    /\ UNCHANGED <<queueVars, workerVars, limit, yielded, game, cooling,
                   mixed>>

SetLimit(k) ==
    /\ todo[k] # <<>>
    /\ LET c == Head(todo[k]) IN limit' = [limit EXCEPT ![c[1]] = c[2]]
    /\ todo' = [todo EXCEPT ![k] = Tail(@)]
    /\ call' = [call EXCEPT ![k] = IF Len(todo[k]) = 1 THEN "idle" ELSE @]
    /\ UNCHANGED <<queueVars, workerVars, yielded, game, cooling, mixed>>

----------------------------------------------------------------------------
Work(w) == \/ Dequeue(w) \/ Execute(w)
           \/ \E s \in {"completed", "failed"} : Report(w, s)

Manage(k) == ApplyLimits(k) \/ SetLimit(k)

Next == \/ \E j \in Job : Enqueue(j) \/ Cancel(j) \/ Cleanup(j)
        \/ \E w \in Worker : Work(w) \/ CancelWorker(w)
        \/ OpenAgain \/ Restart
        \/ \E k \in Caller : Manage(k)
        \/ GameStarts \/ GameEnds \/ GameBack \/ GameOver
        \/ ForceYield \/ ForceReclaim \/ Refresh

Spec == Init /\ [][Next]_vars

\* A worker's loop polls and its payload ends; a probe and a set_limit call
\* return (the lock is served in turn).  Nobody has to yield, to reclaim or
\* to ask for a snapshot.
Fairness == /\ \A w \in Worker : WF_vars(Work(w))
            /\ \A k \in Caller : WF_vars(Manage(k))

FairSpec == Spec /\ Fairness

----------------------------------------------------------------------------
(* Properties *)

QueueTypeOK ==
    /\ job \in [Job -> {"absent", "pending", "running", "gone"} \cup Ended]
    /\ order \in Seq(Job)
    /\ \A j \in Job : job[j] = "absent" <=> \A i \in DOMAIN order : order[i] # j
    /\ wpc \in [Worker -> {"idle", "asked", "busy", "dead"}]
    /\ hand \in [Worker -> Job \cup {NoJob}]
    /\ \A w \in Worker : hand[w] # NoJob <=> wpc[w] \in {"asked", "busy"}

ManagerTypeOK ==
    /\ limit \in [Resource -> Nat]
    /\ yielded \in BOOLEAN /\ game \in BOOLEAN
    /\ cooling \in BOOLEAN /\ mixed \in BOOLEAN
    /\ call \in [Caller -> {"idle", "probe", "apply", "yield"}]
    /\ todo \in [Caller -> Seq(Resource \X Nat)]
    /\ \A k \in Caller : todo[k] # <<>> <=> call[k] \in {"apply", "yield"}

TypeOK == QueueTypeOK /\ ManagerTypeOK

Holders(r) == {w \in Worker : hand[w] # NoJob /\ Needs[hand[w]] = r}

\* No job is ever in the hands of two workers, even when the queue is opened
\* again under a worker that goes on executing.
OneExecutor == \A w, v \in Worker : hand[w] = hand[v] /\ hand[w] # NoJob
                                        => w = v

\* A job is started only while fewer workers than the limit execute jobs of
\* its resource: the rows the limit is counted on stand for what really
\* runs.  The exception is a row that was declared stale under its worker.
StartsWithinLimit ==
    [][\A w \in Worker :
         hand'[w] \notin {NoJob, hand[w]} =>
            LET r == Needs[hand'[w]] IN
                \/ Cardinality(Holders(r)) < limit[r]
                \/ \E v \in Holders(r) : job[hand[v]] # "running"]_vars

\* A job that has ended stays as it ended: a worker that reports late, after
\* its row was declared stale or cleaned up, changes nothing.
FinalIsFinal ==
    [][\A j \in Job : job[j] \in Ended => job'[j] \in {job[j], "gone"}]_vars

\* Once yield_resources has returned, the machine is the user's until it is
\* reclaimed: refreshes that were probing when the user came apply nothing.
\* (One that was already setting limits does get through.)
YieldSticks == yielded /\ ~ mixed /\ (\A k \in Caller : todo[k] = <<>>)
                    => limit = Throttled

\* The other way round, for the GPU: a reclaim that met no yield under way
\* has the probed limit in force when the calls are over, however refreshes,
\* polls of the detector and further reclaims overlap with it.  (A yield that
\* is still setting limits undoes the reclaim, and a restart forgets that the
\* machine was yielded but not the limits: both until the next refresh.)
ReclaimRestores ==
    /\ "gpu" \in Resource /\ ~ yielded /\ ~ mixed
    /\ \A k \in Caller : call[k] = "idle"
    => limit["gpu"] = Probed["gpu"]

Leaked(r) == {j \in Running(r) : \A w \in Worker : hand[w] # j}

\* From some time on the process is left alone.
Settles == <>[][~ Restart /\ \A w \in Worker : ~ CancelWorker(w)]_vars

\* A pending job is taken, or cancelled, as long as its resource has a limit
\* above zero, a worker for it lives and no cancelled worker holds a slot.
JobServed ==
    Settles =>
        \A j \in Job :
            job[j] = "pending" ~>
                \/ job[j] # "pending"
                \/ limit[Needs[j]] = 0 \/ Leaked(Needs[j]) # {}
                \/ \A w \in Worker : wpc[w] = "dead"
                                      \/ Needs[j] \notin Accepts[w]
=============================================================================
