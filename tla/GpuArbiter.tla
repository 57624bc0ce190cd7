----------------------------- MODULE GpuArbiter -----------------------------
(***************************************************************************)
(* tinyagentos/scheduler/gpu_arbiter.py on a host with a local GPU: VRAM   *)
(* admission, the priority queue, its drain loop, eviction, cancellation   *)
(* and the leases and reservations a task holds while it runs.             *)
(*                                                                         *)
(* The actors are coroutines on one event loop, so an action is the code   *)
(* between two awaits that really suspend: the admission check (a worker   *)
(* thread and the ledger's lock), the payload, the wait for the renewal    *)
(* task, the wait for an evicted task and the wait for a queued answer.    *)
(* The arbiter's own _running_lock and the cluster's lease lock are never  *)
(* held across an await, so taking them does not suspend.                  *)
(*                                                                         *)
(* A client is a task, submitted once.  Of the ledger (VramReservation)    *)
(* the arbiter sees its lock, a reading of the hardware that is judged     *)
(* later, and the promises.  Seconds and monitoring counters are left out; *)
(* a drain tick may come at any time.                                      *)
(***************************************************************************)
EXTENDS VramUnits, Sequences, Functions

CONSTANTS Pri,              \* Pri[t]: int(task.priority), lower is more urgent
          Leased,           \* tasks with a resource_id, run under a lease
          MaxQueue,         \* max_queue_size
          EvictionEnabled,  \* eviction_enabled
          TtlEnabled,       \* a running task may outlive the ledger's TTL
          AdmissionMayFail, \* the admission check may raise
          ProbeMayFail,     \* the hardware may give no reading
          MayStop           \* stop() and start() are called

ASSUME GpuArbiterAssumption ==
    /\ Pri \in [Client -> Nat]
    /\ Leased \subseteq Client
    /\ MaxQueue \in Nat \ {0}
    /\ {EvictionEnabled, TtlEnabled, AdmissionMayFail, ProbeMayFail,
        MayStop} \subseteq BOOLEAN

NoTask == "no task"

ASSUME NoTaskAssumption == NoTask \notin Client

VARIABLES
    sub,       \* the submitter's coroutine, in submit_gpu
    fut,       \* _arbiter_future of the task
    queue,     \* _queue, the tasks in the PriorityQueue
    seq,       \* the entry's seq, 0 before it is queued
    shadow,    \* keys of _queued_entries
    cancelled, \* _cancelled_ids, the tombstones
    dpc, hand, \* the drain loop: where it is, and the entry it has popped
    retry,     \* entries it could not admit in this cycle, in pop order
    run,       \* the coroutine _run_gpu_task of the task
    running,   \* keys of _running (and _running_tasks)
    evicting,  \* who waits in _evict_task for the task to end
    held,      \* reservations on the shared ledger
    res,       \* keys of _pending_reservations
    vouch,     \* history: how a started task was admitted
    lock, seen,\* who holds the ledger's lock, and what his reading counted
    lease,     \* tasks whose lease the cluster still holds
    resident,  \* tasks whose model occupies the GPU
    paused,    \* _paused
    stopping,  \* stop() has been called
    refused    \* history: tasks that cancel_op removed from the queue

subVars   == <<sub, fut>>
queueVars == <<queue, seq, shadow, cancelled>>
drainVars == <<dpc, hand, retry>>
runVars   == <<run, running, evicting>>
ctlVars   == <<paused, stopping>>
ledgerVars == <<held, res, vouch>>
probeVars  == <<lock, seen>>
vramVars   == <<ledgerVars, probeVars>>
vars      == <<subVars, queueVars, drainVars, runVars, vramVars, lease,
               resident, ctlVars, refused>>

Init == /\ sub = [t \in Client |-> "new"]
        /\ fut = [t \in Client |-> "none"]
        /\ queue = {} /\ seq = [t \in Client |-> 0]
        /\ shadow = {} /\ cancelled = {}
        /\ dpc = "idle" /\ hand = NoTask /\ retry = <<>>
        /\ run = [t \in Client |-> "none"]
        /\ running = {} /\ evicting = [t \in Client |-> "no"]
        /\ held = {} /\ res = {} /\ vouch = [t \in Client |-> "none"]
        /\ lock = NoTask /\ seen = {} /\ lease = {} /\ resident = {}
        /\ paused = FALSE /\ stopping = FALSE /\ refused = {}

----------------------------------------------------------------------------
(* _reserve_and_check *)

\* The tasks whose admission is being checked.
Checking(t) == \/ sub[t] = "reserving"
               \/ t = hand /\ dpc \in {"check", "recheck"}

\* reserve() takes its lock and reads the hardware; the answer is given
\* later, on this reading.
Probe(t) == /\ Checking(t) /\ lock = NoTask
            /\ lock' = t /\ seen' = resident
            /\ UNCHANGED <<subVars, queueVars, drainVars, runVars,
                           ledgerVars, lease, resident, ctlVars, refused>>

\* t's check is over, with an answer, an exception or a cancellation.
Unlock(t) == IF lock = t THEN lock' = NoTask /\ seen' = {}
             ELSE UNCHANGED probeVars

\* Mutant: the check forgets the promises.
FitsLoadedOnly(t) == SumVram(seen) + Vram[t] <= Total

\* Memory that is reserved and loaded counts on both sides.
Fits(t) == SumVram(seen) + SumVram(held) + Vram[t] <= Total

CanGrant(t) == lock = t /\ Fits(t)

\* Without a reading the request goes to the cluster, which may refuse it.
CanDeny(t) == (lock = t /\ ~ Fits(t)) \/ ProbeMayFail

\* Ways to be admitted.  A reading that fails within reserve() fails open:
\* the grant is recorded, never refused.  One that fails before it leaves
\* the decision to the cluster, or admits whatever reserve() answers: no
\* reservation at all.
CanAdmit(t, how) == \/ how = "enforced" /\ CanGrant(t)
                    \/ how = "open" /\ ProbeMayFail /\ lock \in {t, NoTask}
                    \/ how = "bare" /\ ProbeMayFail

Admissions == {"enforced", "open", "bare"}

Admit(t) == \E how \in Admissions :
               /\ CanAdmit(t, how)
               /\ vouch' = [vouch EXCEPT ![t] = how]
               /\ held' = IF how = "bare" THEN held ELSE held \cup {t}
               /\ res' = IF how = "bare" THEN res ELSE res \cup {t}

\* The order of the queue: priority, then seq.
Before(s, t) == \/ Pri[s] < Pri[t]
                \/ Pri[s] = Pri[t] /\ seq[s] < seq[t]

QueueFull(Q) == Cardinality(Q) >= MaxQueue

----------------------------------------------------------------------------
(* _run_gpu_task *)

\* Lease, registration and the call of the payload, with no suspension.
StartRun(t) == /\ run' = [run EXCEPT ![t] = "payload"]
               /\ running' = running \cup {t}
               /\ lease' = IF t \in Leased THEN lease \cup {t} ELSE lease
               /\ UNCHANGED evicting

\* _release_reservation.
Release(t) == held' = held \ {t} /\ res' = res \ {t}

\* The end of the finally block: the reservation, the entry in _running,
\* and the lease unless an eviction popped the entry first.  The done
\* callback hands a result or an exception, not a cancellation, to the
\* future of a task the drain loop started.
FinishRun(t, outcome) ==
    /\ run' = [run EXCEPT ![t] = "done"]
    /\ Release(t) /\ vouch' = [vouch EXCEPT ![t] = "none"]
    /\ running' = running \ {t}
    /\ lease' = IF t \in running THEN lease \ {t} ELSE lease
    /\ sub' = [sub EXCEPT ![t] = IF @ = "direct" THEN "answered" ELSE @]
    /\ fut' = [fut EXCEPT ![t] = IF @ = "pending" /\ outcome = "finished"
                                 THEN "resolved" ELSE @]
    /\ UNCHANGED evicting

\* The start of the finally block: a leased task first awaits the end of
\* its renewal loop.
EnterFinally(t, outcome) ==
    IF t \in Leased
    THEN /\ run' = [run EXCEPT ![t] = IF outcome = "finished"
                                      THEN "finishing" ELSE "aborting"]
         /\ UNCHANGED <<running, evicting, ledgerVars, lease, subVars>>
    ELSE FinishRun(t, outcome)

\* The payload brings its model into VRAM ...
Load(t) == /\ run[t] = "payload" /\ t \notin resident /\ Vram[t] > 0
           /\ resident' = resident \cup {t}
           /\ UNCHANGED <<subVars, queueVars, drainVars, runVars, vramVars,
                          lease, ctlVars, refused>>

\* ... and has it unloaded when it returns or raises.
PayloadEnd(t) == /\ run[t] = "payload"
                 /\ resident' = resident \ {t}
                 /\ EnterFinally(t, "finished")
                 /\ UNCHANGED <<queueVars, drainVars, probeVars, ctlVars,
                                refused>>

\* A cancelled payload is resident until it has unwound; it may also catch
\* the cancellation and return normally.
PayloadUnwind(t) == /\ run[t] = "cancelling"
                    /\ resident' = resident \ {t}
                    /\ \E o \in {"finished", "cancelled"} : EnterFinally(t, o)
                    /\ UNCHANGED <<queueVars, drainVars, probeVars, ctlVars,
                                   refused>>

\* The renewal loop has ended; a cancellation that arrives in this await
\* is swallowed.
RenewStopped(t) == /\ run[t] \in {"finishing", "aborting"}
                   /\ FinishRun(t, IF run[t] = "finishing" THEN "finished"
                                   ELSE "cancelled")
                   /\ UNCHANGED <<queueVars, drainVars, probeVars, resident,
                                  ctlVars, refused>>

\* A task the drain loop spawned runs for the first time.
RunSpawned(t) == /\ run[t] = "spawned"
                 /\ StartRun(t)
                 /\ UNCHANGED <<subVars, queueVars, drainVars, vramVars,
                                resident, ctlVars, refused>>

\* Mutant: the claim is made before the try block, so that its failure
\* leaks the reservation.
RunSpawnedNoLeaseLeaks(t) ==
    /\ run[t] = "spawned" /\ t \in Leased
    /\ run' = [run EXCEPT ![t] = "done"]
    /\ fut' = [fut EXCEPT ![t] = IF @ = "pending" THEN "resolved" ELSE @]
    /\ UNCHANGED <<sub, queueVars, drainVars, running, evicting, vramVars,
                   lease, resident, ctlVars, refused>>

\* ... or cannot claim its lease: the exception reaches the submitter.
RunSpawnedNoLease(t) == /\ run[t] = "spawned" /\ t \in Leased
                        /\ FinishRun(t, "finished")
                        /\ UNCHANGED <<queueVars, drainVars, probeVars,
                                       resident, ctlVars, refused>>

\* The cluster takes the lease away: expiry, an offline or a drained worker.
LoseLease(t) == /\ t \in lease
                /\ lease' = lease \ {t}
                /\ UNCHANGED <<subVars, queueVars, drainVars, runVars,
                               vramVars, resident, ctlVars, refused>>

CancelPayload(t) ==
    run' = [run EXCEPT ![t] = IF @ = "payload" THEN "cancelling" ELSE @]

CancelFuture(t) ==
    fut' = [fut EXCEPT ![t] = IF @ = "pending" THEN "cancelled" ELSE @]

\* Mutant: lease loss leaves the future to the done callback.
RenewLostNoFuture(t) ==
    /\ run[t] \in {"payload", "cancelling"}
    /\ t \in Leased \ lease
    /\ CancelPayload(t)
    /\ UNCHANGED <<subVars, queueVars, drainVars, running, evicting,
                   vramVars, lease, resident, ctlVars, refused>>

\* _renew_lease_loop finds the lease gone: it cancels the task and the
\* future of its submitter.
RenewLost(t) == /\ run[t] \in {"payload", "cancelling"}
                /\ t \in Leased \ lease
                /\ CancelPayload(t) /\ CancelFuture(t)
                /\ UNCHANGED <<sub, queueVars, drainVars, running, evicting,
                               vramVars, lease, resident, ctlVars, refused>>

----------------------------------------------------------------------------
(* submit_gpu *)

\* A task that needs no VRAM runs at once; any other asks for admission.
SubmitNoVram(t) == /\ sub[t] = "new" /\ Vram[t] = 0
                   /\ sub' = [sub EXCEPT ![t] = "direct"]
                   /\ StartRun(t)
                   /\ UNCHANGED <<fut, queueVars, drainVars, vramVars,
                                  resident, ctlVars, refused>>

Submit(t) == /\ sub[t] = "new" /\ Vram[t] > 0
             /\ sub' = [sub EXCEPT ![t] = "reserving"]
             /\ UNCHANGED <<fut, queueVars, drainVars, runVars, vramVars,
                            lease, resident, ctlVars, refused>>

\* Admitted: the task runs in its submitter's coroutine.
SubmitAdmitted(t) == /\ sub[t] = "reserving" /\ Admit(t) /\ Unlock(t)
                     /\ sub' = [sub EXCEPT ![t] = "direct"]
                     /\ StartRun(t)
                     /\ UNCHANGED <<fut, queueVars, drainVars, resident,
                                    ctlVars, refused>>

\* Refused, with room in the queue: the submitter waits for its future.
SubmitQueued(t) == /\ sub[t] = "reserving" /\ CanDeny(t) /\ Unlock(t)
                   /\ ~ QueueFull(queue)
                   /\ queue' = queue \cup {t}
                   /\ seq' = [seq EXCEPT ![t] =
                                1 + Cardinality({u \in Client : seq[u] > 0})]
                   /\ shadow' = shadow \cup {t}
                   /\ sub' = [sub EXCEPT ![t] = "waiting"]
                   /\ fut' = [fut EXCEPT ![t] = "pending"]
                   /\ UNCHANGED <<cancelled, drainVars, runVars, ledgerVars,
                                  lease, resident, ctlVars, refused>>

\* The call ends without a run: refused with the queue full, admitted but
\* without a lease, cancelled in the check, or the check raised.
SubmitRejected(t) ==
    /\ sub[t] = "reserving"
    /\ \/ CanDeny(t) /\ QueueFull(queue)
       \/ t \in Leased /\ \E how \in Admissions : CanAdmit(t, how)
       \/ AdmissionMayFail
    /\ Unlock(t)
    /\ sub' = [sub EXCEPT ![t] = "answered"]
    /\ UNCHANGED <<fut, queueVars, drainVars, runVars, ledgerVars, lease,
                   resident, ctlVars, refused>>

\* The caller of submit_gpu is cancelled.
SubmitterCancelled(t) ==
    /\ \/ /\ sub[t] = "reserving"
          /\ sub' = [sub EXCEPT ![t] = "answered"]
          /\ Unlock(t)
          /\ UNCHANGED <<fut, run>>
       \/ /\ sub[t] = "waiting" /\ fut[t] = "pending"
          /\ CancelFuture(t)
          /\ UNCHANGED <<sub, run, probeVars>>
       \/ /\ sub[t] = "direct" /\ run[t] = "payload"
          /\ CancelPayload(t)
          /\ UNCHANGED <<subVars, probeVars>>
    /\ UNCHANGED <<queueVars, drainVars, running, evicting, ledgerVars, lease,
                   resident, ctlVars, refused>>

\* The submitter wakes up with its answer.  A cancelled future leaves a
\* tombstone, also when the entry has long left the queue.
SubmitterWakes(t) ==
    /\ sub[t] = "waiting" /\ fut[t] # "pending"
    /\ sub' = [sub EXCEPT ![t] = "answered"]
    /\ IF fut[t] = "cancelled"
       THEN shadow' = shadow \ {t} /\ cancelled' = cancelled \cup {t}
       ELSE UNCHANGED <<shadow, cancelled>>
    /\ UNCHANGED <<fut, queue, seq, drainVars, runVars, vramVars, lease,
                   resident, ctlVars, refused>>

----------------------------------------------------------------------------
(* _evict_task, and its callers other than the drain loop *)

\* Pop the entry, cancel the task, wait for it.
BeginEvict(t, who) == /\ running' = running \ {t}
                      /\ evicting' = [evicting EXCEPT ![t] = who]
                      /\ CancelPayload(t)

\* Mutants: the reservation and the lease go before the task has ended; the
\* lease stays; the drain loop is resumed by anybody's eviction, by nobody's.
EndEvictEarly(t) ==
    /\ evicting[t] # "no"
    /\ evicting' = [evicting EXCEPT ![t] = "no"]
    /\ Release(t) /\ lease' = lease \ {t}
    /\ CancelFuture(t)
    /\ dpc' = IF evicting[t] = "drain" THEN "recheck" ELSE dpc
    /\ UNCHANGED <<sub, queueVars, hand, retry, run, running, vouch,
                   probeVars, resident, ctlVars, refused>>

EndEvictVariant(t, freed, resumes) ==
    /\ evicting[t] # "no" /\ run[t] = "done"
    /\ evicting' = [evicting EXCEPT ![t] = "no"]
    /\ Release(t) /\ lease' = lease \ freed
    /\ CancelFuture(t)
    /\ dpc' = IF resumes THEN "recheck" ELSE dpc
    /\ UNCHANGED <<sub, queueVars, hand, retry, run, running, vouch,
                   probeVars, resident, ctlVars, refused>>

EndEvictKeepsLease(t) == EndEvictVariant(t, {}, evicting[t] = "drain")
EndEvictStalls(t)     == EndEvictVariant(t, {t}, FALSE)

\* The task has ended: only now the reservation and the lease go.
EndEvict(t) ==
    /\ evicting[t] # "no" /\ run[t] = "done"
    /\ evicting' = [evicting EXCEPT ![t] = "no"]
    /\ Release(t) /\ lease' = lease \ {t}
    /\ CancelFuture(t)
    /\ dpc' = IF evicting[t] = "drain" THEN "recheck" ELSE dpc
    /\ UNCHANGED <<sub, queueVars, hand, retry, run, running, vouch,
                   probeVars, resident, ctlVars, refused>>

\* cancel_op on a queued task: out of the shadow, a tombstone for the
\* entry, and the submitter's future cancelled.
CancelQueued(t) ==
    /\ t \in shadow
    /\ shadow' = shadow \ {t}
    /\ cancelled' = cancelled \cup {t}
    /\ Release(t)
    /\ CancelFuture(t)
    /\ refused' = refused \cup {t}
    /\ UNCHANGED <<sub, queue, seq, drainVars, runVars, vouch, probeVars,
                   lease, resident, ctlVars>>

\* cancel_op on a running task, and cancel_running_for_leases on a task
\* whose lease a draining worker gave up.
CancelRunning(t) ==
    /\ t \in running
    /\ BeginEvict(t, "operator")
    /\ UNCHANGED <<subVars, queueVars, drainVars, vramVars, lease, resident,
                   ctlVars, refused>>

----------------------------------------------------------------------------
(* _drain_queue and _process_queue *)

\* Mutant: an entry that finds no room is dropped without an answer.
RequeueForgets(Q, C, R, sh) ==
    LET places == {i \in DOMAIN R : R[i] \notin C}
        kept   == {R[i] : i \in {i \in places :
                     Cardinality(Q) + Cardinality({j \in places : j < i})
                        < MaxQueue}}
    IN  /\ queue' = Q \cup kept
        /\ shadow' = sh \cup kept
        /\ cancelled' = C \ Range(R)
        /\ retry' = <<>> /\ hand' = NoTask /\ dpc' = "idle"
        /\ UNCHANGED fut

\* Put back what could not be admitted, in the order it was popped, as long
\* as there is room; the rest is dropped with an exception.  Tombstones are
\* consumed.
Requeue(Q, C, R, sh) ==
    LET places == {i \in DOMAIN R : R[i] \notin C}
        kept   == {R[i] : i \in {i \in places :
                     Cardinality(Q) + Cardinality({j \in places : j < i})
                        < MaxQueue}}
    IN  /\ queue' = Q \cup kept
        /\ shadow' = sh \cup kept
        /\ cancelled' = C \ Range(R)
        /\ fut' = [t \in Client |->
                     IF t \in Range(R) \ (C \cup kept) /\ fut[t] = "pending"
                     THEN "resolved" ELSE fut[t]]
        /\ retry' = <<>> /\ hand' = NoTask /\ dpc' = "idle"

\* Pop the first entry without a tombstone and check its admission; the
\* tombstoned entries before it are skipped.  At the end of the queue the
\* cycle ends.
PopNext(Q, C, R) ==
    \/ \E e \in Q \ C :
          LET skipped == {d \in Q \cap C : Before(d, e)}
          IN  /\ \A d \in Q \ C : d = e \/ Before(e, d)
              /\ queue' = Q \ (skipped \cup {e})
              /\ cancelled' = C \ skipped
              /\ hand' = e /\ dpc' = "check" /\ retry' = R
              /\ UNCHANGED <<shadow, fut>>
    \/ Q \subseteq C /\ Requeue({}, C \ Q, R, shadow)

\* A wake-up or a tick.
DrainTick == /\ dpc = "idle" /\ ~ paused /\ queue # {}
             /\ PopNext(queue, cancelled, <<>>)
             /\ UNCHANGED <<sub, seq, runVars, vramVars, lease, resident,
                            ctlVars, refused>>

\* Mutant: no second look at the tombstones.
DrainAdmitNoRecheck ==
    /\ dpc \in {"check", "recheck"}
    /\ Admit(hand) /\ Unlock(hand)
    /\ run' = [run EXCEPT ![hand] = "spawned"]
    /\ Requeue(queue, cancelled, retry, shadow \ {hand})
    /\ UNCHANGED <<sub, seq, running, evicting, lease, resident, ctlVars,
                   refused>>

\* Admitted: spawn the task and end the cycle.
DrainAdmit ==
    /\ dpc \in {"check", "recheck"} /\ hand \notin cancelled
    /\ Admit(hand) /\ Unlock(hand)
    /\ run' = [run EXCEPT ![hand] = "spawned"]
    /\ Requeue(queue, cancelled, retry, shadow \ {hand})
    /\ UNCHANGED <<sub, seq, running, evicting, lease, resident, ctlVars,
                   refused>>

\* Admitted, but cancelled during the check: give the reservation back and
\* go on.
DrainSkip ==
    /\ dpc \in {"check", "recheck"} /\ hand \in cancelled
    /\ \E how \in Admissions : CanAdmit(hand, how)
    /\ Unlock(hand)
    /\ PopNext(queue, cancelled \ {hand}, retry)
    /\ UNCHANGED <<sub, seq, runVars, ledgerVars, lease, resident, ctlVars,
                   refused>>

\* The running tasks that may be evicted for one of priority p: the least
\* urgent of those strictly less urgent than it.
Victims(p) == {v \in running : /\ Pri[v] > p
                               /\ \A u \in running : Pri[u] <= Pri[v]}

\* Refused: evict somebody and wait for him to end.
DrainEvict ==
    /\ dpc = "check" /\ CanDeny(hand) /\ EvictionEnabled
    /\ \E v \in Victims(Pri[hand]) : BeginEvict(v, "drain")
    /\ dpc' = "evict" /\ Unlock(hand)
    /\ UNCHANGED <<subVars, queueVars, hand, retry, ledgerVars, lease,
                   resident, ctlVars, refused>>

\* Refused with nobody to evict, or again after an eviction: later.
DrainRetry ==
    /\ \/ dpc = "check" /\ (~ EvictionEnabled \/ Victims(Pri[hand]) = {})
       \/ dpc = "recheck"
    /\ CanDeny(hand) /\ Unlock(hand)
    /\ PopNext(queue, cancelled, Append(retry, hand))
    /\ UNCHANGED <<sub, seq, runVars, ledgerVars, lease, resident, ctlVars,
                   refused>>

\* The check raises: the processor backs off and starts again.
DrainFails == /\ AdmissionMayFail
              /\ dpc \in {"check", "recheck"}
              /\ dpc' = "backoff" /\ hand' = NoTask /\ retry' = <<>>
              /\ Unlock(hand)
              /\ UNCHANGED <<subVars, queueVars, runVars, ledgerVars, lease,
                             resident, ctlVars, refused>>

DrainRestarts == /\ dpc = "backoff"
                 /\ dpc' = "idle"
                 /\ UNCHANGED <<subVars, queueVars, hand, retry, runVars,
                                vramVars, lease, resident, ctlVars, refused>>

----------------------------------------------------------------------------
(* pause, resume, stop, start; the ledger's TTL *)

PauseResume == /\ paused' = ~ paused
               /\ UNCHANGED <<subVars, queueVars, drainVars, runVars, vramVars,
                              lease, resident, stopping, refused>>

\* stop() cancels the processor in its await.  A cancellation that meets it
\* in _evict_task goes to the evicted task and is swallowed there.
Stop == /\ MayStop /\ ~ stopping
        /\ stopping' = TRUE
        /\ IF dpc = "evict"
           THEN UNCHANGED drainVars
           ELSE dpc' = "stopped" /\ hand' = NoTask /\ retry' = <<>>
        /\ Unlock(hand)
        /\ UNCHANGED <<subVars, queueVars, runVars, ledgerVars, lease,
                       resident, paused, refused>>

Start == /\ dpc = "stopped"
         /\ dpc' = "idle" /\ paused' = FALSE /\ stopping' = FALSE
         /\ UNCHANGED <<subVars, queueVars, hand, retry, runVars, vramVars,
                        lease, resident, refused>>

\* The ledger reclaims a reservation older than its TTL.
Expire(t) == /\ TtlEnabled /\ t \in held
             /\ held' = held \ {t}
             /\ vouch' = [vouch EXCEPT ![t] = "expired"]
             /\ UNCHANGED <<subVars, queueVars, drainVars, runVars, res,
                            probeVars, lease, resident, ctlVars, refused>>

----------------------------------------------------------------------------
TaskStep(t) == \/ Probe(t) \/ Load(t) \/ PayloadEnd(t) \/ PayloadUnwind(t)
               \/ RenewStopped(t) \/ RunSpawned(t) \/ RunSpawnedNoLease(t)
               \/ LoseLease(t) \/ RenewLost(t)
               \/ SubmitNoVram(t) \/ Submit(t) \/ SubmitAdmitted(t)
               \/ SubmitQueued(t) \/ SubmitRejected(t)
               \/ SubmitterCancelled(t) \/ SubmitterWakes(t)
               \/ EndEvict(t) \/ CancelQueued(t) \/ CancelRunning(t)
               \/ Expire(t)

DrainStep == \/ DrainTick \/ DrainAdmit \/ DrainSkip \/ DrainEvict
             \/ DrainRetry \/ DrainFails \/ DrainRestarts

Next == \/ \E t \in Client : TaskStep(t)
        \/ DrainStep \/ PauseResume \/ Stop \/ Start

Spec == Init /\ [][Next]_vars
\* The event loop runs what is ready, ticks come, payloads end and unwind,
\* and a probe has a timeout.  Nothing is assumed of submitters, operators,
\* leases or the TTL.
Fairness ==
    /\ \A t \in Client :
         /\ WF_vars(PayloadEnd(t)) /\ WF_vars(PayloadUnwind(t))
         /\ WF_vars(RenewStopped(t))
         /\ WF_vars(RunSpawned(t) \/ RunSpawnedNoLease(t))
         /\ WF_vars(Probe(t))
         /\ WF_vars(SubmitAdmitted(t) \/ SubmitQueued(t) \/ SubmitRejected(t))
         /\ WF_vars(SubmitterWakes(t)) /\ WF_vars(EndEvict(t))
    /\ WF_vars(DrainTick)
    /\ WF_vars(DrainAdmit \/ DrainSkip \/ DrainEvict \/ DrainRetry)
    /\ WF_vars(DrainRestarts)

FairSpec == Spec /\ Fairness

----------------------------------------------------------------------------
(* Properties *)

Started == {"spawned", "payload", "cancelling", "finishing", "aborting"}

TypeOK ==
    /\ sub \in [Client -> {"new", "reserving", "waiting", "direct",
                           "answered"}]
    /\ fut \in [Client -> {"none", "pending", "resolved", "cancelled"}]
    /\ run \in [Client -> Started \cup {"none", "done"}]
    /\ evicting \in [Client -> {"no", "drain", "operator"}]
    /\ seq \in [Client -> Nat]
    /\ dpc \in {"idle", "check", "evict", "recheck", "backoff", "stopped"}
    /\ hand \in Client \cup {NoTask}
    /\ queue \subseteq Client /\ shadow \subseteq Client
    /\ cancelled \subseteq Client /\ retry \in Seq(Client)
    /\ running \subseteq Client /\ lease \subseteq Client
    /\ held \subseteq Client /\ res \subseteq Client
    /\ vouch \in [Client -> Admissions \cup {"none", "expired"}]
    /\ lock \in Client \cup {NoTask} /\ seen \subseteq Client
    /\ resident \subseteq Client /\ refused \subseteq Client
    /\ paused \in BOOLEAN /\ stopping \in BOOLEAN
    /\ hand \in Client <=> dpc \in {"check", "evict", "recheck"}

\* What the arbiter is for (NVIDIA Xid 62): the models of the tasks it let
\* run on a reading of the hardware, the ones it is evicting included, never
\* exceed the GPU, whatever else it admitted without a reading and however
\* old a reading was.  This is why _evict_task awaits the task before it
\* frees the reservation.  A task whose reservation the TTL sweep reclaimed
\* while it ran is no longer vouched for.
NoOvercommit == SumVram({t \in resident : vouch[t] = "enforced"}) <= Total

\* A reservation lasts exactly as long as a run: no path through admission,
\* failed lease claims, cancellation, lease loss or eviction leaks one or
\* frees it early.  Only a task admitted without one runs without one, and
\* the ledger agrees with _pending_reservations except for what its TTL
\* sweep has reclaimed.
ReservationsMatchRuns ==
    /\ res = {t \in Client : /\ run[t] \in Started /\ Vram[t] > 0
                             /\ vouch[t] # "bare"}
    /\ held = {t \in res : vouch[t] # "expired"}

\* A lease the cluster holds for a task is one that the task's own finally
\* block or the eviction that popped it from _running will still release.
NoLeaseLeak ==
    \A t \in lease : \/ evicting[t] # "no"
                     \/ run[t] \in Started /\ t \in running

\* Somebody will answer the submitter of t: the entry is on its way to
\* admission, the task runs, or an eviction waits for it.
Attended(t) == \/ t \in queue \cup Range(retry) \cup {hand}
               \/ run[t] \in Started
               \/ evicting[t] # "no"

\* A submitter waiting on its future is never forgotten.
NoLostWaiter == \A t \in Client : fut[t] = "pending" => Attended(t)

\* A step leaves the submitter of t waiting only if t stays attended to.
Kept(t) == (fut[t] = "pending" => Attended(t)) /\ fut'[t] = "pending"
               => Attended(t)'

\* The code forgets a waiting submitter in two ways only, a check that
\* raises and stop(), and either takes only what the cycle under way holds
\* outside the queue.  A full queue, a cancellation, an eviction or a lost
\* lease never does.
LostOnlyByCuts ==
    [][\A t \in Client :
          \/ Kept(t)
          \/ t \in Range(retry) \cup {hand} /\ (DrainFails \/ Stop)]_vars

\* A task that cancel_op took out of the queue is never started, whatever
\* await of the drain loop the cancellation fell into.
RefusedNeverRuns == \A t \in refused : run[t] = "none"

\* An entry the drain loop could not admit is retried later, also when the
\* check of a later entry of the same cycle raises.
RetriedLater ==
    [][\A t \in Range(retry) : fut'[t] = "pending" =>
            t \in Range(retry') \cup queue' \cup {hand'}]_vars

\* A task that fits the GPU at all and is queued gets its answer, unless
\* the queue is paused: no wake-up, eviction or cancellation strands it.
WaiterServed ==
    \A t \in Client : Vram[t] <= Total =>
        (sub[t] = "waiting" ~> (sub[t] = "answered" \/ paused))
=============================================================================
