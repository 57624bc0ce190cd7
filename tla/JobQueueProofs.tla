--------------------------- MODULE JobQueueProofs ---------------------------
(***************************************************************************)
(* Theorems about the job queue, for every set of jobs and workers.        *)
(***************************************************************************)
EXTENDS JobQueue, SequenceTheorems, FiniteSetTheorems, TLAPS

\* What a worker has in its hands is not for others to take: its row has
\* left "pending", and nothing brings it back there.
HandTaken == \A w \in Worker : hand[w] # NoJob =>
                                  job[hand[w]] \notin {"absent", "pending"}

QInv == TypeOK /\ HandTaken /\ OneExecutor

----------------------------------------------------------------------------
(* Types *)

LEMMA CallType ==
  ASSUME NEW r, NEW n \in Nat
  PROVE  Call(r, n) \in Seq(Resource \X Nat)
<1>1. CASE r \in Resource
  <2>1. <<r, n>> \in Resource \X Nat
    BY <1>1
  <2> QED
    BY <1>1, <2>1 DEF Call
<1>2. CASE r \notin Resource
  BY <1>2 DEF Call
<1> QED
  BY <1>1, <1>2

\* A resource in use leaves its call in the sequence.
LEMMA CallsType == /\ YieldCalls \in Seq(Resource \X Nat) \ {<<>>}
                   /\ \A b \in BOOLEAN :
                        ApplyCalls(b) \in Seq(Resource \X Nat) \ {<<>>}
<1> DEFINE S == Seq(Resource \X Nat)
<1>1. ASSUME NEW s \in S, NEW t \in S, s # <<>> \/ t # <<>>
      PROVE  s \o t \in S \ {<<>>}
  BY <1>1
<1>2. ASSUME NEW s \in S, NEW t \in S PROVE s \o t \in S
  BY <1>2
<1> HIDE DEF S
<1>3. ASSUME NEW a \in S, NEW b \in S, NEW c \in S, NEW d \in S,
             a # <<>> \/ b # <<>> \/ c # <<>> \/ d # <<>>
      PROVE  a \o b \o c \o d \in S \ {<<>>}
  <2>1. a \o b \in S /\ (a # <<>> \/ b # <<>> => a \o b # <<>>)
    BY <1>1, <1>2
  <2>2. a \o b \o c \in S
          /\ (a # <<>> \/ b # <<>> \/ c # <<>> => a \o b \o c # <<>>)
    BY <2>1, <1>1, <1>2
  <2> QED
    BY <2>2, <1>1, <1>3
<1>4. ASSUME NEW i \in Nat, NEW k \in Nat, NEW l \in Nat, NEW m \in Nat
      PROVE  \/ Call("cpu", i) # <<>> \/ Call("npu", k) # <<>>
             \/ Call("gpu", l) # <<>> \/ Call("embed", m) # <<>>
  BY JobQueueAssumption DEF Call
<1>5. \A r, n : n \in Nat => Call(r, n) \in S
  BY CallType DEF S
<1>6. \A r \in {"cpu", "npu", "gpu", "embed"} : Probed[r] \in Nat
  BY JobQueueAssumption
<1>7. YieldCalls \in S \ {<<>>}
  <2>1. \/ Call("cpu", 1) # <<>> \/ Call("gpu", 0) # <<>>
        \/ Call("npu", 0) # <<>> \/ Call("embed", 1) # <<>>
    BY <1>4
  <2> QED
    BY <2>1, <1>3, <1>5 DEF YieldCalls
<1>8. ASSUME NEW b \in BOOLEAN PROVE ApplyCalls(b) \in S \ {<<>>}
  <2> DEFINE full == Call("cpu", Probed["cpu"]) \o Call("npu", Probed["npu"])
                       \o Call("gpu", Probed["gpu"]) \o Call("embed", 1)
             less == IF b THEN Call("cpu", 1)
                                 \o Call("npu", AtMostOne(Probed["npu"]))
                     ELSE <<>>
  <2>1. full \in S \ {<<>>}
    BY <1>3, <1>4, <1>5, <1>6
  <2>2. AtMostOne(Probed["npu"]) \in Nat
    BY <1>6 DEF AtMostOne
  <2>3. less \in S
    BY <2>2, <1>2, <1>5 DEF S
  <2>4. ApplyCalls(b) = full \o less
    BY DEF ApplyCalls
  <2> QED
    BY <2>1, <2>3, <2>4, <1>1
<1> QED
  BY <1>7, <1>8 DEF S

----------------------------------------------------------------------------
(* The invariant *)

LEMMA InitQInv == Init => QInv
<1> SUFFICES ASSUME Init PROVE QInv
  OBVIOUS
<1> USE JobQueueAssumption DEF Init
<1>1. QueueTypeOK
  BY DEF QueueTypeOK
<1>2. ManagerTypeOK
  <2>1. todo \in [Caller -> Seq(Resource \X Nat)]
    <3>1. <<>> \in Seq(Resource \X Nat)
      OBVIOUS
    <3> QED
      BY <3>1
  <2>2. limit \in [Resource -> Nat]
    <3>1. \A r \in Resource : Default[r] \in Nat
      OBVIOUS
    <3> QED
      BY <3>1
  <2> QED
    BY <2>1, <2>2 DEF ManagerTypeOK
<1>3. HandTaken /\ OneExecutor
  BY DEF HandTaken, OneExecutor
<1> QED
  BY <1>1, <1>2, <1>3 DEF QInv, TypeOK

\* Rows and workers: the part that the managers leave alone.
QueuePart == QueueTypeOK /\ HandTaken /\ OneExecutor

LEMMA QueuePartKept ==
  ASSUME QueuePart, UNCHANGED <<queueVars, workerVars>>
  PROVE  QueuePart'
BY DEF QueuePart, QueueTypeOK, HandTaken, OneExecutor, queueVars, workerVars

LEMMA ManagerKept ==
  ASSUME ManagerTypeOK, UNCHANGED managerVars
  PROVE  ManagerTypeOK'
BY DEF ManagerTypeOK, managerVars

\* Yields, reclaims, refreshes and the calls they make.
LEMMA ManagersQInv ==
  ASSUME QInv,
         \/ GameStarts \/ GameEnds \/ GameBack \/ GameOver \/ ForceYield
         \/ ForceReclaim \/ Refresh \/ \E k \in Caller : Manage(k)
  PROVE  QInv'
<1>0. QueuePart /\ ManagerTypeOK
  BY DEF QInv, TypeOK, QueuePart
<1>1. UNCHANGED <<queueVars, workerVars>>
  BY DEF GameStarts, GameEnds, GameBack, GameOver, ForceYield, ForceReclaim,
     Refresh, Cooling, Yield, Reclaim, Manage, ApplyLimits, SetLimit
<1>2. ManagerTypeOK'
  <2>1. ASSUME NEW k \in Caller, Yield(k),
               game' \in BOOLEAN, cooling' \in BOOLEAN
        PROVE  ManagerTypeOK'
    BY <1>0, <2>1, CallsType DEF Yield, ManagerTypeOK
  <2>2. ASSUME NEW k \in Caller, Reclaim(k),
               game' \in BOOLEAN, cooling' \in BOOLEAN
        PROVE  ManagerTypeOK'
    BY <1>0, <2>2 DEF Reclaim, ManagerTypeOK
  <2>3. CASE GameStarts \/ GameOver \/ ForceYield \/ ForceReclaim
    <3>1. game' \in BOOLEAN /\ cooling' \in BOOLEAN
      BY <1>0, <2>3 DEF GameStarts, GameOver, ForceYield, ForceReclaim,
         ManagerTypeOK
    <3> QED
      BY <2>1, <2>2, <2>3, <3>1 DEF GameStarts, GameOver, ForceYield,
         ForceReclaim, Caller
  <2>4. CASE GameEnds \/ GameBack \/ Refresh
    BY <1>0, <2>4 DEF GameEnds, GameBack, Refresh, Cooling, ManagerTypeOK, Caller
  <2>5. ASSUME NEW k \in Caller, ApplyLimits(k) PROVE ManagerTypeOK'
    <3>1. CASE yielded /\ call' = [call EXCEPT ![k] = "idle"] /\ UNCHANGED todo
      BY <1>0, <2>5, <3>1 DEF ApplyLimits, ManagerTypeOK
    <3>2. CASE ~ yielded
      <4>1. PICK b \in BOOLEAN : todo' = [todo EXCEPT ![k] = ApplyCalls(b)]
        BY <2>5, <3>2 DEF ApplyLimits
      <4> QED
        BY <1>0, <2>5, <3>2, <4>1, CallsType DEF ApplyLimits, ManagerTypeOK
    <3> QED
      BY <2>5, <3>1, <3>2 DEF ApplyLimits
  <2>6. ASSUME NEW k \in Caller, SetLimit(k) PROVE ManagerTypeOK'
    <3>1. /\ todo[k] \in Seq(Resource \X Nat) /\ todo[k] # <<>>
          /\ call[k] \in {"apply", "yield"}
      BY <1>0, <2>6 DEF SetLimit, ManagerTypeOK
    <3>2. /\ Head(todo[k]) \in Resource \X Nat
          /\ Tail(todo[k]) \in Seq(Resource \X Nat)
          /\ Tail(todo[k]) = <<>> <=> Len(todo[k]) = 1
      <4> DEFINE s == todo[k]
      <4>1. s \in Seq(Resource \X Nat) /\ Len(s) \in Nat \ {0}
        BY <3>1
      <4>2. Head(s) \in Resource \X Nat /\ Tail(s) \in Seq(Resource \X Nat)
        BY <4>1
      <4>3. Len(Tail(s)) = 0 <=> Len(s) = 1
        BY <4>1
      <4>4. Tail(s) = <<>> <=> Len(Tail(s)) = 0
        BY <4>2, EmptySeq
      <4> QED
        BY <4>2, <4>3, <4>4
    <3>3. limit' \in [Resource -> Nat]
      BY <1>0, <2>6, <3>2 DEF SetLimit, ManagerTypeOK
    <3> QED
      BY <1>0, <2>6, <3>1, <3>2, <3>3 DEF SetLimit, ManagerTypeOK
  <2> QED
    BY <2>3, <2>4, <2>5, <2>6 DEF Manage
<1> QED
  BY <1>0, <1>1, <1>2, QueuePartKept DEF QInv, TypeOK, QueuePart

LEMMA NextQInv == QInv /\ [Next]_vars => QInv'
<1> SUFFICES ASSUME QInv, [Next]_vars PROVE QInv'
  OBVIOUS
<1> USE JobQueueAssumption
<1>0. QueuePart /\ ManagerTypeOK
  BY DEF QInv, TypeOK, QueuePart
<1>a. ASSUME QueuePart', UNCHANGED managerVars PROVE QInv'
  <2>1. ManagerTypeOK'
    BY <1>a, <1>0, ManagerKept
  <2> QED
    BY <1>a, <2>1 DEF QInv, TypeOK, QueuePart
<1>1. ASSUME NEW j \in Job, Enqueue(j) PROVE QInv'
  <2>1. /\ order' = Append(order, j) /\ job' = [job EXCEPT ![j] = "pending"]
        /\ job[j] = "absent" /\ UNCHANGED <<workerVars, managerVars>>
    BY <1>1 DEF Enqueue, Row
  <2>2. /\ order' \in Seq(Job) /\ DOMAIN order' = DOMAIN order \cup {Len(order) + 1}
        /\ \A i \in DOMAIN order : order'[i] = order[i]
        /\ order'[Len(order) + 1] = j
    BY <2>1, <1>0 DEF QueuePart, QueueTypeOK
  <2>3. QueueTypeOK'
    BY <2>1, <2>2, <1>0 DEF QueuePart, QueueTypeOK, workerVars
  <2> QED
    BY <2>1, <2>3, <1>0, <1>a DEF QueuePart, QueueTypeOK, HandTaken, OneExecutor,
       workerVars
<1>2. ASSUME NEW j \in Job, Cancel(j) \/ Cleanup(j) PROVE QInv'
  <2>1. PICK s \in {"cancelled", "gone"} : job' = [job EXCEPT ![j] = s]
    BY <1>2 DEF Cancel, Cleanup, Row
  <2>2. job[j] # "absent" /\ UNCHANGED <<order, workerVars, managerVars>>
    BY <1>2 DEF Cancel, Cleanup, Ended
  <2>3. job \in [Job -> {"absent", "pending", "running", "gone"} \cup Ended]
    BY <1>0 DEF QueuePart, QueueTypeOK
  <2>4. job' \in [Job -> {"absent", "pending", "running", "gone"} \cup Ended]
    BY <2>1, <2>3 DEF Ended
  <2>5. \A i \in Job : job'[i] = IF i = j THEN s ELSE job[i]
    BY <2>1, <2>3
  <2>6. QueueTypeOK'
    BY <2>2, <2>4, <2>5, <1>0 DEF QueuePart, QueueTypeOK, workerVars
  <2>7. HandTaken' /\ OneExecutor'
    BY <2>2, <2>5, <1>0 DEF QueuePart, QueueTypeOK, HandTaken, OneExecutor,
       workerVars
  <2> QED
    BY <2>2, <2>6, <2>7, <1>a DEF QueuePart
<1>3. ASSUME NEW w \in Worker, Dequeue(w) PROVE QInv'
  <2>1. PICK j \in Eligible(w) : /\ job' = [job EXCEPT ![j] = "running"]
                                 /\ hand' = [hand EXCEPT ![w] = j]
    BY <1>3 DEF Dequeue, Row
  <2>2. j \in Job /\ job[j] = "pending" /\ j # NoJob
    BY DEF Eligible
  <2>3. /\ wpc[w] = "idle" /\ wpc' = [wpc EXCEPT ![w] = "asked"]
        /\ UNCHANGED <<order, managerVars>>
    BY <1>3 DEF Dequeue
  <2>4. \A v \in Worker : hand[v] # j
    BY <2>2, <1>0 DEF QueuePart, QueueTypeOK, HandTaken
  <2>5. QueueTypeOK'
    BY <2>1, <2>2, <2>3, <1>0 DEF QueuePart, QueueTypeOK, Ended
  <2>6. HandTaken' /\ OneExecutor'
    BY <2>1, <2>2, <2>3, <2>4, <1>0 DEF QueuePart, QueueTypeOK, HandTaken,
       OneExecutor, Ended
  <2> QED
    BY <2>3, <2>5, <2>6, <1>a DEF QueuePart
<1>4. ASSUME NEW w \in Worker, Execute(w) \/ CancelWorker(w) PROVE QInv'
  <2>1. QueueTypeOK'
    BY <1>4, <1>0 DEF Execute, CancelWorker, queueVars, QueuePart, QueueTypeOK
  <2>2. HandTaken' /\ OneExecutor'
    <3>1. hand \in [Worker -> Job \cup {NoJob}]
      BY <1>0 DEF QueuePart, QueueTypeOK
    <3> QED
      BY <1>4, <1>0, <3>1 DEF Execute, CancelWorker, queueVars, QueuePart,
         HandTaken, OneExecutor
  <2> QED
    BY <1>4, <2>1, <2>2, <1>a DEF Execute, CancelWorker, QueuePart
<1>5. ASSUME NEW w \in Worker, NEW s \in {"completed", "failed"}, Report(w, s)
      PROVE  QInv'
  <2>1. hand[w] \in Job
    BY <1>5, <1>0 DEF Report, QueuePart, QueueTypeOK
  <2>2. QueueTypeOK'
    BY <1>5, <1>0, <2>1 DEF Report, QueuePart, QueueTypeOK, Ended
  <2>3. HandTaken' /\ OneExecutor'
    BY <1>5, <1>0, <2>1 DEF Report, QueuePart, QueueTypeOK, HandTaken,
       OneExecutor, Ended
  <2> QED
    BY <1>5, <2>2, <2>3, <1>a DEF Report, QueuePart
<1>6. CASE OpenAgain
  <2>1. QueuePart'
    BY <1>6, <1>0 DEF OpenAgain, FailStale, Stale, workerVars, QueuePart,
       QueueTypeOK, HandTaken, OneExecutor, Ended
  <2> QED
    BY <1>6, <2>1, <1>a DEF OpenAgain
<1>7. CASE Restart
  <2>1. QueuePart'
    BY <1>7, <1>0 DEF Restart, FailStale, Stale, QueuePart, QueueTypeOK,
       HandTaken, OneExecutor, Ended
  <2>2. ManagerTypeOK'
    <3>1. todo' \in [Caller -> Seq(Resource \X Nat)]
      <4>1. <<>> \in Seq(Resource \X Nat)
        OBVIOUS
      <4> QED
        BY <1>7, <4>1 DEF Restart
    <3>2. call' \in [Caller -> {"idle", "probe", "apply", "yield"}]
      BY <1>7 DEF Restart
    <3>3. \A k \in Caller : todo'[k] = <<>> /\ call'[k] = "idle"
      BY <1>7 DEF Restart
    <3>4. limit' \in [Resource -> Nat] /\ yielded' \in BOOLEAN /\ game' \in BOOLEAN
            /\ cooling' \in BOOLEAN /\ mixed' \in BOOLEAN
      BY <1>7, <1>0 DEF Restart, ManagerTypeOK
    <3> QED
      BY <3>1, <3>2, <3>3, <3>4 DEF ManagerTypeOK
  <2> QED
    BY <2>1, <2>2 DEF QInv, TypeOK, QueuePart
<1>8. CASE \/ GameStarts \/ GameEnds \/ GameBack \/ GameOver \/ ForceYield
           \/ ForceReclaim \/ Refresh \/ \E k \in Caller : Manage(k)
  BY <1>8, ManagersQInv
<1>9. CASE UNCHANGED vars
  BY <1>9, <1>0, <1>a, QueuePartKept DEF vars
<1> QED
  BY <1>1, <1>2, <1>3, <1>4, <1>5, <1>6, <1>7, <1>8, <1>9 DEF Next, Work

\* Rows, workers, limits and the calls under way keep their types; a worker
\* has a job exactly while it asks for one or executes it.
THEOREM JobsTypeCorrect == Spec => []TypeOK
<1>1. QInv => TypeOK
  BY DEF QInv
<1> QED
  BY <1>1, InitQInv, NextQInv, PTL DEF Spec

\* No job is ever in the hands of two workers: dequeue() takes pending rows
\* only, and no restart, cancellation or second opening of the queue makes a
\* row pending again.
THEOREM JobsHaveOneExecutor == Spec => []OneExecutor
<1>1. QInv => OneExecutor
  BY DEF QInv
<1> QED
  BY <1>1, InitQInv, NextQInv, PTL DEF Spec

\* A row that has ended keeps its result: complete() and fail() look at the
\* row, and cleanup() is the only way out.
THEOREM EndedJobsStay == Spec => FinalIsFinal
<1>1. QInv /\ [Next]_vars => [\A j \in Job : job[j] \in Ended =>
                                  job'[j] \in {job[j], "gone"}]_vars
  <2> SUFFICES ASSUME QInv, [Next]_vars, NEW j \in Job, job[j] \in Ended
               PROVE  job'[j] \in {job[j], "gone"}
    BY DEF vars
  <2> USE DEF QInv, TypeOK, QueueTypeOK, Ended
  <2>1. ASSUME NEW i \in Job, Enqueue(i) \/ Cancel(i) \/ Cleanup(i)
        PROVE  job'[j] \in {job[j], "gone"}
    BY <2>1 DEF Enqueue, Cancel, Cleanup, Row
  <2>2. ASSUME NEW w \in Worker, Work(w) \/ CancelWorker(w)
        PROVE  job'[j] \in {job[j], "gone"}
    <3>1. job \in [Job -> {"absent", "pending", "running", "gone"} \cup Ended]
      OBVIOUS
    <3>2. CASE Dequeue(w)
      BY <3>1, <3>2 DEF Dequeue, Row, Eligible
    <3>3. CASE Execute(w) \/ CancelWorker(w)
      BY <3>3 DEF Execute, CancelWorker, queueVars
    <3>4. ASSUME NEW s, Report(w, s) PROVE job'[j] = job[j]
      BY <3>1, <3>4 DEF Report
    <3> QED
      BY <2>2, <3>2, <3>3, <3>4 DEF Work
  <2>3. CASE OpenAgain \/ Restart
    BY <2>3 DEF OpenAgain, Restart, FailStale, Stale
  <2>4. CASE GameStarts \/ GameEnds \/ GameBack \/ GameOver \/ ForceYield
               \/ ForceReclaim \/ Refresh
    BY <2>4 DEF GameStarts, GameEnds, GameBack, GameOver, ForceYield,
       ForceReclaim, Refresh, Cooling, Yield, Reclaim, queueVars
  <2>5. ASSUME NEW k \in Caller, Manage(k) PROVE job'[j] \in {job[j], "gone"}
    BY <2>5 DEF Manage, ApplyLimits, SetLimit, queueVars
  <2>6. CASE UNCHANGED vars
    BY <2>6 DEF vars, queueVars
  <2> QED
    BY <2>1, <2>2, <2>3, <2>4, <2>5, <2>6 DEF Next
<1> QED
  BY <1>1, InitQInv, NextQInv, PTL DEF Spec, FinalIsFinal

\* The limit on rows is a limit on what really runs: a job is started only
\* while fewer workers than the limit have jobs of its resource, or while a
\* worker goes on with a job that was declared stale.  Distinct workers have
\* distinct jobs, so the workers are no more than the running rows.
THEOREM LimitsHold == Spec => StartsWithinLimit
<1> DEFINE Step == \A w \in Worker :
                     hand'[w] \notin {NoJob, hand[w]} =>
                       LET r == Needs[hand'[w]] IN
                         \/ Cardinality(Holders(r)) < limit[r]
                         \/ \E v \in Holders(r) : job[hand[v]] # "running"
<1>1. ASSUME QInv, [Next]_vars, NEW w \in Worker,
             hand'[w] \notin {NoJob, hand[w]},
             \A v \in Holders(Needs[hand'[w]]) : job[hand[v]] = "running"
      PROVE  Cardinality(Holders(Needs[hand'[w]])) < limit[Needs[hand'[w]]]
  <2>1. hand \in [Worker -> Job \cup {NoJob}]
    BY <1>1 DEF QInv, TypeOK, QueueTypeOK
  <2>2. PICK v \in Worker : Dequeue(v)
    <3>1. ASSUME NEW v \in Worker, Execute(v) \/ CancelWorker(v)
                   \/ \E s \in {"completed", "failed"} : Report(v, s)
          PROVE  hand'[w] \in {NoJob, hand[w]}
      BY <2>1, <3>1 DEF Execute, CancelWorker, Report
    <3>2. CASE \/ \E j \in Job : Enqueue(j) \/ Cancel(j) \/ Cleanup(j)
               \/ OpenAgain \/ Restart
      BY <1>1, <2>1, <3>2 DEF Enqueue, Cancel, Cleanup, OpenAgain, Restart,
         workerVars
    <3>3. CASE \/ GameStarts \/ GameEnds \/ GameBack \/ GameOver
               \/ ForceYield \/ ForceReclaim \/ Refresh
               \/ \E k \in Caller : Manage(k)
      <4>1. UNCHANGED hand
        BY <3>3 DEF GameStarts, GameEnds, GameBack, GameOver, ForceYield,
           ForceReclaim, Refresh, Cooling, Yield, Reclaim, Manage,
           ApplyLimits, SetLimit, workerVars
      <4> QED
        BY <1>1, <4>1
    <3>4. CASE UNCHANGED vars
      BY <1>1, <3>4 DEF vars, workerVars
    <3> QED
      BY <1>1, <3>1, <3>2, <3>3, <3>4 DEF Next, Work
  <2>3. PICK j \in Eligible(v) : hand' = [hand EXCEPT ![v] = j]
    BY <2>2 DEF Dequeue
  <2>4. hand'[w] = j
    BY <1>1, <2>1, <2>3
  <2> DEFINE r == Needs[j]
             H == Holders(r)
             R == Running(r)
             f == [x \in H |-> hand[x]]
  <2>5. j \in Job /\ Cardinality(R) < limit[r]
    BY <2>3 DEF Eligible, HasCapacity
  <2>6. \A x \in H : /\ x \in Worker /\ hand[x] \in R
                     /\ \A y \in H : hand[x] = hand[y] => x = y
    <3>1. \A x \in H : /\ x \in Worker /\ hand[x] # NoJob
                       /\ Needs[hand[x]] = r /\ job[hand[x]] = "running"
      BY <1>1, <2>4 DEF Holders
    <3>2. \A x \in H : hand[x] \in Job
      BY <2>1, <3>1
    <3> QED
      BY <1>1, <3>1, <3>2 DEF Running, QInv, OneExecutor
  <2>7. f \in Injection(H, R)
    <3>1. f \in [H -> R]
      BY <2>6
    <3>2. \A x, y \in H : f[x] = f[y] => x = y
      BY <2>6
    <3> QED
      BY <3>1, <3>2 DEF Injection, IsInjective
  <2>8. IsFiniteSet(R)
    <3>1. R \in SUBSET Job
      BY DEF Running
    <3> QED
      BY <3>1, FS_Subset, JobQueueAssumption
  <2> HIDE DEF H, R, f
  <2>9. Cardinality(H) <= Cardinality(R) /\ IsFiniteSet(H)
    BY <2>7, <2>8, FS_Injection
  <2>10. Cardinality(H) \in Nat /\ Cardinality(R) \in Nat
    BY <2>8, <2>9, FS_CardinalityType
  <2>11. limit[r] \in Nat
    BY <1>1, <2>5, JobQueueAssumption DEF QInv, TypeOK, ManagerTypeOK
  <2>12. Cardinality(H) < limit[r]
    BY <2>5, <2>9, <2>10, <2>11
  <2> QED
    BY <2>4, <2>12 DEF H
<1>2. QInv /\ [Next]_vars => [Step]_vars
  BY <1>1
<1> QED
  BY <1>2, InitQInv, NextQInv, PTL DEF Spec, StartsWithinLimit

----------------------------------------------------------------------------
(* Yielding *)

\* A yield under way sets the throttled limits and nothing else.
YieldCallsThrottle ==
    \A k \in Caller : call[k] = "yield" =>
        \A p \in Range(todo[k]) : p[2] = Throttled[p[1]]

\* Some call under way will set the limit of the resource.
Covered(r) == \E k \in Caller : \E p \in Range(todo[k]) : p[1] = r

\* After a yield that met no _apply_limits, none begins; every limit is
\* throttled, or a call is on its way that throttles it.
YieldCovers ==
    yielded /\ ~ mixed =>
        /\ \A k \in Caller : call[k] # "apply"
        /\ \A r \in Resource : limit[r] = Throttled[r] \/ Covered(r)

YInv == QInv /\ YieldCallsThrottle /\ YieldCovers

\* One set_limit call is the pair it sets, or nothing if the resource is not
\* in use.
LEMMA CallRange ==
  ASSUME NEW r, NEW n
  PROVE  Range(Call(r, n)) = IF r \in Resource THEN {<<r, n>>} ELSE {}
<1>1. Range(<<>>) = {}
  BY DEF Range
<1>2. Range(<<<<r, n>>>>) = {<<r, n>>}
  BY DEF Range
<1> QED
  BY <1>1, <1>2 DEF Call

\* A set_limit call sets the limit of its own resource only.
LEMMA CallSets ==
  ASSUME NEW r, NEW n
  PROVE  \A p \in Range(Call(r, n)) : p[1] = r
<1>1. \A p \in {<<r, n>>} : p[1] = r
  OBVIOUS
<1> QED
  BY <1>1, CallRange

\* yield_resources throttles every resource in use.
LEMMA YieldCallsRange ==
  /\ \A p \in Range(YieldCalls) : p[2] = Throttled[p[1]]
  /\ \A r \in Resource : \E p \in Range(YieldCalls) : p[1] = r
<1> DEFINE a == Call("cpu", 1)
           b == Call("gpu", 0)
           c == Call("npu", 0)
           d == Call("embed", 1)
           S == Resource \X Nat
<1>1. a \in Seq(S) /\ b \in Seq(S) /\ c \in Seq(S) /\ d \in Seq(S)
  BY CallType
<1>2. /\ Range(a) = IF "cpu" \in Resource THEN {<<"cpu", 1>>} ELSE {}
      /\ Range(b) = IF "gpu" \in Resource THEN {<<"gpu", 0>>} ELSE {}
      /\ Range(c) = IF "npu" \in Resource THEN {<<"npu", 0>>} ELSE {}
      /\ Range(d) = IF "embed" \in Resource THEN {<<"embed", 1>>} ELSE {}
  <2>1. Range(a) = IF "cpu" \in Resource THEN {<<"cpu", 1>>} ELSE {}
    BY CallRange
  <2>2. Range(b) = IF "gpu" \in Resource THEN {<<"gpu", 0>>} ELSE {}
    BY CallRange
  <2>3. Range(c) = IF "npu" \in Resource THEN {<<"npu", 0>>} ELSE {}
    BY CallRange
  <2>4. Range(d) = IF "embed" \in Resource THEN {<<"embed", 1>>} ELSE {}
    BY CallRange
  <2> HIDE DEF a, b, c, d
  <2> QED
    BY <2>1, <2>2, <2>3, <2>4
<1>3. YieldCalls = a \o b \o c \o d
  BY DEF YieldCalls
<1> HIDE DEF a, b, c, d, S
<1>4. a \o b \in Seq(S) /\ Range(a \o b) = Range(a) \cup Range(b)
  BY <1>1, RangeConcatenation
<1> DEFINE ab == a \o b
           abc == ab \o c
<1>5. abc \in Seq(S) /\ Range(abc) = Range(ab) \cup Range(c)
  <2>1. ab \in Seq(S)
    BY <1>4
  <2> HIDE DEF ab
  <2> QED
    BY <1>1, <2>1, RangeConcatenation
<1>6. Range(YieldCalls) = Range(a) \cup Range(b) \cup Range(c) \cup Range(d)
  <2>1. YieldCalls = abc \o d
    BY <1>3
  <2>2. Range(ab) = Range(a) \cup Range(b)
    BY <1>4
  <2> HIDE DEF abc, ab
  <2>3. Range(abc \o d) = Range(abc) \cup Range(d)
    BY <1>1, <1>5, RangeConcatenation
  <2> QED
    BY <1>5, <2>1, <2>2, <2>3
<1>7. ASSUME NEW p \in Range(YieldCalls) PROVE p[2] = Throttled[p[1]]
  BY <1>2, <1>6, <1>7 DEF Throttled
<1>8. ASSUME NEW r \in Resource
      PROVE  \E p \in Range(YieldCalls) : p[1] = r
  <2>1. \E n \in {0, 1} : <<r, n>> \in Range(YieldCalls)
    <3>1. r \in {"cpu", "npu", "gpu", "embed"}
      BY JobQueueAssumption
    <3> QED
      BY <3>1, <1>2, <1>6, <1>8
  <2> QED
    BY <2>1
<1> QED
  BY <1>7, <1>8

\* The calls of a sequence are its first one and those that follow.
LEMMA RangeHeadTail ==
  ASSUME NEW S, NEW s \in Seq(S), s # <<>>
  PROVE  Range(s) = {Head(s)} \cup Range(Tail(s))
<1>1. /\ Len(s) \in Nat \ {0} /\ Tail(s) \in Seq(S)
      /\ Len(Tail(s)) = Len(s) - 1 /\ Head(s) = s[1]
      /\ \A i \in 1 .. Len(s) - 1 : Tail(s)[i] = s[i + 1]
  OBVIOUS
<1>2. Range(s) = {s[i] : i \in 1 .. Len(s)}
  BY RangeEquality
<1>3. Range(Tail(s)) = {Tail(s)[i] : i \in 1 .. Len(s) - 1}
  BY <1>1, RangeEquality
<1>4. ASSUME NEW x \in Range(s) PROVE x \in {Head(s)} \cup Range(Tail(s))
  <2>1. PICK i \in 1 .. Len(s) : x = s[i]
    BY <1>2
  <2>2. CASE i = 1
    BY <1>1, <2>1, <2>2
  <2>3. CASE i # 1
    <3>1. i - 1 \in 1 .. Len(s) - 1 /\ Tail(s)[i - 1] = x
      BY <1>1, <2>1, <2>3
    <3> QED
      BY <1>3, <3>1
  <2> QED
    BY <2>2, <2>3
<1>5. ASSUME NEW x \in {Head(s)} \cup Range(Tail(s)) PROVE x \in Range(s)
  <2>1. CASE x = Head(s)
    BY <1>1, <1>2, <2>1
  <2>2. CASE x \in Range(Tail(s))
    <3>1. PICK i \in 1 .. Len(s) - 1 : x = Tail(s)[i]
      BY <1>3, <2>2
    <3>2. i + 1 \in 1 .. Len(s) /\ x = s[i + 1]
      BY <1>1, <3>1
    <3> QED
      BY <1>2, <3>2
  <2> QED
    BY <1>5, <2>1, <2>2
<1> QED
  BY <1>4, <1>5

LEMMA InitYInv == Init => YInv
<1> SUFFICES ASSUME Init PROVE YInv
  OBVIOUS
<1>1. \A k \in Caller : call[k] = "idle"
  BY DEF Init
<1>2. ~ yielded
  BY DEF Init
<1> QED
  BY <1>1, <1>2, InitQInv DEF YInv, YieldCallsThrottle, YieldCovers

\* The parts of the invariant speak of the manager only.
LEMMA YieldKept ==
  ASSUME YInv, QInv', UNCHANGED <<limit, yielded, call, todo, mixed>>
  PROVE  YInv'
BY DEF YInv, YieldCallsThrottle, YieldCovers, Covered

LEMMA YieldYInv ==
  ASSUME NEW k \in Caller, YInv, QInv', Yield(k)
  PROVE  YInv'
<1>1. /\ call' = [call EXCEPT ![k] = "yield"]
      /\ todo' = [todo EXCEPT ![k] = YieldCalls]
      /\ mixed' = \E o \in Caller : call[o] = "apply"
      /\ limit' = limit
  BY DEF Yield
<1>2. /\ call \in [Caller -> {"idle", "probe", "apply", "yield"}]
      /\ todo \in [Caller -> Seq(Resource \X Nat)]
  BY DEF YInv, QInv, TypeOK, ManagerTypeOK
<1>3. todo'[k] = YieldCalls /\ \A o \in Caller \ {k} : todo'[o] = todo[o]
  BY <1>1, <1>2
<1>4. call'[k] = "yield" /\ \A o \in Caller \ {k} : call'[o] = call[o]
  BY <1>1, <1>2
<1>5. YieldCallsThrottle'
  <2> SUFFICES ASSUME NEW o \in Caller, call'[o] = "yield",
                      NEW p \in Range(todo'[o])
               PROVE  p[2] = Throttled[p[1]]
    BY DEF YieldCallsThrottle
  <2>1. CASE o = k
    BY <1>3, <2>1, YieldCallsRange
  <2>2. CASE o # k
    BY <1>3, <1>4, <2>2 DEF YInv, YieldCallsThrottle
  <2> QED
    BY <2>1, <2>2
<1>6. YieldCovers'
  <2>1. ASSUME ~ mixed' PROVE \A o \in Caller : call'[o] # "apply"
    BY <1>1, <1>4, <2>1
  <2>2. ASSUME NEW r \in Resource PROVE Covered(r)'
    <3>1. \E p \in Range(todo'[k]) : p[1] = r
      BY <1>3, YieldCallsRange
    <3> QED
      BY <3>1 DEF Covered
  <2> QED
    BY <2>1, <2>2 DEF YieldCovers
<1> QED
  BY <1>5, <1>6 DEF YInv

LEMMA SetLimitYInv ==
  ASSUME NEW k \in Caller, YInv, QInv', SetLimit(k)
  PROVE  YInv'
<1> DEFINE c == Head(todo[k])
<1>1. /\ todo[k] \in Seq(Resource \X Nat) /\ todo[k] # <<>>
      /\ call[k] \in {"apply", "yield"}
      /\ limit \in [Resource -> Nat]
      /\ call \in [Caller -> {"idle", "probe", "apply", "yield"}]
      /\ todo \in [Caller -> Seq(Resource \X Nat)]
  BY DEF SetLimit, YInv, QInv, TypeOK, ManagerTypeOK
<1>2. c \in Resource \X Nat
  BY <1>1
<1>3. Range(todo[k]) = {c} \cup Range(Tail(todo[k]))
  BY <1>1, RangeHeadTail
<1>4. /\ limit' = [limit EXCEPT ![c[1]] = c[2]]
      /\ todo' = [todo EXCEPT ![k] = Tail(todo[k])]
      /\ call' = [call EXCEPT ![k] = IF Len(todo[k]) = 1 THEN "idle" ELSE @]
      /\ yielded' = yielded /\ mixed' = mixed
  BY DEF SetLimit
<1>5. /\ todo'[k] = Tail(todo[k])
      /\ \A o \in Caller \ {k} : todo'[o] = todo[o]
  BY <1>1, <1>4
<1>6. \A o \in Caller : call'[o] \in {"idle", call[o]}
  BY <1>1, <1>4
<1> HIDE DEF c
<1>7. \A o \in Caller : Range(todo'[o]) \subseteq Range(todo[o])
  BY <1>3, <1>5
<1>8. YieldCallsThrottle'
  BY <1>6, <1>7 DEF YInv, YieldCallsThrottle
<1>9. YieldCovers'
  <2> SUFFICES ASSUME yielded, ~ mixed
               PROVE  /\ \A o \in Caller : call'[o] # "apply"
                      /\ \A r \in Resource :
                            limit'[r] = Throttled[r] \/ Covered(r)'
    BY <1>4 DEF YieldCovers
  <2>1. /\ \A o \in Caller : call[o] # "apply"
        /\ \A r \in Resource : limit[r] = Throttled[r] \/ Covered(r)
    BY DEF YInv, YieldCovers
  <2>2. c[2] = Throttled[c[1]]
    BY <1>1, <1>3, <2>1 DEF YInv, YieldCallsThrottle
  <2>3. ASSUME NEW r \in Resource PROVE limit'[r] = Throttled[r] \/ Covered(r)'
    <3>1. CASE r = c[1]
      BY <1>1, <1>2, <1>4, <2>2, <3>1
    <3>2. CASE r # c[1] /\ limit[r] = Throttled[r]
      BY <1>1, <1>2, <1>4, <3>2
    <3>3. CASE r # c[1] /\ Covered(r)
      <4>1. PICK o \in Caller : \E p \in Range(todo[o]) : p[1] = r
        BY <3>3 DEF Covered
      <4>2. \E p \in Range(todo'[o]) : p[1] = r
        BY <1>3, <1>5, <3>3, <4>1
      <4> QED
        BY <4>2 DEF Covered
    <3> QED
      BY <2>1, <3>1, <3>2, <3>3
  <2> QED
    BY <1>6, <2>1, <2>3
<1> QED
  BY <1>8, <1>9 DEF YInv

\* A probe that is over starts an _apply_limits only if nothing is yielded.
LEMMA ApplyYInv ==
  ASSUME NEW k \in Caller, YInv, QInv', ApplyLimits(k)
  PROVE  YInv'
<1>1. /\ call \in [Caller -> {"idle", "probe", "apply", "yield"}]
      /\ todo \in [Caller -> Seq(Resource \X Nat)]
  BY DEF YInv, QInv, TypeOK, ManagerTypeOK
<1>2. UNCHANGED <<limit, yielded, mixed>>
  BY DEF ApplyLimits
<1>3. CASE yielded
  <2>1. call' = [call EXCEPT ![k] = "idle"] /\ todo' = todo
    BY <1>3 DEF ApplyLimits
  <2>2. \A o \in Caller : call'[o] \in {"idle", call[o]}
    BY <1>1, <2>1
  <2> QED
    BY <1>2, <2>1, <2>2 DEF YInv, YieldCallsThrottle, YieldCovers, Covered
<1>4. CASE ~ yielded
  <2>1. call'[k] = "apply" /\ \A o \in Caller \ {k} : /\ call'[o] = call[o]
                                                      /\ todo'[o] = todo[o]
    BY <1>1, <1>4 DEF ApplyLimits
  <2>2. YieldCallsThrottle'
    BY <2>1 DEF YInv, YieldCallsThrottle
  <2> QED
    BY <1>2, <1>4, <2>2 DEF YInv, YieldCovers
<1> QED
  BY <1>3, <1>4

LEMMA NextYInv == YInv /\ [Next]_vars => YInv'
<1> SUFFICES ASSUME YInv, [Next]_vars PROVE YInv'
  OBVIOUS
<1>0. QInv'
  BY NextQInv DEF YInv
<1>1. ASSUME UNCHANGED managerVars PROVE YInv'
  BY <1>0, <1>1, YieldKept DEF managerVars
<1>2. CASE \/ \E j \in Job : Enqueue(j) \/ Cancel(j) \/ Cleanup(j)
           \/ \E w \in Worker : Work(w) \/ CancelWorker(w)
           \/ OpenAgain \/ UNCHANGED vars
  BY <1>1, <1>2 DEF Enqueue, Cancel, Cleanup, Work, Dequeue, Execute, Report,
     CancelWorker, OpenAgain, vars
<1>3. CASE Restart
  <2>1. ~ yielded' /\ \A k \in Caller : call'[k] = "idle"
    BY <1>3 DEF Restart
  <2> QED
    BY <1>0, <2>1 DEF YInv, YieldCallsThrottle, YieldCovers
<1>4. CASE GameStarts \/ ForceYield
  BY <1>0, <1>4, YieldYInv DEF GameStarts, ForceYield, Caller
<1>5. ASSUME NEW k \in Caller, Reclaim(k) PROVE YInv'
  <2>1. call \in [Caller -> {"idle", "probe", "apply", "yield"}]
    BY DEF YInv, QInv, TypeOK, ManagerTypeOK
  <2>2. ~ yielded' /\ todo' = todo
    BY <1>5 DEF Reclaim
  <2>3. \A o \in Caller : call'[o] \in {"probe", call[o]}
    BY <1>5, <2>1 DEF Reclaim
  <2> QED
    BY <1>0, <2>2, <2>3 DEF YInv, YieldCallsThrottle, YieldCovers
<1>6. CASE GameOver \/ ForceReclaim
  BY <1>5, <1>6 DEF GameOver, ForceReclaim, Caller
<1>7. CASE GameEnds \/ GameBack
  BY <1>0, <1>7, YieldKept DEF GameEnds, GameBack, Cooling
<1>8. CASE Refresh
  <2>1. call \in [Caller -> {"idle", "probe", "apply", "yield"}]
    BY DEF YInv, QInv, TypeOK, ManagerTypeOK
  <2>2. \A o \in Caller : call'[o] \in {"probe", call[o]}
    BY <1>8, <2>1 DEF Refresh
  <2>3. UNCHANGED <<limit, yielded, todo, mixed>>
    BY <1>8 DEF Refresh
  <2> QED
    BY <1>0, <2>2, <2>3 DEF YInv, YieldCallsThrottle, YieldCovers, Covered
<1>9. ASSUME NEW k \in Caller, Manage(k) PROVE YInv'
  BY <1>0, <1>9, ApplyYInv, SetLimitYInv DEF Manage
<1> QED
  BY <1>2, <1>3, <1>4, <1>6, <1>7, <1>8, <1>9 DEF Next

\* Once yield_resources has returned the machine is the user's, for every
\* set of resources and whatever yields, refreshes and polls of the detector
\* overlap: no limit is above the throttle until someone reclaims.
THEOREM YieldHolds == Spec => []YieldSticks
<1>1. YInv => YieldSticks
  <2> SUFFICES ASSUME YInv, yielded, ~ mixed,
                      \A k \in Caller : todo[k] = <<>>
               PROVE  limit = Throttled
    BY DEF YieldSticks
  <2>1. Range(<<>>) = {}
    BY DEF Range
  <2>2. \A r \in Resource : limit[r] = Throttled[r]
    BY <2>1 DEF YInv, YieldCovers, Covered
  <2>3. limit \in [Resource -> Nat]
    BY DEF YInv, QInv, TypeOK, ManagerTypeOK
  <2> QED
    BY <2>2, <2>3 DEF Throttled
<1> QED
  BY <1>1, InitYInv, NextYInv, PTL DEF Spec

----------------------------------------------------------------------------
(* Reclaiming *)

\* An _apply_limits under way sets the probed limit of the GPU and no other.
ApplyCallsProbe ==
    \A k \in Caller : call[k] = "apply" =>
        \A p \in Range(todo[k]) : p[1] = "gpu" => p[2] = Probed["gpu"]

\* Some caller is probing, or has still to set the limit of the GPU.
Coming == \E k \in Caller : \/ call[k] = "probe"
                            \/ \E p \in Range(todo[k]) : p[1] = "gpu"

\* After a reclaim that met no yield, none is under way; the GPU has its
\* probed limit, or it is coming.
ReclaimCovers ==
    ~ yielded /\ ~ mixed =>
        /\ \A k \in Caller : call[k] # "yield"
        /\ "gpu" \in Resource => limit["gpu"] = Probed["gpu"] \/ Coming

RInv == QInv /\ ApplyCallsProbe /\ ReclaimCovers

\* _apply_limits sets the limit of the GPU, to what the probe gave, with
\* little memory or not.
LEMMA ApplyCallsRange ==
  ASSUME NEW low \in BOOLEAN
  PROVE  /\ \A p \in Range(ApplyCalls(low)) :
               p[1] = "gpu" => p[2] = Probed["gpu"]
         /\ "gpu" \in Resource =>
               \E p \in Range(ApplyCalls(low)) : p[1] = "gpu"
<1> DEFINE S == Resource \X Nat
           a == Call("cpu", Probed["cpu"])
           b == Call("npu", Probed["npu"])
           c == Call("gpu", Probed["gpu"])
           d == Call("embed", 1)
           x == Call("cpu", 1)
           y == Call("npu", AtMostOne(Probed["npu"]))
           less == IF low THEN x \o y ELSE <<>>
<1>0. /\ Probed["cpu"] \in Nat /\ Probed["npu"] \in Nat
      /\ Probed["gpu"] \in Nat
      /\ AtMostOne(Probed["npu"]) \in Nat
  BY JobQueueAssumption DEF AtMostOne
<1>1. /\ a \in Seq(S) /\ b \in Seq(S) /\ c \in Seq(S) /\ d \in Seq(S)
      /\ x \in Seq(S) /\ y \in Seq(S)
  BY <1>0, CallType
<1>2. /\ \A p \in Range(a) \cup Range(b) \cup Range(d) \cup Range(x)
                    \cup Range(y) : p[1] # "gpu"
      /\ Range(c) = IF "gpu" \in Resource THEN {<<"gpu", Probed["gpu"]>>}
                    ELSE {}
  <2>1. \A p \in Range(a) : p[1] = "cpu"
    BY CallSets
  <2>2. \A p \in Range(b) : p[1] = "npu"
    BY CallSets
  <2>3. \A p \in Range(d) : p[1] = "embed"
    BY CallSets
  <2>4. \A p \in Range(x) : p[1] = "cpu"
    BY CallSets
  <2>5. \A p \in Range(y) : p[1] = "npu"
    BY CallSets
  <2>6. Range(c) = IF "gpu" \in Resource THEN {<<"gpu", Probed["gpu"]>>}
                   ELSE {}
    BY CallRange
  <2> HIDE DEF a, b, c, d, x, y
  <2> QED
    BY <2>1, <2>2, <2>3, <2>4, <2>5, <2>6
<1>3. ApplyCalls(low) = a \o b \o c \o d \o less
  BY DEF ApplyCalls
<1> HIDE DEF S, a, b, c, d, x, y
<1>4. less \in Seq(S) /\ Range(less) \subseteq Range(x) \cup Range(y)
  <2>1. Range(<<>>) = {}
    BY DEF Range
  <2>2. x \o y \in Seq(S) /\ Range(x \o y) = Range(x) \cup Range(y)
    BY <1>1, RangeConcatenation
  <2> QED
    BY <2>1, <2>2
<1> HIDE DEF less
<1> DEFINE ab == a \o b
           abc == ab \o c
           abcd == abc \o d
<1>5. ab \in Seq(S) /\ Range(ab) = Range(a) \cup Range(b)
  BY <1>1, RangeConcatenation
<1>6. ApplyCalls(low) = abcd \o less
  BY <1>3
<1>7. abc \in Seq(S) /\ Range(abc) = Range(ab) \cup Range(c)
  <2> HIDE DEF ab
  <2> QED
    BY <1>1, <1>5, RangeConcatenation
<1>8. abcd \in Seq(S) /\ Range(abcd) = Range(abc) \cup Range(d)
  <2> HIDE DEF abc
  <2> QED
    BY <1>1, <1>7, RangeConcatenation
<1> HIDE DEF ab, abc, abcd
<1>9. Range(ApplyCalls(low)) = Range(abcd) \cup Range(less)
  BY <1>4, <1>6, <1>8, RangeConcatenation
<1>10. /\ Range(c) \subseteq Range(ApplyCalls(low))
       /\ \A p \in Range(ApplyCalls(low)) : p[1] # "gpu" \/ p \in Range(c)
  BY <1>2, <1>4, <1>5, <1>7, <1>8, <1>9
<1>11. ASSUME NEW p \in Range(ApplyCalls(low)), p[1] = "gpu"
       PROVE  p[2] = Probed["gpu"]
  BY <1>2, <1>10, <1>11
<1>12. ASSUME "gpu" \in Resource
       PROVE  \E p \in Range(ApplyCalls(low)) : p[1] = "gpu"
  <2>1. <<"gpu", Probed["gpu"]>> \in Range(ApplyCalls(low))
    BY <1>2, <1>10, <1>12
  <2> QED
    BY <2>1
<1> QED
  BY <1>11, <1>12

LEMMA InitRInv == Init => RInv
BY InitQInv DEF Init, RInv, ApplyCallsProbe, ReclaimCovers

LEMMA ReclaimKept ==
  ASSUME RInv, QInv', UNCHANGED <<limit, yielded, call, todo, mixed>>
  PROVE  RInv'
BY DEF RInv, ApplyCallsProbe, ReclaimCovers, Coming

\* A yield starts no _apply_limits and a reclaim begins with a probe.
LEMMA TurnRInv ==
  ASSUME NEW k \in Caller, RInv, QInv', Yield(k) \/ Reclaim(k)
  PROVE  RInv'
<1>1. call \in [Caller -> {"idle", "probe", "apply", "yield"}]
  BY DEF RInv, QInv, TypeOK, ManagerTypeOK
<1>2. /\ call'[k] \in {"yield", "probe"}
      /\ \A o \in Caller \ {k} : call'[o] = call[o] /\ todo'[o] = todo[o]
  BY <1>1 DEF Yield, Reclaim, RInv, QInv, TypeOK, ManagerTypeOK
<1>3. ApplyCallsProbe'
  BY <1>2 DEF RInv, ApplyCallsProbe
<1>4. ReclaimCovers'
  <2>1. CASE Yield(k)
    BY <2>1 DEF Yield, ReclaimCovers
  <2>2. CASE Reclaim(k)
    <3>1. call'[k] = "probe" /\ mixed' = \E o \in Caller : call[o] = "yield"
      BY <1>1, <2>2 DEF Reclaim
    <3> QED
      BY <1>2, <3>1 DEF ReclaimCovers, Coming
  <2> QED
    BY <2>1, <2>2
<1> QED
  BY <1>3, <1>4 DEF RInv

\* The probe is over and, with nothing yielded, the limit of the GPU is
\* among the calls to come.
LEMMA ApplyRInv ==
  ASSUME NEW k \in Caller, RInv, QInv', ApplyLimits(k)
  PROVE  RInv'
<1>1. /\ call \in [Caller -> {"idle", "probe", "apply", "yield"}]
      /\ todo \in [Caller -> Seq(Resource \X Nat)]
  BY DEF RInv, QInv, TypeOK, ManagerTypeOK
<1>2. UNCHANGED <<limit, yielded, mixed>>
  BY DEF ApplyLimits
<1>3. CASE yielded
  <2>1. \A o \in Caller : call'[o] \in {"idle", call[o]} /\ todo'[o] = todo[o]
    BY <1>1, <1>3 DEF ApplyLimits
  <2> QED
    BY <1>2, <1>3, <2>1 DEF RInv, ApplyCallsProbe, ReclaimCovers
<1>4. CASE ~ yielded
  <2>1. PICK b \in BOOLEAN : todo' = [todo EXCEPT ![k] = ApplyCalls(b)]
    BY <1>4 DEF ApplyLimits
  <2>2. /\ call'[k] = "apply" /\ todo'[k] = ApplyCalls(b)
        /\ \A o \in Caller \ {k} : call'[o] = call[o] /\ todo'[o] = todo[o]
    BY <1>1, <1>4, <2>1 DEF ApplyLimits
  <2>3. ApplyCallsProbe'
    BY <2>2, ApplyCallsRange DEF RInv, ApplyCallsProbe
  <2>4. "gpu" \in Resource => Coming'
    BY <2>2, ApplyCallsRange DEF Coming
  <2> QED
    BY <1>2, <2>2, <2>3, <2>4 DEF RInv, ReclaimCovers
<1> QED
  BY <1>3, <1>4

LEMMA SetLimitRInv ==
  ASSUME NEW k \in Caller, RInv, QInv', SetLimit(k)
  PROVE  RInv'
<1> DEFINE c == Head(todo[k])
<1>1. /\ todo[k] \in Seq(Resource \X Nat) /\ todo[k] # <<>>
      /\ call[k] \in {"apply", "yield"}
      /\ limit \in [Resource -> Nat]
      /\ call \in [Caller -> {"idle", "probe", "apply", "yield"}]
      /\ todo \in [Caller -> Seq(Resource \X Nat)]
  BY DEF SetLimit, RInv, QInv, TypeOK, ManagerTypeOK
<1>2. c \in Resource \X Nat
  BY <1>1
<1>3. Range(todo[k]) = {c} \cup Range(Tail(todo[k]))
  BY <1>1, RangeHeadTail
<1>4. /\ limit' = [limit EXCEPT ![c[1]] = c[2]]
      /\ yielded' = yielded /\ mixed' = mixed
  BY DEF SetLimit
<1>5. /\ todo'[k] = Tail(todo[k])
      /\ \A o \in Caller \ {k} : todo'[o] = todo[o] /\ call'[o] = call[o]
      /\ call'[k] \in {"idle", call[k]}
  BY <1>1 DEF SetLimit
<1> HIDE DEF c
<1>6. \A o \in Caller : Range(todo'[o]) \subseteq Range(todo[o])
  BY <1>3, <1>5
<1>7. ApplyCallsProbe'
  BY <1>5, <1>6 DEF RInv, ApplyCallsProbe
<1>8. ReclaimCovers'
  <2> SUFFICES ASSUME ~ yielded, ~ mixed
               PROVE  /\ \A o \in Caller : call'[o] # "yield"
                      /\ "gpu" \in Resource =>
                            limit'["gpu"] = Probed["gpu"] \/ Coming'
    BY <1>4 DEF ReclaimCovers
  <2>1. /\ \A o \in Caller : call[o] # "yield"
        /\ "gpu" \in Resource => limit["gpu"] = Probed["gpu"] \/ Coming
    BY DEF RInv, ReclaimCovers
  <2>2. c[1] = "gpu" => c[2] = Probed["gpu"]
    BY <1>1, <1>3, <2>1 DEF RInv, ApplyCallsProbe
  <2>3. ASSUME "gpu" \in Resource
        PROVE  limit'["gpu"] = Probed["gpu"] \/ Coming'
    <3>1. CASE c[1] = "gpu"
      BY <1>1, <1>2, <1>4, <2>2, <3>1
    <3>2. CASE c[1] # "gpu" /\ limit["gpu"] = Probed["gpu"]
      BY <1>1, <1>2, <1>4, <2>3, <3>2
    <3>3. CASE c[1] # "gpu" /\ Coming
      <4>1. PICK o \in Caller : \/ call[o] = "probe"
                                \/ \E p \in Range(todo[o]) : p[1] = "gpu"
        BY <3>3 DEF Coming
      <4>2. \/ call'[o] = "probe"
            \/ \E p \in Range(todo'[o]) : p[1] = "gpu"
        BY <1>1, <1>3, <1>5, <3>3, <4>1
      <4> QED
        BY <4>2 DEF Coming
    <3> QED
      BY <2>1, <2>3, <3>1, <3>2, <3>3
  <2> QED
    BY <1>5, <2>1, <2>3
<1> QED
  BY <1>7, <1>8 DEF RInv

LEMMA NextRInv == RInv /\ [Next]_vars => RInv'
<1> SUFFICES ASSUME RInv, [Next]_vars PROVE RInv'
  OBVIOUS
<1>0. QInv'
  BY NextQInv DEF RInv
<1>1. ASSUME UNCHANGED managerVars PROVE RInv'
  BY <1>0, <1>1, ReclaimKept DEF managerVars
<1>2. CASE \/ \E j \in Job : Enqueue(j) \/ Cancel(j) \/ Cleanup(j)
           \/ \E w \in Worker : Work(w) \/ CancelWorker(w)
           \/ OpenAgain \/ UNCHANGED vars
  BY <1>1, <1>2 DEF Enqueue, Cancel, Cleanup, Work, Dequeue, Execute, Report,
     CancelWorker, OpenAgain, vars
<1>3. CASE Restart
  <2>1. mixed' /\ \A k \in Caller : call'[k] = "idle"
    BY <1>3 DEF Restart
  <2> QED
    BY <1>0, <2>1 DEF RInv, ApplyCallsProbe, ReclaimCovers
<1>4. CASE GameStarts \/ ForceYield \/ GameOver \/ ForceReclaim
  BY <1>0, <1>4, TurnRInv DEF GameStarts, ForceYield, GameOver, ForceReclaim,
     Caller
<1>5. CASE GameEnds \/ GameBack
  BY <1>0, <1>5, ReclaimKept DEF GameEnds, GameBack, Cooling
<1>6. CASE Refresh
  <2>1. call \in [Caller -> {"idle", "probe", "apply", "yield"}]
    BY DEF RInv, QInv, TypeOK, ManagerTypeOK
  <2>2. \A o \in Caller : call'[o] \in {"probe", call[o]}
    BY <1>6, <2>1 DEF Refresh
  <2>3. UNCHANGED <<limit, yielded, todo, mixed>>
    BY <1>6 DEF Refresh
  <2> QED
    BY <1>0, <2>2, <2>3 DEF RInv, ApplyCallsProbe, ReclaimCovers, Coming
<1>7. ASSUME NEW k \in Caller, Manage(k) PROVE RInv'
  BY <1>0, <1>7, ApplyRInv, SetLimitRInv DEF Manage
<1> QED
  BY <1>2, <1>3, <1>4, <1>5, <1>6, <1>7 DEF Next

\* A reclaim that met no yield under way gives the GPU back, for every set
\* of resources: when the calls are over its limit is the probed one,
\* whatever refreshes and reclaims overlapped.
THEOREM ReclaimHolds == Spec => []ReclaimRestores
<1>1. RInv => ReclaimRestores
  <2> SUFFICES ASSUME RInv, "gpu" \in Resource, ~ yielded, ~ mixed,
                      \A k \in Caller : call[k] = "idle"
               PROVE  limit["gpu"] = Probed["gpu"]
    BY DEF ReclaimRestores
  <2>1. \A k \in Caller : todo[k] = <<>>
    BY DEF RInv, QInv, TypeOK, ManagerTypeOK
  <2>2. Range(<<>>) = {}
    BY DEF Range
  <2>3. ~ Coming
    BY <2>1, <2>2 DEF Coming
  <2> QED
    BY <2>3 DEF RInv, ReclaimCovers
<1> QED
  BY <1>1, InitRInv, NextRInv, PTL DEF Spec

----------------------------------------------------------------------------
(* At most once *)

\* A row leaves "pending" once, and a worker is handed a job only by the
\* step that takes its row from there.
AtMostOnce ==
    [][\A j \in Job :
          /\ job[j] \notin {"absent", "pending"}
                => job'[j] \notin {"absent", "pending"}
          /\ \A w \in Worker : hand'[w] = j /\ hand[w] # j
                => job[j] = "pending" /\ job'[j] = "running"]_vars

\* A job is given to a worker at most once in its life, whatever restarts,
\* cancelled workers, reopened queues and late reports do: a heavy job that
\* died with its worker is failed, never executed a second time.
THEOREM JobsRunAtMostOnce == Spec => AtMostOnce
<1>1. QInv /\ [Next]_vars
      => [\A j \in Job :
             /\ job[j] \notin {"absent", "pending"}
                   => job'[j] \notin {"absent", "pending"}
             /\ \A w \in Worker : hand'[w] = j /\ hand[w] # j
                   => job[j] = "pending" /\ job'[j] = "running"]_vars
  <2> SUFFICES ASSUME QInv, Next, NEW j \in Job
               PROVE  /\ job[j] \notin {"absent", "pending"}
                            => job'[j] \notin {"absent", "pending"}
                      /\ \A w \in Worker : hand'[w] = j /\ hand[w] # j
                            => job[j] = "pending" /\ job'[j] = "running"
    OBVIOUS
  <2> DEFINE Goal == /\ job[j] \notin {"absent", "pending"}
                            => job'[j] \notin {"absent", "pending"}
                     /\ \A w \in Worker : hand'[w] = j /\ hand[w] # j
                            => job[j] = "pending" /\ job'[j] = "running"
  <2>0. /\ job \in [Job -> {"absent", "pending", "running", "gone"} \cup Ended]
        /\ hand \in [Worker -> Job \cup {NoJob}] /\ j # NoJob
    BY JobQueueAssumption DEF QInv, TypeOK, QueueTypeOK
  <2>1. ASSUME NEW i \in Job, Enqueue(i) \/ Cancel(i) \/ Cleanup(i) PROVE Goal
    BY <2>0, <2>1 DEF Enqueue, Cancel, Cleanup, Row, workerVars, Ended
  <2>2. ASSUME NEW v \in Worker, Dequeue(v) PROVE Goal
    <3>1. PICK i \in Eligible(v) : /\ Row(i, "running")
                                   /\ hand' = [hand EXCEPT ![v] = i]
      BY <2>2 DEF Dequeue
    <3>2. i \in Job /\ job[i] = "pending"
      BY <3>1 DEF Eligible
    <3> QED
      BY <2>0, <3>1, <3>2 DEF Row
  <2>3. ASSUME NEW v \in Worker, Execute(v) \/ CancelWorker(v) PROVE Goal
    BY <2>0, <2>3 DEF Execute, CancelWorker, queueVars
  <2>4. ASSUME NEW v \in Worker, NEW s \in {"completed", "failed"}, Report(v, s)
        PROVE  Goal
    BY <2>0, <2>4 DEF Report
  <2>5. CASE OpenAgain \/ Restart
    BY <2>0, <2>5 DEF OpenAgain, Restart, FailStale, Stale, workerVars
  <2>6. CASE \/ \E k \in Caller : Manage(k)
             \/ GameStarts \/ GameEnds \/ GameBack \/ GameOver
             \/ ForceYield \/ ForceReclaim \/ Refresh
    BY <2>6 DEF GameStarts, GameEnds, GameBack, GameOver, ForceYield,
       ForceReclaim, Refresh, Cooling, Yield, Reclaim, Manage, ApplyLimits,
       SetLimit, queueVars, workerVars
  <2> QED
    BY <2>1, <2>2, <2>3, <2>4, <2>5, <2>6 DEF Next, Work
<1> QED
  BY <1>1, InitQInv, NextQInv, PTL DEF Spec, AtMostOnce

----------------------------------------------------------------------------
(* Slots that are lost *)

\* Rows that count against a limit though no worker has their job, and the
\* workers that were cancelled.
Lost == {j \in Job : job[j] = "running" /\ \A w \in Worker : hand[w] # j}
Dead == {w \in Worker : wpc[w] = "dead"}

\* A cancelled worker costs its resource one slot, and nothing else does.
OneSlotEach == IsFiniteSet(Dead) /\ Cardinality(Lost) <= Cardinality(Dead)

LEMMA FewerLost ==
  ASSUME OneSlotEach, Lost' \subseteq Lost, Dead' = Dead
  PROVE  OneSlotEach'
<1>1. IsFiniteSet(Lost) /\ Lost' \in SUBSET Lost
  BY JobQueueAssumption, FS_Subset DEF Lost
<1>2. Cardinality(Lost') <= Cardinality(Lost)
  BY <1>1, FS_Subset
<1>3. /\ Cardinality(Lost) \in Nat /\ Cardinality(Lost') \in Nat
      /\ Cardinality(Dead) \in Nat
  BY <1>1, FS_Subset, FS_CardinalityType DEF OneSlotEach
<1> HIDE DEF Lost, Dead
<1> QED
  BY <1>2, <1>3 DEF OneSlotEach

\* At most one slot is lost for each worker that was cancelled since the
\* process started: no report, second opening of the queue, cancellation of
\* a job or cleanup leaves a row running that nobody executes.
THEOREM SlotsLostOnlyByCancellation == Spec => []OneSlotEach
<1>1. Init => OneSlotEach
  <2> SUFFICES ASSUME Init PROVE OneSlotEach
    OBVIOUS
  <2>1. Lost = {} /\ Dead = {}
    BY DEF Init, Lost, Dead
  <2> QED
    BY <2>1, FS_EmptySet DEF OneSlotEach
<1>2. QInv /\ OneSlotEach /\ [Next]_vars => OneSlotEach'
  <2> SUFFICES ASSUME QInv, OneSlotEach, [Next]_vars PROVE OneSlotEach'
    OBVIOUS
  <2>0. /\ job \in [Job -> {"absent", "pending", "running", "gone"} \cup Ended]
        /\ wpc \in [Worker -> {"idle", "asked", "busy", "dead"}]
        /\ hand \in [Worker -> Job \cup {NoJob}]
        /\ \A w \in Worker : hand[w] # NoJob <=> wpc[w] \in {"asked", "busy"}
        /\ NoJob \notin Job
    BY JobQueueAssumption DEF QInv, TypeOK, QueueTypeOK
  <2>1. ASSUME NEW i \in Job, Enqueue(i) \/ Cancel(i) \/ Cleanup(i)
        PROVE  OneSlotEach'
    <3>1. Lost' \subseteq Lost /\ Dead' = Dead
      BY <2>0, <2>1 DEF Enqueue, Cancel, Cleanup, Row, Ended, Lost, Dead,
                        workerVars
    <3> QED
      BY <3>1, FewerLost
  <2>2. ASSUME NEW w \in Worker, Dequeue(w) PROVE OneSlotEach'
    <3>1. PICK i \in Eligible(w) : /\ Row(i, "running")
                                   /\ hand' = [hand EXCEPT ![w] = i]
      BY <2>2 DEF Dequeue
    <3>2. /\ i \in Job /\ hand[w] = NoJob
          /\ wpc[w] = "idle" /\ wpc' = [wpc EXCEPT ![w] = "asked"]
      BY <2>0, <2>2, <3>1 DEF Eligible, Dequeue
    <3>3. Lost' \subseteq Lost
      BY <2>0, <3>1, <3>2 DEF Lost, Row
    <3>4. Dead' = Dead
      BY <2>0, <3>2 DEF Dead
    <3> QED
      BY <3>3, <3>4, FewerLost
  <2>3. ASSUME NEW w \in Worker, Execute(w) PROVE OneSlotEach'
    <3>1. Lost' \subseteq Lost /\ Dead' = Dead
      BY <2>0, <2>3 DEF Execute, Lost, Dead, queueVars
    <3> QED
      BY <3>1, FewerLost
  <2>4. ASSUME NEW w \in Worker, NEW s \in {"completed", "failed"}, Report(w, s)
        PROVE  OneSlotEach'
    <3>1. /\ wpc[w] = "busy" /\ hand[w] \in Job
          /\ job' = [job EXCEPT ![hand[w]] = IF @ = "running" THEN s ELSE @]
          /\ wpc' = [wpc EXCEPT ![w] = "idle"]
          /\ hand' = [hand EXCEPT ![w] = NoJob]
      BY <2>0, <2>4 DEF Report
    <3>2. ASSUME NEW j \in Lost' PROVE j \in Lost
      <4>1. j \in Job /\ job'[j] = "running"
        BY DEF Lost
      <4>2. j # hand[w] /\ job[j] = "running"
        BY <2>0, <3>1, <4>1
      <4>3. \A v \in Worker : hand[v] # j
        BY <2>0, <3>1, <4>2 DEF Lost
      <4> QED
        BY <4>1, <4>2, <4>3 DEF Lost
    <3>3. Dead' = Dead
      BY <2>0, <3>1 DEF Dead
    <3> QED
      BY <3>2, <3>3, FewerLost
  <2>5. ASSUME NEW w \in Worker, CancelWorker(w) PROVE OneSlotEach'
    <3>1. /\ wpc[w] # "dead" /\ wpc' = [wpc EXCEPT ![w] = "dead"]
          /\ hand' = [hand EXCEPT ![w] = NoJob] /\ UNCHANGED job
      BY <2>5 DEF CancelWorker, queueVars
    <3>2. Lost' \subseteq Lost \cup {hand[w]}
      BY <2>0, <3>1 DEF Lost
    <3>3. Dead' = Dead \cup {w} /\ w \notin Dead
      BY <2>0, <3>1 DEF Dead
    <3>4. IsFiniteSet(Lost)
      BY JobQueueAssumption, FS_Subset DEF Lost
    <3>5. IsFiniteSet(Dead)
      BY DEF OneSlotEach
    <3> HIDE DEF Lost, Dead
    <3>6. IsFiniteSet(Dead') /\ Cardinality(Dead') = Cardinality(Dead) + 1
      BY <3>3, <3>5, FS_AddElement
    <3>7. /\ IsFiniteSet(Lost \cup {hand[w]})
          /\ Cardinality(Lost \cup {hand[w]}) <= Cardinality(Lost) + 1
      BY <3>4, FS_AddElement, FS_CardinalityType
    <3>8. /\ Cardinality(Lost') <= Cardinality(Lost \cup {hand[w]})
          /\ IsFiniteSet(Lost')
      BY <3>2, <3>7, FS_Subset
    <3>9. /\ Cardinality(Lost') \in Nat /\ Cardinality(Lost) \in Nat
          /\ Cardinality(Lost \cup {hand[w]}) \in Nat
          /\ Cardinality(Dead) \in Nat
      BY <3>4, <3>5, <3>7, <3>8, FS_CardinalityType
    <3> QED
      BY <3>6, <3>7, <3>8, <3>9 DEF OneSlotEach
  <2>6. CASE OpenAgain
    <3>1. Lost' \subseteq Lost /\ Dead' = Dead
      BY <2>0, <2>6 DEF OpenAgain, FailStale, Stale, workerVars, Lost, Dead
    <3> QED
      BY <3>1, FewerLost
  <2>7. CASE Restart
    <3>1. Lost' = {} /\ Dead' = {}
      BY <2>0, <2>7 DEF Restart, FailStale, Stale, Lost, Dead
    <3> QED
      BY <3>1, FS_EmptySet DEF OneSlotEach
  <2>8. CASE \/ \E k \in Caller : Manage(k)
             \/ GameStarts \/ GameEnds \/ GameBack \/ GameOver
             \/ ForceYield \/ ForceReclaim \/ Refresh \/ UNCHANGED vars
    <3>1. UNCHANGED <<queueVars, workerVars>>
      BY <2>8 DEF GameStarts, GameEnds, GameBack, GameOver, ForceYield,
         ForceReclaim, Refresh, Cooling, Yield, Reclaim, Manage, ApplyLimits,
         SetLimit, vars
    <3>2. Lost' \subseteq Lost /\ Dead' = Dead
      BY <3>1 DEF Lost, Dead, queueVars, workerVars
    <3> QED
      BY <3>2, FewerLost
  <2> QED
    BY <2>1, <2>2, <2>3, <2>4, <2>5, <2>6, <2>7, <2>8 DEF Next, Work
<1> QED
  BY <1>1, <1>2, InitQInv, NextQInv, PTL DEF Spec
=============================================================================
