------------------------ MODULE ClusterManagerProofs ------------------------
(***************************************************************************)
(* What ClusterManager guarantees for any number of workers, resources and *)
(* leases.  The type invariant carries the link between the monitor's      *)
(* place in its loop and the worker it is recording; with it, each safety  *)
(* invariant but one is inductive.  RegistryDurable needs to know that a   *)
(* persistence task for a registered object belongs to a registered        *)
(* worker (PersistLive).                                                   *)
(***************************************************************************)
EXTENDS ClusterManager, TLAPS

----------------------------------------------------------------------------
(* Type correctness *)

\* The manager starts with an empty registry of the right type.
LEMMA TypeInit == Init => TypeOK
<1> SUFFICES ASSUME Init PROVE TypeOK
  OBVIOUS
<1> USE DEF Init
<1>1. /\ status \in [Worker -> Status \cup {Absent}]
      /\ frozen \in [Worker -> [status : Status \cup {Absent}, late : BOOLEAN]]
  BY DEF NotReplaced
<1>2. /\ upd \in [Worker -> BOOLEAN]
      /\ task \in [Lease -> {"none", "running", "cancelled"}]
      /\ op \in [Worker -> {"none", "upsert", "delete"}]
      /\ fenced \in BOOLEAN /\ newer \in BOOLEAN
  OBVIOUS
<1> QED BY <1>1, <1>2 DEF TypeOK

\* Every handler and every step of the monitor keeps the types, and enters
\* "notify" exactly when it has a worker to record.
LEMMA TypeStep == TypeOK /\ [Next]_vars => TypeOK'
<1> SUFFICES ASSUME TypeOK, [Next]_vars PROVE TypeOK'
  OBVIOUS
<1> USE ClusterAssumption, NoWorkerAssumption
<1> USE DEF workerVars, leaseVars, monitorVars, fenceVars, storeVars, TypeOK,
            Status, Routable, Reported, Absent
<1>1. CASE MonitorWakes
  BY <1>1 DEF MonitorWakes, NotReplaced
<1>2. CASE SweepNotified
  BY <1>2 DEF SweepNotified, DropAndWait, DropLeases, LeasesOf
<1>3. CASE TasksEnded
  BY <1>3 DEF TasksEnded
<1>4. CASE Recorded
  BY <1>4 DEF Recorded
<1>5. CASE MonitorSleeps
  BY <1>5 DEF MonitorSleeps, Active
<1>6. ASSUME NEW w \in Worker, VisitLate(w) PROVE TypeOK'
  BY <1>6 DEF VisitLate, Visiting, MarkOffline, Seen
<1>7. ASSUME NEW w \in Worker, VisitDrained(w) PROVE TypeOK'
  BY <1>7 DEF VisitDrained, Visiting, MarkOffline, Seen
<1>8. ASSUME NEW w \in Worker, VisitDrainStale(w) PROVE TypeOK'
  BY <1>8 DEF VisitDrainStale, Visiting, MarkOffline, Seen, DropAndWait,
     DropLeases, LeasesOf
<1>9. ASSUME NEW w \in Worker, VisitSkip(w) PROVE TypeOK'
  BY <1>9 DEF VisitSkip, Visiting
<1>10. ASSUME NEW w \in Worker, VisitFenced(w) PROVE TypeOK'
  BY <1>10 DEF VisitFenced, Visiting, MarkOffline, DropAndWait, DropLeases, LeasesOf
<1>11. ASSUME NEW w \in Worker, RegisterWorker(w) PROVE TypeOK'
  BY <1>11 DEF RegisterWorker, ReplaceObject, Issue
<1>12. ASSUME NEW w \in Worker, UnregisterWorker(w) PROVE TypeOK'
  BY <1>12 DEF UnregisterWorker, ReplaceObject, Issue, LeasesOf
<1>13. ASSUME NEW w \in Worker, NEW s \in Reported \cup {"none"},
              Heartbeat(w, s)
       PROVE  TypeOK'
  BY <1>13 DEF Heartbeat
<1>14. ASSUME NEW w \in Worker, DrainWorker(w) PROVE TypeOK'
  BY <1>14 DEF DrainWorker
<1>15. ASSUME NEW w \in Worker, ForceDrainWorker(w) PROVE TypeOK'
  BY <1>15 DEF ForceDrainWorker, DropLeases, LeasesOf
<1>16. ASSUME NEW w \in Worker, CancelDrain(w) PROVE TypeOK'
  BY <1>16 DEF CancelDrain
<1>17. ASSUME NEW w \in Worker, Revoke(w) PROVE TypeOK'
  BY <1>17 DEF Revoke
<1>18. ASSUME NEW w \in Worker, BeginUpdate(w) PROVE TypeOK'
  BY <1>18 DEF BeginUpdate
<1>19. ASSUME NEW w \in Worker, DeployAccepted(w) PROVE TypeOK'
  BY <1>19 DEF DeployAccepted
<1>20. ASSUME NEW w \in Worker, DeployFails(w) PROVE TypeOK'
  BY <1>20 DEF DeployFails
<1>21. ASSUME NEW l \in Lease, ClaimLease(l) PROVE TypeOK'
  BY <1>21 DEF ClaimLease
<1>22. ASSUME NEW l \in Lease, ReleaseLease(l) PROVE TypeOK'
  BY <1>22 DEF ReleaseLease
<1>23. ASSUME NEW l \in Lease, RenewLost(l) PROVE TypeOK'
  BY <1>23 DEF RenewLost, DropLeases
<1>24. ASSUME NEW l \in Lease, TaskEnds(l) PROVE TypeOK'
  BY <1>24 DEF TaskEnds
<1>25. ASSUME NEW p \in persist, PersistRuns(p) PROVE TypeOK'
  BY <1>25 DEF PersistRuns
<1>26. ASSUME NEW w \in Worker, Silence(w) PROVE TypeOK'
  BY <1>26 DEF Silence
<1>27. ASSUME NEW w \in Worker, Commit(w) PROVE TypeOK'
  BY <1>27 DEF Commit
<1>28. ASSUME NEW l \in Lease, Expire(l) PROVE TypeOK'
  BY <1>28 DEF Expire, Active
<1>29. CASE Restart
  BY <1>29 DEF Restart, NotReplaced
<1>30. CASE OtherStarts
  BY <1>30 DEF OtherStarts
<1>31. CASE UNCHANGED vars
  BY <1>31 DEF vars, workerVars, leaseVars, monitorVars, fenceVars, storeVars
<1> QED
  BY <1>1, <1>2, <1>3, <1>4, <1>5, <1>6, <1>7, <1>8, <1>9, <1>10, <1>11,
     <1>12, <1>13, <1>14, <1>15, <1>16, <1>17, <1>18, <1>19, <1>20, <1>21,
     <1>22, <1>23, <1>24, <1>25, <1>26, <1>27, <1>28, <1>29, <1>30, <1>31
  DEF Next, MonitorStep, LoopStep, OutsideStep, Visit, WorkerStep, LeaseStep

\* The registry, the leases and the monitor's state keep their types.
THEOREM ClusterTypeCorrect == Spec => []TypeOK
<1> QED BY TypeInit, TypeStep, PTL DEF Spec

----------------------------------------------------------------------------
(* What a step may do to the lease table *)

\* Only a claim puts a lease into the table or makes one active.
LEMMA OnlyClaimsGrant ==
    TypeOK /\ [Next]_vars => \/ leases' \subseteq leases /\ Active' \subseteq Active
                             \/ \E l \in Lease : ClaimLease(l)
<1> SUFFICES ASSUME TypeOK, [Next]_vars
             PROVE  \/ leases' \subseteq leases /\ Active' \subseteq Active
                    \/ \E l \in Lease : ClaimLease(l)
  OBVIOUS
<1> USE DEF TypeOK, Active, workerVars, leaseVars, monitorVars, fenceVars,
            storeVars
<1>1. CASE MonitorStep
  <2>1. CASE MonitorWakes \/ SweepNotified \/ TasksEnded \/ Recorded
             \/ MonitorSleeps
    BY <2>1 DEF MonitorWakes, SweepNotified, TasksEnded, Recorded,
                MonitorSleeps, DropAndWait, DropLeases
  <2>2. ASSUME NEW w \in Worker, Visit(w)
        PROVE  leases' \subseteq leases /\ Active' \subseteq Active
    BY <2>2 DEF Visit, VisitLate, VisitDrained, VisitDrainStale, VisitSkip,
                VisitFenced, DropAndWait, DropLeases
  <2> QED BY <1>1, <2>1, <2>2 DEF MonitorStep
<1>2. CASE LoopStep
  <2>1. ASSUME NEW w \in Worker, WorkerStep(w)
        PROVE  leases' \subseteq leases /\ Active' \subseteq Active
    BY <2>1 DEF WorkerStep, RegisterWorker, UnregisterWorker, Heartbeat,
                DrainWorker, ForceDrainWorker, CancelDrain, Revoke,
                BeginUpdate, DeployAccepted, DeployFails, DropLeases
  <2>2. ASSUME NEW l \in Lease, LeaseStep(l), ~ ClaimLease(l)
        PROVE  leases' \subseteq leases /\ Active' \subseteq Active
    BY <2>2 DEF LeaseStep, ReleaseLease, RenewLost, TaskEnds, DropLeases
  <2>3. ASSUME NEW p \in persist, PersistRuns(p)
        PROVE  leases' \subseteq leases /\ Active' \subseteq Active
    BY <2>3 DEF PersistRuns
  <2> QED BY <1>2, <2>1, <2>2, <2>3 DEF LoopStep
<1>3. CASE OutsideStep
  BY <1>3 DEF OutsideStep, Silence, Commit, Expire, Restart, OtherStarts
<1>4. CASE UNCHANGED vars
  BY <1>4 DEF vars
<1> QED BY <1>1, <1>2, <1>3, <1>4 DEF Next

\* claim_lease looks for an active lease under the lock: two clients, or one
\* that claims again after its lease expired, never hold a resource at once.
THEOREM LeasesExclusive == Spec => []LeaseExclusive
<1>1. Init => LeaseExclusive
  BY DEF Init, LeaseExclusive, Active
<1>2. TypeOK /\ LeaseExclusive /\ [Next]_vars => LeaseExclusive'
  <2> SUFFICES ASSUME TypeOK, LeaseExclusive, [Next]_vars
               PROVE  LeaseExclusive'
    OBVIOUS
  <2>1. CASE Active' \subseteq Active
    BY <2>1 DEF LeaseExclusive
  <2>2. ASSUME NEW l \in Lease, ClaimLease(l) PROVE LeaseExclusive'
    <3>1. Active' = Active \cup {l}
      BY <2>2 DEF ClaimLease, Active, TypeOK
    <3>2. \A k \in Active : On[k] # On[l]
      BY <2>2 DEF ClaimLease
    <3> QED BY <3>1, <3>2 DEF LeaseExclusive
  <2> QED BY <2>1, <2>2, OnlyClaimsGrant
<1> QED BY <1>1, <1>2, ClusterTypeCorrect, PTL DEF Spec

----------------------------------------------------------------------------
(* Leases and the status of their worker *)

\* No handler but unregister_worker (or a restart, which empties the lease
\* table) removes a worker from the registry, so no lease outlives it.
THEOREM LeasesNeverOrphaned == Spec => []NoOrphanLease
<1> USE DEF workerVars, leaseVars, monitorVars, fenceVars, storeVars
<1>1. Init => NoOrphanLease
  BY DEF Init, NoOrphanLease
<1>2. TypeOK /\ NoOrphanLease /\ [Next]_vars => NoOrphanLease'
  <2> SUFFICES ASSUME TypeOK, NoOrphanLease, [Next]_vars,
                      NEW k \in leases', status'[Host[On[k]]] = Absent
               PROVE  FALSE
    BY DEF NoOrphanLease
  <2> USE ClusterAssumption DEF TypeOK, NoOrphanLease
  <2>1. CASE \E l \in Lease : ClaimLease(l)
    BY <2>1 DEF ClaimLease, Routable, Absent
  <2>2. CASE leases' \subseteq leases
    <3> DEFINE v == Host[On[k]]
    <3>1. v \in Worker /\ status[v] # Absent /\ status'[v] = Absent
      BY <2>2
    <3>2. ~ MonitorStep
      BY <3>1 DEF MonitorStep, MonitorWakes, SweepNotified, TasksEnded,
         Recorded, MonitorSleeps, Visit, VisitLate, VisitDrained,
         VisitDrainStale, VisitSkip, VisitFenced, MarkOffline, Absent
    <3>3. ASSUME NEW w \in Worker, WorkerStep(w) PROVE UnregisterWorker(w)
      BY <3>1, <3>3 DEF WorkerStep, RegisterWorker, Heartbeat, DrainWorker,
         ForceDrainWorker, CancelDrain, Revoke, BeginUpdate, DeployAccepted,
         DeployFails, Absent, Reported
    <3>4. ASSUME NEW w \in Worker, UnregisterWorker(w) PROVE FALSE
      BY <3>1, <3>4 DEF UnregisterWorker, LeasesOf
    <3>5. ASSUME NEW l \in Lease, LeaseStep(l) PROVE FALSE
      BY <3>1, <3>5 DEF LeaseStep, ClaimLease, ReleaseLease, RenewLost,
         TaskEnds
    <3>6. ASSUME NEW p \in persist, PersistRuns(p) PROVE FALSE
      BY <3>1, <3>6 DEF PersistRuns
    <3>7. ~ OutsideStep
      BY <3>1 DEF OutsideStep, Silence, Commit, Expire, Restart, OtherStarts
    <3>8. ~ UNCHANGED vars
      BY <3>1 DEF vars
    <3> QED BY <3>2, <3>3, <3>4, <3>5, <3>6, <3>7, <3>8 DEF Next, LoopStep
  <2> QED BY <2>1, <2>2, OnlyClaimsGrant
<1> QED BY <1>1, <1>2, ClusterTypeCorrect, PTL DEF Spec

\* Whoever takes a worker offline (the monitor for its silence or at the end
\* of a drain, a forced drain, the fence) releases its leases in the same
\* step or, while it records the departure, in its next.
THEOREM OfflineWorkersReleased == Spec => []OfflineReleased
<1> USE DEF workerVars, leaseVars, monitorVars, fenceVars, storeVars
<1>1. Init => OfflineReleased
  BY DEF Init, OfflineReleased, LeasesOf
<1>2. TypeOK /\ OfflineReleased /\ [Next]_vars => OfflineReleased'
  <2> SUFFICES ASSUME TypeOK, OfflineReleased, [Next]_vars, NEW v \in Worker,
                      status'[v] = "offline", LeasesOf(v)' # {}
               PROVE  mw' = v \/ v \in barred'
    BY DEF OfflineReleased
  <2> USE ClusterAssumption, NoWorkerAssumption DEF TypeOK, OfflineReleased
  <2>1. CASE \E l \in Lease : ClaimLease(l)
    BY <2>1 DEF ClaimLease, Routable, LeasesOf
  <2>2. CASE leases' \subseteq leases
    <3>1. LeasesOf(v) # {}
      BY <2>2 DEF LeasesOf
    <3>2. CASE MonitorStep
      <4>1. CASE MonitorWakes \/ TasksEnded \/ Recorded \/ MonitorSleeps
        BY <3>1, <4>1 DEF MonitorWakes, TasksEnded, Recorded, MonitorSleeps
      <4>2. CASE SweepNotified
        BY <3>1, <4>2 DEF SweepNotified, DropAndWait, DropLeases, LeasesOf
      <4>3. ASSUME NEW w \in Worker, VisitLate(w) PROVE mw' = v \/ v \in barred'
        BY <3>1, <4>3 DEF VisitLate, Visiting, MarkOffline
      <4>4. ASSUME NEW w \in Worker, VisitDrained(w)
            PROVE  mw' = v \/ v \in barred'
        BY <3>1, <4>4 DEF VisitDrained, MarkOffline
      <4>5. ASSUME NEW w \in Worker, VisitDrainStale(w) \/ VisitFenced(w)
            PROVE  mw' = v \/ v \in barred'
        BY <3>1, <4>5 DEF VisitDrainStale, VisitFenced, MarkOffline,
           DropAndWait, DropLeases, LeasesOf
      <4>6. ASSUME NEW w \in Worker, VisitSkip(w)
            PROVE  mw' = v \/ v \in barred'
        BY <3>1, <4>6 DEF VisitSkip
      <4> QED BY <3>2, <4>1, <4>2, <4>3, <4>4, <4>5, <4>6
              DEF MonitorStep, Visit
    <3>3. ASSUME NEW w \in Worker, WorkerStep(w)
          PROVE  mw' = v \/ v \in barred'
      <4>1. CASE RegisterWorker(w) \/ UnregisterWorker(w)
        BY <3>1, <4>1 DEF RegisterWorker, UnregisterWorker, ReplaceObject,
           Absent
      <4>2. ASSUME NEW s \in Reported \cup {"none"}, Heartbeat(w, s)
            PROVE  mw' = v \/ v \in barred'
        BY <3>1, <4>2 DEF Heartbeat, Reported
      <4>3. CASE ForceDrainWorker(w)
        BY <3>1, <4>3 DEF ForceDrainWorker, DropLeases, LeasesOf
      <4>4. CASE \/ DrainWorker(w) \/ CancelDrain(w) \/ Revoke(w)
                 \/ BeginUpdate(w) \/ DeployAccepted(w) \/ DeployFails(w)
        BY <3>1, <4>4 DEF DrainWorker, CancelDrain, Revoke, BeginUpdate,
           DeployAccepted, DeployFails
      <4> QED BY <3>3, <4>1, <4>2, <4>3, <4>4 DEF WorkerStep
    <3>4. ASSUME NEW l \in Lease, LeaseStep(l) PROVE mw' = v \/ v \in barred'
      BY <3>1, <3>4 DEF LeaseStep, ClaimLease, ReleaseLease, RenewLost,
         TaskEnds
    <3>5. ASSUME NEW p \in persist, PersistRuns(p)
          PROVE  mw' = v \/ v \in barred'
      BY <3>1, <3>5 DEF PersistRuns
    <3>6. CASE OutsideStep
      BY <3>1, <3>6 DEF OutsideStep, Silence, Commit, Expire, Restart,
         OtherStarts, LeasesOf
    <3>7. CASE UNCHANGED vars
      BY <3>1, <3>7 DEF vars
    <3> QED BY <3>2, <3>3, <3>4, <3>5, <3>6, <3>7 DEF Next, LoopStep
  <2> QED BY <2>1, <2>2, OnlyClaimsGrant
<1> QED BY <1>1, <1>2, ClusterTypeCorrect, PTL DEF Spec

----------------------------------------------------------------------------
(* The persisted registry *)

\* A persistence task that holds the registered object of a worker finds
\* that worker registered: removal and replacement retag the task.
PersistLive == \A w \in Worker : <<w, "registered">> \in persist
                                     => status[w] # Absent

\* With a store, what it holds or is about to hold is exactly the registry:
\* a heartbeat's late persistence task cannot bring a removed worker back,
\* and a crash between a registration and its commit forgets it on both
\* sides.
THEOREM RegistryIsDurable ==
  ASSUME Persistent
  PROVE  Spec => []RegistryDurable
<1> DEFINE IInv == TypeOK /\ PersistLive /\ RegistryDurable
<1> USE DEF workerVars, leaseVars, monitorVars, fenceVars, storeVars
<1>1. Init => IInv
  <2> SUFFICES ASSUME Init PROVE PersistLive /\ RegistryDurable
    BY TypeInit
  <2> QED BY DEF Init, PersistLive, RegistryDurable
<1>2. IInv /\ [Next]_vars => IInv'
  <2> SUFFICES ASSUME IInv, [Next]_vars, TypeOK'
               PROVE  PersistLive' /\ RegistryDurable'
    BY TypeStep
  <2> USE DEF TypeOK, PersistLive, RegistryDurable, Absent
  <2>1. CASE MonitorStep
    <3>1. UNCHANGED storeVars
      BY <2>1 DEF MonitorStep, MonitorWakes, SweepNotified, TasksEnded,
         Recorded, MonitorSleeps, Visit, VisitLate, VisitDrained,
         VisitDrainStale, VisitSkip, VisitFenced
    <3>2. \A v \in Worker : status'[v] = Absent <=> status[v] = Absent
      <4>1. CASE \/ MonitorWakes \/ SweepNotified \/ TasksEnded \/ Recorded
                 \/ MonitorSleeps \/ \E w \in Worker : VisitSkip(w)
        BY <4>1 DEF MonitorWakes, SweepNotified, TasksEnded, Recorded,
           MonitorSleeps, VisitSkip
      <4>2. ASSUME NEW w \in Worker, VisitLate(w) \/ VisitDrained(w) \/
                   VisitDrainStale(w) \/ VisitFenced(w)
            PROVE  \A v \in Worker : status'[v] = Absent <=> status[v] = Absent
        BY <4>2 DEF VisitLate, VisitDrained, VisitDrainStale, VisitFenced,
           MarkOffline, Seen, Routable
      <4> QED BY <2>1, <4>1, <4>2 DEF MonitorStep, Visit
    <3> QED BY <3>1, <3>2
  <2>2. ASSUME NEW w \in Worker, RegisterWorker(w)
        PROVE  PersistLive' /\ RegistryDurable'
    BY <2>2 DEF RegisterWorker, ReplaceObject, Issue
  <2>3. ASSUME NEW w \in Worker, UnregisterWorker(w)
        PROVE  PersistLive' /\ RegistryDurable'
    BY <2>3 DEF UnregisterWorker, ReplaceObject, Issue
  <2>4. ASSUME NEW w \in Worker, NEW s \in Reported \cup {"none"},
               Heartbeat(w, s)
        PROVE  PersistLive' /\ RegistryDurable'
    BY <2>4 DEF Heartbeat, Reported
  <2>5. ASSUME NEW w \in Worker,
               \/ DrainWorker(w) \/ ForceDrainWorker(w) \/ CancelDrain(w)
               \/ Revoke(w) \/ BeginUpdate(w) \/ DeployAccepted(w)
               \/ DeployFails(w)
        PROVE  PersistLive' /\ RegistryDurable'
    BY <2>5 DEF DrainWorker, ForceDrainWorker, CancelDrain, Revoke,
       BeginUpdate, DeployAccepted, DeployFails
  <2>6. ASSUME NEW l \in Lease, LeaseStep(l)
        PROVE  PersistLive' /\ RegistryDurable'
    BY <2>6 DEF LeaseStep, ClaimLease, ReleaseLease, RenewLost, TaskEnds
  <2>7. ASSUME NEW p \in persist, PersistRuns(p)
        PROVE  PersistLive' /\ RegistryDurable'
    BY <2>7 DEF PersistRuns
  <2>8. ASSUME NEW w \in Worker, Commit(w)
        PROVE  PersistLive' /\ RegistryDurable'
    BY <2>8 DEF Commit
  <2>9. CASE Restart
    BY <2>9 DEF Restart
  <2>10. CASE \/ OtherStarts \/ UNCHANGED vars
              \/ \E w \in Worker : Silence(w)
              \/ \E l \in Lease : Expire(l)
    BY <2>10 DEF OtherStarts, Silence, Expire, vars
  <2> QED BY <2>1, <2>2, <2>3, <2>4, <2>5, <2>6, <2>7, <2>8, <2>9, <2>10
          DEF Next, LoopStep, OutsideStep, WorkerStep
<1> QED BY <1>1, <1>2, PTL DEF Spec
----------------------------------------------------------------------------
(* The lease table its clients see *)

\* The holder of a resource is its one active lease.
LEMMA HolderIs ==
  ASSUME LeaseExclusive, NEW l \in Active, On[l] \in Resource
  PROVE  Holder[On[l]] = l
<1> DEFINE h == CHOOSE k \in Active : On[k] = On[l]
<1>1. h \in Active /\ On[h] = On[l]
  OBVIOUS
<1>2. h = l
  BY <1>1 DEF LeaseExclusive
<1> HIDE DEF h
<1> QED BY <1>2 DEF Holder, h

\* A step that makes no lease active only frees resources.
LEMMA LosingRefines ==
  ASSUME TypeOK, LeaseExclusive, LeaseExclusive', Active' \subseteq Active
  PROVE  Leases!Next
<1> USE ClusterAssumption
<1> DEFINE R == {r \in Resource : ~ \E l \in Active' : On[l] = r}
<1>1. Active \subseteq Lease
  BY DEF TypeOK, Active
<1>2. ASSUME NEW r \in Resource, r \in R PROVE Holder'[r] = NoLease
  BY <1>2 DEF Holder
<1>3. ASSUME NEW r \in Resource, r \notin R PROVE Holder'[r] = Holder[r]
  <2>1. PICK l \in Active' : On[l] = r
    BY <1>3
  <2>2. Holder[r] = l
    BY <2>1, HolderIs
  <2>3. l \in {k \in Active' : On[k] = r} /\ \A k \in Active' : On[k] = r => k = l
    BY <2>1 DEF LeaseExclusive
  <2>4. (CHOOSE k \in Active' : On[k] = r) = l
    BY <2>3
  <2> QED BY <2>1, <2>2, <2>4 DEF Holder
<1>4. Holder' = [r \in Resource |-> IF r \in R THEN NoLease ELSE Holder[r]]
  <2>1. /\ Holder' = [r \in Resource |-> Holder'[r]]
    BY DEF Holder
  <2> QED BY <1>2, <1>3, <2>1
<1>5. R \in SUBSET Resource
  OBVIOUS
<1> HIDE DEF R
<1> QED BY <1>4, <1>5 DEF Leases!Next, Leases!Lose

\* A claim grants a resource that is free.
LEMMA ClaimRefines ==
  ASSUME TypeOK, LeaseExclusive, LeaseExclusive', NEW l \in Lease,
         ClaimLease(l)
  PROVE  Leases!Next
<1> USE ClusterAssumption
<1>1. Active' = Active \cup {l} /\ Active \subseteq Lease
  BY DEF ClaimLease, Active, TypeOK
<1>2. \A k \in Active : On[k] # On[l]
  BY DEF ClaimLease
<1>3. Holder[On[l]] = NoLease
  BY <1>2 DEF Holder
<1>4. (CHOOSE k \in Active' : On[k] = On[l]) = l
  BY <1>1, <1>2
<1>5. Holder'[On[l]] = l
  BY <1>1, <1>4 DEF Holder
<1>6. ASSUME NEW r \in Resource, r # On[l] PROVE Holder'[r] = Holder[r]
  <2>1. CASE \E k \in Active : On[k] = r
    <3>1. PICK k \in Active : On[k] = r
      BY <2>1
    <3>2. /\ k \in Active' /\ \A j \in Active' : On[j] = r => j = k
      BY <1>1, <1>6, <3>1 DEF LeaseExclusive
    <3>3. (CHOOSE j \in Active' : On[j] = r) = k
      BY <3>1, <3>2
    <3>4. Holder[r] = k
      BY <3>1, HolderIs
    <3> QED BY <3>1, <3>2, <3>3, <3>4 DEF Holder
  <2>2. CASE ~ \E k \in Active : On[k] = r
    <3>1. ~ \E k \in Active' : On[k] = r
      BY <1>1, <1>6, <2>2
    <3> QED BY <2>2, <3>1 DEF Holder
  <2> QED BY <2>1, <2>2
<1>7. Holder' = [Holder EXCEPT ![On[l]] = l]
  <2>1. /\ Holder' = [r \in Resource |-> Holder'[r]]
        /\ Holder = [r \in Resource |-> Holder[r]]
    BY DEF Holder
  <2> QED BY <1>5, <1>6, <2>1
<1> QED BY <1>3, <1>7 DEF Leases!Next, Leases!Grant

\* Claims, expiry, releases, drains, sweeps, the fence and restarts together
\* implement the lease table: a resource is granted only while it is free
\* and never passes from one holder to the next in one step.
THEOREM LeaseTableRefinement == Spec => LeaseTableSpec
<1>1. Init => Leases!Init
  BY DEF Init, Leases!Init, Holder, Active
<1>2. /\ TypeOK /\ LeaseExclusive /\ LeaseExclusive' /\ [Next]_vars
      => [Leases!Next]_Holder
  BY OnlyClaimsGrant, LosingRefines, ClaimRefines
<1> QED
  BY <1>1, <1>2, ClusterTypeCorrect, LeasesExclusive, PTL
  DEF Spec, LeaseTableSpec, Leases!Spec

\* A resource that has a holder keeps it or becomes free.
NoHandOver ==
    [][\A r \in Resource : Holder[r] # NoLease
                               => Holder'[r] \in {Holder[r], NoLease}]_Holder

\* A client that holds a GPU lease is never surprised by a successor: the
\* lease table alone promises it, and the manager implements that table.
THEOREM LeasesNeverHandedOver == Spec => NoHandOver
<1>1. [Leases!Next]_Holder
      => [\A r \in Resource : Holder[r] # NoLease
                                  => Holder'[r] \in {Holder[r], NoLease}]_Holder
  <2> SUFFICES ASSUME Leases!Next, NEW r \in Resource, Holder[r] # NoLease
               PROVE  Holder'[r] \in {Holder[r], NoLease}
    OBVIOUS
  <2>1. DOMAIN Holder = Resource
    BY DEF Holder
  <2>2. ASSUME NEW l \in Lease, Leases!Grant(l)
        PROVE  Holder'[r] = Holder[r]
    BY <2>1, <2>2 DEF Leases!Grant
  <2>3. ASSUME NEW R \in SUBSET Resource, Leases!Lose(R)
        PROVE  Holder'[r] \in {Holder[r], NoLease}
    BY <2>3 DEF Leases!Lose
  <2> QED BY <2>2, <2>3 DEF Leases!Next
<1> QED
  BY <1>1, LeaseTableRefinement, PTL DEF LeaseTableSpec, Leases!Spec, NoHandOver

----------------------------------------------------------------------------
(* What the monitor waits for *)

\* The monitor waits only while it is suspended in the wait, and only for
\* tasks it has cancelled: none of them is renewed or started again under it.
WaitsForCancelled == /\ mpc # "cancel" => mwait = {}
                     /\ \A l \in mwait : task[l] \in {"none", "cancelled"}

\* The pass over the workers cannot hang on a task that still runs: what
\* evict_for_lease awaits has been told to stop, whoever claims, renews,
\* drains or restarts meanwhile.
THEOREM MonitorWaitsForCancelled == Spec => []WaitsForCancelled
<1>1. Init => WaitsForCancelled
  BY DEF Init, WaitsForCancelled
<1>2. TypeOK /\ WaitsForCancelled /\ [Next]_vars => WaitsForCancelled'
  <2> SUFFICES ASSUME TypeOK, WaitsForCancelled, [Next]_vars
               PROVE  WaitsForCancelled'
    OBVIOUS
  <2> USE DEF workerVars, leaseVars, monitorVars, fenceVars, storeVars
  <2>1. ASSUME NEW L, DropLeases(L), NEW l \in Lease
        PROVE  /\ task[l] \in {"none", "cancelled"} => task'[l] = task[l]
               /\ l \in L => task'[l] \in {"none", "cancelled"}
               /\ task[l] = "none" => task'[l] = "none"
    BY <2>1 DEF DropLeases, TypeOK
  <2>2. ASSUME UNCHANGED <<mpc, mwait, task>> PROVE WaitsForCancelled'
    BY <2>2 DEF WaitsForCancelled
  <2>3. ASSUME NEW w \in Worker, DropAndWait(w) PROVE WaitsForCancelled'
    <3>1. mwait' \subseteq LeasesOf(w) /\ LeasesOf(w) \subseteq Lease
      BY <2>3 DEF DropAndWait, LeasesOf, TypeOK
    <3>2. DropLeases(LeasesOf(w))
      BY <2>3 DEF DropAndWait
    <3>3. \A l \in mwait' : task'[l] \in {"none", "cancelled"}
      BY <2>1, <3>1, <3>2
    <3>4. mpc' # "cancel" => mwait' = {}
      BY <2>3 DEF DropAndWait
    <3> QED BY <3>3, <3>4 DEF WaitsForCancelled
  <2>4. ASSUME NEW l \in Lease, LeaseStep(l) PROVE WaitsForCancelled'
    <3>1. UNCHANGED <<mpc, mwait>>
      BY <2>4 DEF LeaseStep, ClaimLease, ReleaseLease, RenewLost, TaskEnds
    <3>2. CASE ClaimLease(l)
      <4>1. l \notin mwait /\ \A k \in Lease : k # l => task'[k] = task[k]
        BY <3>2 DEF ClaimLease, TypeOK
      <4> QED BY <3>1, <4>1 DEF WaitsForCancelled, TypeOK
    <3>3. CASE ReleaseLease(l)
      BY <2>2, <3>1, <3>3 DEF ReleaseLease
    <3>4. CASE RenewLost(l)
      <4>1. DropLeases({l})
        BY <3>4 DEF RenewLost
      <4> QED BY <2>1, <3>1, <4>1 DEF WaitsForCancelled, TypeOK
    <3>5. CASE TaskEnds(l)
      <4>1. task'[l] = "none" /\ \A k \in Lease : k # l => task'[k] = task[k]
        BY <3>5 DEF TaskEnds, TypeOK
      <4> QED BY <3>1, <4>1 DEF WaitsForCancelled, TypeOK
    <3> QED BY <2>4, <3>2, <3>3, <3>4, <3>5 DEF LeaseStep
  <2>5. ASSUME NEW w \in Worker, WorkerStep(w) PROVE WaitsForCancelled'
    <3>1. CASE ForceDrainWorker(w)
      <4>1. DropLeases(LeasesOf(w)) /\ UNCHANGED <<mpc, mwait>>
        BY <3>1 DEF ForceDrainWorker
      <4> QED BY <2>1, <4>1 DEF WaitsForCancelled, TypeOK
    <3>2. CASE ~ ForceDrainWorker(w)
      <4>1. UNCHANGED <<mpc, mwait, task>>
        BY <2>5, <3>2
        DEF WorkerStep, RegisterWorker, UnregisterWorker, Heartbeat,
            DrainWorker, CancelDrain, Revoke, BeginUpdate, DeployAccepted,
            DeployFails, ReplaceObject
      <4> QED BY <2>2, <4>1
    <3> QED BY <3>1, <3>2
  <2>6. ASSUME NEW w \in Worker, Visit(w) PROVE WaitsForCancelled'
    <3>1. mpc = "visit" /\ mwait = {}
      BY <2>6 DEF Visit, VisitLate, VisitDrained, VisitDrainStale, VisitSkip,
                  VisitFenced, Visiting, WaitsForCancelled
    <3>2. CASE VisitDrainStale(w) \/ VisitFenced(w)
      BY <2>3, <3>2 DEF VisitDrainStale, VisitFenced
    <3>3. CASE VisitLate(w) \/ VisitDrained(w) \/ VisitSkip(w)
      BY <3>1, <3>3 DEF VisitLate, VisitDrained, VisitSkip, WaitsForCancelled
    <3> QED BY <2>6, <3>2, <3>3 DEF Visit
  <2>7. CASE SweepNotified
    <3>1. mw \in Worker
      BY <2>7 DEF SweepNotified, TypeOK
    <3> QED BY <2>3, <2>7, <3>1 DEF SweepNotified
  <2>8. CASE MonitorWakes \/ TasksEnded \/ Recorded \/ MonitorSleeps \/ Restart
    BY <2>8 DEF MonitorWakes, TasksEnded, Recorded, MonitorSleeps, Restart,
                WaitsForCancelled
  <2>9. ASSUME NEW p \in persist, PersistRuns(p) PROVE WaitsForCancelled'
    BY <2>2, <2>9 DEF PersistRuns
  <2>10. ASSUME NEW w \in Worker, Silence(w) \/ Commit(w)
         PROVE  WaitsForCancelled'
    BY <2>2, <2>10 DEF Silence, Commit
  <2>11. ASSUME NEW l \in Lease, Expire(l) PROVE WaitsForCancelled'
    BY <2>2, <2>11 DEF Expire
  <2>12. CASE OtherStarts \/ UNCHANGED vars
    BY <2>2, <2>12 DEF OtherStarts, vars
  <2> QED
    BY <2>4, <2>5, <2>6, <2>7, <2>8, <2>9, <2>10, <2>11, <2>12
    DEF Next, MonitorStep, LoopStep, OutsideStep
<1> QED BY <1>1, <1>2, ClusterTypeCorrect, PTL DEF Spec
=============================================================================
