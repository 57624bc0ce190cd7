-------------------------- MODULE GpuArbiterProofs --------------------------
(***************************************************************************)
(* The arbiter's safety for every set of tasks, sizes, priorities and      *)
(* bounds, with and without eviction, leases, a TTL, checks that raise and *)
(* stop/start.                                                             *)
(***************************************************************************)
EXTENDS GpuArbiter, VramUnitsProofs, SequenceTheorems

InPayload  == {"payload", "cancelling"}
Registered == {"payload", "cancelling", "finishing", "aborting"}

\* The entries on their way to admission: queued, set aside for the next
\* cycle, or in the hands of the drain loop.
Entries == (queue \cup Range(retry) \cup {hand}) \ {NoTask}

\* An entry is in one place only.
OnePlace == queue \cap Range(retry) = {} /\ hand \notin queue \cup Range(retry)

\* Before its admission is decided a task is nowhere in the arbiter.
Unknown == \A t \in Client :
              sub[t] \in {"new", "reserving"}
                 => run[t] = "none" /\ t \notin Entries \cup shadow

\* An entry, and a task in the shadow dict, has not been started.
NotStarted == \A t \in Entries \cup shadow : run[t] = "none" /\ Vram[t] > 0

\* A call that waits for admission is for some VRAM.
Asking == \A t \in Client : sub[t] = "reserving" => Vram[t] > 0

QueueInv == OnePlace /\ Unknown /\ NotStarted /\ Asking

\* What is registered runs, and what is loaded belongs to a payload.
RunInv == /\ \A t \in running : run[t] \in Registered
          /\ \A t \in resident : run[t] \in InPayload /\ Vram[t] > 0

\* The drain loop waits for one eviction at a time.
OneEviction == \A t \in Client : evicting[t] = "drain" =>
                  /\ dpc = "evict"
                  /\ \A u \in Client : evicting[u] = "drain" => u = t

\* The promises made on a reading fit the GPU.
Promised == {t \in held : vouch[t] = "enforced"}
PromisesFit == SumVram(Promised) <= Total

\* A cancelled entry keeps its tombstone until the entry is gone.
TombstonesStay ==
    \A t \in refused : /\ run[t] = "none"
                       /\ sub[t] \notin {"new", "reserving"}
                       /\ t \in Entries => t \in cancelled

IInv == /\ TypeOK /\ QueueInv /\ RunInv /\ OneEviction
        /\ ReservationsMatchRuns
        /\ PromisesFit /\ NoLeaseLeak /\ TombstonesStay

\* Reservations that go keep the promises within the GPU.
LEMMA DropFits ==
  ASSUME held \subseteq Client, PromisesFit, Promised' \subseteq Promised
  PROVE  PromisesFit'
<1>0. Promised \subseteq Client
  BY DEF Promised
<1>1. SumVram(Promised') <= SumVram(Promised)
  BY <1>0, SumMonotone
<1>2. SumVram(Promised') \in Nat /\ SumVram(Promised) \in Nat
  BY <1>0, CellsFinite
<1> HIDE DEF Promised
<1> QED
  BY <1>1, <1>2, VramUnitsAssumption DEF PromisesFit

\* An admission keeps the promises within the GPU: one on a reading finds
\* room beside everything that is promised, any other promises nothing.
LEMMA AdmitFits ==
  ASSUME held \subseteq Client, seen \subseteq Client, PromisesFit,
         vouch \in [Client -> Admissions \cup {"none", "expired"}],
         NEW t \in Client, t \notin held, Admit(t)
  PROVE  PromisesFit'
<1>1. PICK how \in Admissions :
         /\ CanAdmit(t, how) /\ vouch' = [vouch EXCEPT ![t] = how]
         /\ held' = IF how = "bare" THEN held ELSE held \cup {t}
  BY DEF Admit
<1>2. CASE how # "enforced"
  <2>1. Promised' \subseteq Promised
    BY <1>1, <1>2 DEF Promised
  <2> QED
    BY <2>1, DropFits
<1>3. CASE how = "enforced"
  <2>1. Promised' \subseteq held \cup {t}
    BY <1>1, <1>3 DEF Promised
  <2>2. SumVram(held \cup {t}) = SumVram(held) + Vram[t]
    BY SumAdd
  <2>3. SumVram(Promised') <= SumVram(held \cup {t})
    BY <2>1, SumMonotone
  <2>4. /\ SumVram(seen) \in Nat /\ SumVram(held) \in Nat
        /\ SumVram(Promised') \in Nat /\ Vram[t] \in Nat
    BY <2>1, CellsFinite, VramUnitsAssumption
  <2>5. SumVram(seen) + SumVram(held) + Vram[t] <= Total
    BY <1>1, <1>3 DEF CanAdmit, CanGrant, Fits
  <2> HIDE DEF Promised
  <2> QED
    BY <2>2, <2>3, <2>4, <2>5, VramUnitsAssumption DEF PromisesFit
<1> QED
  BY <1>2, <1>3

\* An entry set aside joins those set aside before it.
LEMMA RangeAppend ==
  ASSUME NEW s \in Seq(Client), NEW e \in Client
  PROVE  /\ Append(s, e) \in Seq(Client)
         /\ Range(Append(s, e)) = Range(s) \cup {e}
<1>1. /\ Append(s, e) \in Seq(Client) /\ Len(Append(s, e)) = Len(s) + 1
      /\ \A i \in 1 .. Len(s) : Append(s, e)[i] = s[i]
      /\ Append(s, e)[Len(s) + 1] = e
  BY AppendProperties
<1>2. /\ DOMAIN s = 1 .. Len(s) /\ DOMAIN Append(s, e) = 1 .. Len(s) + 1
      /\ Len(s) \in Nat
  BY <1>1
<1>3. \A i \in 1 .. Len(s) + 1 : i \in 1 .. Len(s) \/ i = Len(s) + 1
  BY <1>2
<1>4. /\ \A i \in 1 .. Len(s) : i \in 1 .. Len(s) + 1
      /\ Len(s) + 1 \in 1 .. Len(s) + 1
  BY <1>2
<1> QED
  BY <1>1, <1>2, <1>3, <1>4 DEF Range

LEMMA RangeEmpty == Range(<<>>) = {} /\ <<>> \in Seq(Client)
BY DEF Range

LEMMA RangeType ==
  ASSUME NEW s \in Seq(Client)
  PROVE  Range(s) \subseteq Client
BY DEF Range

\* What putting entries back does.
LEMMA RequeueKeeps ==
  ASSUME TypeOK, NEW Q, NEW C, NEW R, NEW sh,
         Q \subseteq Client, C \subseteq Client, R \in Seq(Client),
         sh \subseteq Client, Requeue(Q, C, R, sh)
  PROVE  /\ queue' \subseteq Q \cup (Range(R) \ C) /\ cancelled' = C \ Range(R)
         /\ shadow' \subseteq sh \cup (Range(R) \ C)
         /\ retry' = <<>> /\ hand' = NoTask /\ dpc' = "idle"
         /\ fut' \in [Client -> {"none", "pending", "resolved", "cancelled"}]
<1> DEFINE live   == Range(R) \ C
           places == {i \in DOMAIN R : R[i] \notin C}
           kept   == {R[i] : i \in {i \in places :
                        Cardinality(Q) + Cardinality({j \in places : j < i})
                           < MaxQueue}}
<1>1. /\ queue' = Q \cup kept /\ shadow' = sh \cup kept
      /\ cancelled' = C \ Range(R)
      /\ fut' = [t \in Client |-> IF t \in live \ kept /\ fut[t] = "pending"
                                 THEN "resolved" ELSE fut[t]]
      /\ retry' = <<>> /\ hand' = NoTask /\ dpc' = "idle"
  BY DEF Requeue
<1>2. kept \subseteq live
  BY DEF Range
<1> HIDE DEF kept
<1>3. fut' \in [Client -> {"none", "pending", "resolved", "cancelled"}]
  BY <1>1 DEF TypeOK
<1> QED
  BY <1>1, <1>2, <1>3

\* What popping the next entry, or ending the cycle, does: entries come only
\* from the queue and the retry list, stay in one place, and keep their
\* tombstones.
LEMMA PopNextKeeps ==
  ASSUME TypeOK, NEW C, NEW R, C \subseteq cancelled, R \in Seq(Client),
         queue \cap Range(R) = {}, PopNext(queue, C, R)
  PROVE  /\ Entries' \subseteq queue \cup Range(R) /\ OnePlace'
         /\ queue' \subseteq Client /\ retry' \in Seq(Client)
         /\ Range(retry') \subseteq Range(R)
         /\ cancelled' \subseteq Client
         /\ shadow' \subseteq shadow \cup Range(R)
         /\ \/ hand' \in Client /\ dpc' = "check"
            \/ hand' = NoTask /\ dpc' = "idle"
         /\ \A t \in Entries' : t \in C => t \in cancelled'
         /\ fut' \in [Client -> {"none", "pending", "resolved", "cancelled"}]
<1>1. ASSUME NEW e \in queue \ C,
             queue' = queue \ ({d \in queue \cap C : Before(d, e)} \cup {e}),
             cancelled' = C \ {d \in queue \cap C : Before(d, e)},
             hand' = e, dpc' = "check", retry' = R, UNCHANGED <<shadow, fut>>
      PROVE  /\ Entries' \subseteq queue \cup Range(R) /\ OnePlace'
             /\ \A t \in Entries' : t \in C => t \in cancelled'
             /\ hand' \in Client /\ shadow' \subseteq shadow \cup Range(R)
             /\ queue' \subseteq Client /\ retry' \in Seq(Client)
             /\ Range(retry') \subseteq Range(R)
             /\ cancelled' \subseteq Client
             /\ fut' \in [Client -> {"none", "pending", "resolved",
                                     "cancelled"}]
  <2> DEFINE skipped == {d \in queue \cap C : Before(d, e)}
  <2>1. skipped \subseteq queue \cap C
    OBVIOUS
  <2>2. queue' = queue \ (skipped \cup {e}) /\ cancelled' = C \ skipped
    BY <1>1
  <2> HIDE DEF skipped
  <2> QED
    BY <1>1, <2>1, <2>2 DEF Entries, OnePlace, TypeOK
<1>2. ASSUME queue \subseteq C, Requeue({}, C \ queue, R, shadow)
      PROVE  /\ Entries' \subseteq Range(R) /\ OnePlace'
             /\ \A t \in Entries' : t \in C => t \in cancelled'
             /\ hand' = NoTask /\ dpc' = "idle" /\ retry' = <<>>
             /\ queue' \subseteq Range(R)
             /\ shadow' \subseteq shadow \cup Range(R)
             /\ cancelled' \subseteq Client
             /\ fut' \in [Client -> {"none", "pending", "resolved",
                                     "cancelled"}]
  <2>1. /\ {} \subseteq Client /\ C \ queue \subseteq Client
        /\ shadow \subseteq Client
    BY DEF TypeOK
  <2>2. /\ queue' \subseteq {} \cup (Range(R) \ (C \ queue))
        /\ cancelled' = (C \ queue) \ Range(R)
        /\ shadow' \subseteq shadow \cup (Range(R) \ (C \ queue))
        /\ retry' = <<>> /\ hand' = NoTask /\ dpc' = "idle"
        /\ fut' \in [Client -> {"none", "pending", "resolved", "cancelled"}]
    BY <1>2, <2>1, RequeueKeeps
  <2>3. Range(retry') = {} /\ Range(R) \subseteq Client
    BY <2>2, RangeEmpty, RangeType
  <2>4. queue' \subseteq Range(R) /\ Entries' = queue' \ {NoTask}
    BY <2>2, <2>3 DEF Entries
  <2>5. OnePlace'
    BY <2>2, <2>3, <2>4, NoTaskAssumption DEF OnePlace
  <2>6. /\ \A t \in Entries' : t \notin C
        /\ cancelled' \subseteq Client
        /\ shadow' \subseteq shadow \cup Range(R)
    <3>1. queue \cap Range(R) = {} /\ queue' \subseteq Range(R) \ (C \ queue)
      BY <2>2
    <3>2. \A t \in queue' : t \notin C
      BY <3>1
    <3> QED
      BY <2>1, <2>2, <2>4, <3>2
  <2> QED
    BY <2>2, <2>4, <2>5, <2>6
<1>3. CASE queue \subseteq C /\ Requeue({}, C \ queue, R, shadow)
  <2>1. /\ Entries' \subseteq Range(R) /\ OnePlace'
        /\ \A t \in Entries' : t \in C => t \in cancelled'
        /\ hand' = NoTask /\ dpc' = "idle" /\ retry' = <<>>
        /\ queue' \subseteq Range(R) /\ shadow' \subseteq shadow \cup Range(R)
        /\ cancelled' \subseteq Client
        /\ fut' \in [Client -> {"none", "pending", "resolved", "cancelled"}]
    BY <1>2, <1>3
  <2>2. Range(retry') = {} /\ retry' \in Seq(Client) /\ queue' \subseteq Client
    BY <2>1, RangeEmpty, RangeType
  <2> QED
    BY <2>1, <2>2
<1>4. CASE ~ (queue \subseteq C /\ Requeue({}, C \ queue, R, shadow))
  BY <1>1, <1>4 DEF PopNext
<1> QED
  BY <1>3, <1>4

\* Nothing has happened yet.
LEMMA InitIInv == Init => IInv
<1> SUFFICES ASSUME Init PROVE IInv
  OBVIOUS
<1>1. TypeOK
  BY RangeEmpty, NoTaskAssumption DEF Init, TypeOK, Started
<1>2. /\ QueueInv /\ RunInv /\ OneEviction /\ ReservationsMatchRuns
      /\ NoLeaseLeak /\ TombstonesStay
  BY RangeEmpty DEF Init, OneEviction, QueueInv, OnePlace, Unknown, NotStarted,
     Asking, Entries, RunInv, ReservationsMatchRuns, NoLeaseLeak,
     TombstonesStay, Started
<1>3. PromisesFit
  <2>1. Promised = {}
    BY DEF Init, Promised
  <2> QED
    BY <2>1, SumEmpty, VramUnitsAssumption DEF PromisesFit
<1> QED
  BY <1>1, <1>2, <1>3 DEF IInv

\* Loading, losing a lease or a reservation, pausing, restarting.
LEMMA QuietSteps ==
  ASSUME IInv, 
         \/ PauseResume \/ DrainRestarts \/ Start \/ UNCHANGED vars
         \/ \E t \in Client : Probe(t) \/ Load(t) \/ LoseLease(t) \/ Expire(t)
  PROVE  IInv'
<1> USE DEF IInv
<1>1. TypeOK'
  <2> USE DEF subVars, queueVars, drainVars, vramVars, ledgerVars, probeVars,
     runVars, ctlVars, TypeOK, Started
  <2>1. CASE PauseResume
    BY <2>1 DEF PauseResume
  <2>2. CASE DrainRestarts
    BY <2>2 DEF DrainRestarts
  <2>3. CASE Start
    BY <2>3 DEF Start
  <2>4. CASE UNCHANGED vars
    BY <2>4 DEF vars
  <2>5. ASSUME NEW t \in Client, Probe(t) PROVE TypeOK'
    BY <2>5 DEF Probe
  <2>6. ASSUME NEW t \in Client, Load(t) PROVE TypeOK'
    BY <2>6 DEF Load
  <2>7. ASSUME NEW t \in Client, LoseLease(t) PROVE TypeOK'
    BY <2>7 DEF LoseLease
  <2>8. ASSUME NEW t \in Client, Expire(t) PROVE TypeOK'
    BY <2>8 DEF Expire
  <2> QED
    BY <2>1, <2>2, <2>3, <2>4, <2>5, <2>6, <2>7, <2>8
<1>2. QueueInv'
  BY DEF Probe, Load, LoseLease, Expire, PauseResume, DrainRestarts, Start,
     subVars, queueVars, drainVars, vramVars, ledgerVars, probeVars, runVars,
     ctlVars, vars, QueueInv, OnePlace, Unknown, NotStarted, Asking, Entries,
     TypeOK
<1>3. RunInv'
  BY DEF Probe, Load, LoseLease, Expire, PauseResume, DrainRestarts, Start,
     subVars, queueVars, drainVars, vramVars, ledgerVars, probeVars, runVars,
     ctlVars, vars, RunInv, InPayload, Registered, TypeOK
<1>4. ReservationsMatchRuns'
  BY DEF Probe, Load, LoseLease, Expire, PauseResume, DrainRestarts, Start,
     subVars, queueVars, drainVars, vramVars, ledgerVars, probeVars, runVars,
     ctlVars, vars, ReservationsMatchRuns, Started, RunInv, Registered,
     InPayload, TypeOK
<1>5. PromisesFit'
  <2>1. Promised' \subseteq Promised
    BY DEF Promised, Load, LoseLease, Expire, PauseResume, DrainRestarts,
       Start, Probe, subVars, vramVars, ledgerVars, vars, TypeOK
  <2> QED
    BY <2>1, DropFits DEF TypeOK
<1>6. NoLeaseLeak'
  BY DEF Probe, Load, LoseLease, Expire, PauseResume, DrainRestarts, Start,
     subVars, queueVars, drainVars, vramVars, ledgerVars, probeVars, runVars,
     ctlVars, vars, NoLeaseLeak, Started, RunInv, Registered, TypeOK
<1>7. TombstonesStay'
  BY DEF Probe, Load, LoseLease, Expire, PauseResume, DrainRestarts, Start,
     subVars, queueVars, drainVars, vramVars, ledgerVars, probeVars, runVars,
     ctlVars, vars, TombstonesStay, Entries, TypeOK
<1>8. OneEviction'
  BY DEF Probe, Load, LoseLease, Expire, PauseResume, DrainRestarts, Start,
     subVars, queueVars, drainVars, vramVars, ledgerVars, probeVars, runVars,
     ctlVars, vars, OneEviction, TypeOK
<1> QED
  BY <1>1, <1>2, <1>3, <1>4, <1>5, <1>6, <1>7, <1>8

\* The finally block of _run keeps the types of what it touches.
LEMMA FinishRunTypes ==
  ASSUME TypeOK, NEW t \in Client, NEW o, FinishRun(t, o)
  PROVE  /\ sub' \in [Client -> {"new", "reserving", "waiting", "direct",
                                 "answered"}]
         /\ fut' \in [Client -> {"none", "pending", "resolved", "cancelled"}]
         /\ run' \in [Client -> Started \cup {"none", "done"}]
         /\ evicting' = evicting
         /\ running' \subseteq Client /\ lease' \subseteq Client
         /\ held' \subseteq Client /\ res' \subseteq Client
         /\ vouch' \in [Client -> Admissions \cup {"none", "expired"}]
<1>1. sub' \in [Client -> {"new", "reserving", "waiting", "direct",
                           "answered"}]
  BY DEF FinishRun, TypeOK
<1>2. fut' \in [Client -> {"none", "pending", "resolved", "cancelled"}]
  BY DEF FinishRun, TypeOK
<1>3. run' \in [Client -> Started \cup {"none", "done"}]
  BY DEF FinishRun, TypeOK
<1>4. /\ evicting' = evicting
      /\ running' \subseteq Client /\ lease' \subseteq Client
      /\ held' \subseteq Client /\ res' \subseteq Client
  BY DEF FinishRun, Release, TypeOK
<1>5. vouch' \in [Client -> Admissions \cup {"none", "expired"}]
  BY DEF FinishRun, TypeOK
<1> QED
  BY <1>1, <1>2, <1>3, <1>4, <1>5

\* A run ends, or enters its finally block.
LEMMA RunEnds ==
  ASSUME IInv, NEW t \in Client,
         \/ PayloadEnd(t) \/ PayloadUnwind(t) \/ RenewStopped(t)
         \/ RunSpawnedNoLease(t)
  PROVE  IInv'
<1> USE DEF IInv
<1>1. TypeOK'
  <2>1. CASE \E o : FinishRun(t, o)
    <3>1. UNCHANGED <<queueVars, drainVars, probeVars, ctlVars, refused>>
          /\ resident' \in {resident, resident \ {t}}
      BY DEF PayloadEnd, PayloadUnwind, RenewStopped, RunSpawnedNoLease
    <3> QED
      BY <2>1, <3>1, FinishRunTypes
         DEF TypeOK, queueVars, drainVars, probeVars, ctlVars
  <2>2. CASE /\ t \in Leased
             /\ PayloadEnd(t) \/ PayloadUnwind(t)
    <3>1. UNCHANGED <<subVars, queueVars, drainVars, ledgerVars, probeVars,
                      running, evicting, lease, ctlVars, refused>>
          /\ resident' = resident \ {t}
      BY <2>2 DEF PayloadEnd, PayloadUnwind, EnterFinally
    <3>2. \E x \in {"finishing", "aborting"} : run' = [run EXCEPT ![t] = x]
      BY <2>2 DEF PayloadEnd, PayloadUnwind, EnterFinally
    <3>3. run' \in [Client -> Started \cup {"none", "done"}]
      BY <3>2 DEF TypeOK, Started
    <3> QED
      BY <3>1, <3>3 DEF TypeOK, subVars, queueVars, drainVars, ledgerVars,
         probeVars, ctlVars
  <2> QED
    BY <2>1, <2>2 DEF PayloadEnd, PayloadUnwind, RenewStopped,
       RunSpawnedNoLease, EnterFinally
<1>2. QueueInv'
  <2>1. UNCHANGED <<queue, retry, hand, shadow>>
    BY DEF PayloadEnd, PayloadUnwind, RenewStopped, RunSpawnedNoLease,
       EnterFinally, FinishRun, queueVars, drainVars
  <2>2. /\ run[t] # "none"
        /\ \E x \in {"done", "finishing", "aborting"} :
              run' = [run EXCEPT ![t] = x]
    BY DEF PayloadEnd, PayloadUnwind, RenewStopped, RunSpawnedNoLease,
       EnterFinally, FinishRun
  <2>3. \A u \in Client :
               sub'[u] \in {"new", "reserving"} => sub[u] = sub'[u]
    BY DEF PayloadEnd, PayloadUnwind, RenewStopped, RunSpawnedNoLease,
       EnterFinally, FinishRun, subVars, TypeOK
  <2>4. Entries' = Entries /\ OnePlace'
    BY <2>1 DEF Entries, QueueInv, OnePlace
  <2> QED
    BY <2>1, <2>2, <2>3, <2>4 DEF QueueInv, Unknown, NotStarted, Asking, TypeOK
<1>3. RunInv'
  <2>1. /\ running' \subseteq running /\ resident' \subseteq resident
        /\ \/ /\ run' = [run EXCEPT ![t] = "done"] /\ t \notin running'
           \/ \E x \in {"finishing", "aborting"} : run' = [run EXCEPT ![t] = x]
    BY DEF PayloadEnd, PayloadUnwind, RenewStopped, RunSpawnedNoLease,
       EnterFinally, FinishRun
  <2>2. t \notin resident'
    BY DEF PayloadEnd, PayloadUnwind, RenewStopped, RunSpawnedNoLease,
       EnterFinally, FinishRun, RunInv, InPayload
  <2> QED
    <3>1. CASE run' = [run EXCEPT ![t] = "done"] /\ t \notin running'
      BY <2>1, <2>2, <3>1 DEF RunInv, InPayload, Registered, TypeOK
    <3>2. ASSUME NEW x \in {"finishing", "aborting"},
                 run' = [run EXCEPT ![t] = x]
          PROVE  RunInv'
      BY <2>1, <2>2, <3>2 DEF RunInv, InPayload, Registered, TypeOK
    <3> QED
      BY <2>1, <3>1, <3>2
<1>4. ReservationsMatchRuns'
  <2>1. run[t] \in Started
    BY DEF PayloadEnd, PayloadUnwind, RenewStopped, RunSpawnedNoLease, Started
  <2>2. \/ /\ run' = [run EXCEPT ![t] = "done"]
           /\ held' = held \ {t} /\ res' = res \ {t}
           /\ vouch' = [vouch EXCEPT ![t] = "none"]
        \/ /\ \E x \in Started : run' = [run EXCEPT ![t] = x]
           /\ UNCHANGED <<held, res, vouch>>
    BY DEF PayloadEnd, PayloadUnwind, RenewStopped, RunSpawnedNoLease,
           EnterFinally, FinishRun, Release, Started, ledgerVars
  <2>3. "done" \notin Started
    BY DEF Started
  <2>4. CASE /\ run' = [run EXCEPT ![t] = "done"] /\ held' = held \ {t}
             /\ res' = res \ {t} /\ vouch' = [vouch EXCEPT ![t] = "none"]
    BY <2>1, <2>3, <2>4 DEF ReservationsMatchRuns, TypeOK
  <2>5. ASSUME NEW x \in Started,
         run' = [run EXCEPT ![t] = x],
               UNCHANGED <<held, res, vouch>>
        PROVE  ReservationsMatchRuns'
    BY <2>1, <2>5 DEF ReservationsMatchRuns, TypeOK
  <2> QED
    BY <2>2, <2>4, <2>5
<1>5. PromisesFit'
  <2>1. Promised' \subseteq Promised
    BY DEF Promised, TypeOK, PayloadEnd, PayloadUnwind, RenewStopped,
       RunSpawnedNoLease, EnterFinally, FinishRun, Release, subVars, queueVars,
       drainVars, vramVars, ledgerVars, probeVars, runVars, ctlVars
  <2> QED
    BY <2>1, DropFits DEF TypeOK
<1>6. NoLeaseLeak'
  BY DEF PayloadEnd, PayloadUnwind, RenewStopped, RunSpawnedNoLease,
     EnterFinally, FinishRun, Release, subVars, queueVars, drainVars, vramVars,
     ledgerVars, probeVars, runVars, ctlVars, NoLeaseLeak, Started, RunInv,
     Registered, TypeOK
<1>7. TombstonesStay'
  BY DEF PayloadEnd, PayloadUnwind, RenewStopped, RunSpawnedNoLease,
     EnterFinally, FinishRun, Release, subVars, queueVars, drainVars, vramVars,
     ledgerVars, probeVars, runVars, ctlVars, TombstonesStay, Entries, TypeOK
<1>8. OneEviction'
  BY DEF PayloadEnd, PayloadUnwind, RenewStopped, RunSpawnedNoLease,
     EnterFinally, FinishRun, Release, drainVars, vramVars, ledgerVars,
     probeVars, OneEviction, TypeOK
<1> QED
  BY <1>1, <1>2, <1>3, <1>4, <1>5, <1>6, <1>7, <1>8

\* What an admission and the end of a check do to the ledger and its lock.
LEMMA AdmitTypes ==
  ASSUME TypeOK, NEW t \in Client, Admit(t)
  PROVE  /\ held' \subseteq Client /\ res' \subseteq Client
         /\ vouch' \in [Client -> Admissions \cup {"none", "expired"}]
BY DEF Admit, TypeOK

LEMMA UnlockTypes ==
  ASSUME TypeOK, NEW t, Unlock(t)
  PROVE  lock' \in Client \cup {NoTask} /\ seen' \subseteq Client
BY DEF Unlock, TypeOK, probeVars

LEMMA NotHeld ==
  ASSUME ReservationsMatchRuns, NEW t \in Client, run[t] = "none"
  PROVE  t \notin held /\ t \notin res
BY DEF ReservationsMatchRuns, Started

LEMMA AdmitMatches ==
  ASSUME TypeOK, ReservationsMatchRuns, NEW t \in Client, Vram[t] > 0,
         run[t] = "none", Admit(t), NEW x \in Started,
         run' = [run EXCEPT ![t] = x]
  PROVE  ReservationsMatchRuns'
<1>1. PICK how \in Admissions :
         /\ vouch' = [vouch EXCEPT ![t] = how]
         /\ held' = IF how = "bare" THEN held ELSE held \cup {t}
         /\ res' = IF how = "bare" THEN res ELSE res \cup {t}
  BY DEF Admit
<1>2. t \notin res /\ t \notin held
  BY NotHeld
<1> QED
  BY <1>1, <1>2 DEF ReservationsMatchRuns, TypeOK, Admissions

\* A payload is started.
LEMMA RunStarts ==
  ASSUME IInv, NEW t \in Client,
         RunSpawned(t) \/ SubmitNoVram(t) \/ SubmitAdmitted(t)
  PROVE  IInv'
<1> USE DEF IInv
<1>1. TypeOK'
  <2> USE DEF StartRun, subVars, queueVars, drainVars, vramVars, ledgerVars,
     probeVars, runVars, ctlVars, TypeOK, Started
  <2>1. CASE RunSpawned(t)
    BY <2>1 DEF RunSpawned
  <2>2. CASE SubmitNoVram(t)
    BY <2>2 DEF SubmitNoVram
  <2>3. CASE SubmitAdmitted(t)
    BY <2>3, AdmitTypes, UnlockTypes DEF SubmitAdmitted
  <2> QED
    BY <2>1, <2>2, <2>3
<1>2. QueueInv'
  <2>1. UNCHANGED <<queue, retry, hand, shadow>>
    BY DEF RunSpawned, SubmitNoVram, SubmitAdmitted, StartRun, queueVars,
       drainVars
  <2>2. /\ run' = [run EXCEPT ![t] = "payload"]
        /\ t \notin Entries \cup shadow
    BY DEF RunSpawned, SubmitNoVram, SubmitAdmitted, StartRun, QueueInv,
       Unknown, NotStarted
  <2>3. /\ \A u \in Client :
               sub'[u] \in {"new", "reserving"} => sub[u] = sub'[u]
        /\ run[t] = "none" => sub'[t] \notin {"new", "reserving"}
    BY DEF RunSpawned, SubmitNoVram, SubmitAdmitted, StartRun, subVars, TypeOK
  <2>4. Entries' = Entries /\ OnePlace'
    BY <2>1 DEF Entries, QueueInv, OnePlace
  <2> QED
    BY <2>1, <2>2, <2>3, <2>4 DEF QueueInv, Unknown, NotStarted, Asking, TypeOK
<1>3. RunInv'
  <2>1. /\ run[t] \in {"none", "spawned"} /\ running' = running \cup {t}
        /\ run' = [run EXCEPT ![t] = "payload"] /\ UNCHANGED resident
    BY DEF RunSpawned, SubmitNoVram, SubmitAdmitted, StartRun, QueueInv,
       Unknown
  <2> QED
    BY <2>1 DEF RunInv, InPayload, Registered, TypeOK
<1>4. ReservationsMatchRuns'
  <2>1. run' = [run EXCEPT ![t] = "payload"] /\ "payload" \in Started
    BY DEF RunSpawned, SubmitNoVram, SubmitAdmitted, StartRun, Started
  <2>2. CASE RunSpawned(t)
    <3>1. run[t] \in Started /\ UNCHANGED <<held, res, vouch>>
      BY <2>2 DEF RunSpawned, Started, vramVars, ledgerVars
    <3> QED
      BY <2>1, <3>1 DEF ReservationsMatchRuns, TypeOK
  <2>3. CASE SubmitNoVram(t)
    <3>1. Vram[t] = 0 /\ UNCHANGED <<held, res, vouch>>
      BY <2>3 DEF SubmitNoVram, vramVars, ledgerVars
    <3> QED
      BY <2>1, <3>1 DEF ReservationsMatchRuns, TypeOK
  <2>4. CASE SubmitAdmitted(t)
    <3>1. Vram[t] > 0 /\ Admit(t) /\ run[t] = "none"
      BY <2>4 DEF SubmitAdmitted, QueueInv, Asking, Unknown
    <3> QED
      BY <2>1, <3>1, AdmitMatches
  <2> QED
    BY <2>2, <2>3, <2>4
<1>5. PromisesFit'
  <2>1. CASE SubmitAdmitted(t)
    <3>1. t \notin held
      BY <2>1, NotHeld DEF SubmitAdmitted, QueueInv, Unknown
    <3> QED
      BY <2>1, <3>1, AdmitFits DEF SubmitAdmitted, TypeOK
  <2>2. CASE RunSpawned(t) \/ SubmitNoVram(t)
    <3>1. Promised' \subseteq Promised
      BY <2>2 DEF RunSpawned, SubmitNoVram, vramVars, ledgerVars, Promised
    <3> QED
      BY <3>1, DropFits DEF TypeOK
  <2> QED
    BY <2>1, <2>2
<1>6. NoLeaseLeak'
  BY DEF RunSpawned, SubmitNoVram, SubmitAdmitted, StartRun, subVars,
     queueVars, drainVars, vramVars, ledgerVars, probeVars, runVars, ctlVars,
     NoLeaseLeak, Started, RunInv, Registered, TypeOK
<1>7. TombstonesStay'
  BY DEF RunSpawned, SubmitNoVram, SubmitAdmitted, StartRun, subVars,
     queueVars, drainVars, vramVars, ledgerVars, probeVars, runVars, ctlVars,
     TombstonesStay, Entries, QueueInv, Unknown, TypeOK
<1>8. OneEviction'
  BY DEF RunSpawned, SubmitNoVram, SubmitAdmitted, StartRun, drainVars,
     vramVars, ledgerVars, probeVars, OneEviction, TypeOK
<1> QED
  BY <1>1, <1>2, <1>3, <1>4, <1>5, <1>6, <1>7, <1>8

\* A run or a submitter is cancelled; an eviction begins or ends.
LEMMA Cancellations ==
  ASSUME IInv, 
         \/ DrainEvict
         \/ \E t \in Client : \/ RenewLost(t) \/ SubmitterCancelled(t)
                             \/ CancelRunning(t) \/ EndEvict(t)
  PROVE  IInv'
<1> USE DEF IInv
<1>1. TypeOK'
  <2>1. CASE DrainEvict
    BY <2>1, UnlockTypes DEF DrainEvict, BeginEvict, Victims, CancelPayload,
       subVars, queueVars, drainVars, vramVars, ledgerVars, probeVars, runVars,
       ctlVars, TypeOK, Started
  <2>2. ASSUME NEW t \in Client, RenewLost(t) PROVE TypeOK'
    BY <2>2 DEF RenewLost, CancelPayload, CancelFuture, subVars, queueVars,
       drainVars, vramVars, ledgerVars, probeVars, runVars, ctlVars, TypeOK,
       Started
  <2>3. ASSUME NEW t \in Client, SubmitterCancelled(t) PROVE TypeOK'
    <3>1. lock' \in Client \cup {NoTask} /\ seen' \subseteq Client
      BY <2>3, UnlockTypes DEF SubmitterCancelled, probeVars, TypeOK
    <3>2. sub' \in [Client -> {"new", "reserving", "waiting", "direct",
                              "answered"}]
      BY <2>3 DEF SubmitterCancelled, subVars, TypeOK
    <3>3. fut' \in [Client -> {"none", "pending", "resolved", "cancelled"}]
      BY <2>3 DEF SubmitterCancelled, CancelFuture, subVars, TypeOK
    <3>4. run' \in [Client -> Started \cup {"none", "done"}]
      BY <2>3 DEF SubmitterCancelled, CancelPayload, TypeOK, Started
    <3> QED
      BY <2>3, <3>1, <3>2, <3>3, <3>4 DEF SubmitterCancelled, queueVars,
         drainVars, ledgerVars, ctlVars, TypeOK
  <2>4. ASSUME NEW t \in Client, CancelRunning(t) PROVE TypeOK'
    BY <2>4 DEF CancelRunning, BeginEvict, CancelPayload, subVars, queueVars,
       drainVars, vramVars, ledgerVars, probeVars, runVars, ctlVars, TypeOK,
       Started
  <2>5. ASSUME NEW t \in Client, EndEvict(t) PROVE TypeOK'
    BY <2>5 DEF OneEviction, Release, EndEvict, CancelFuture, subVars,
       queueVars, drainVars, vramVars, ledgerVars, probeVars, runVars, ctlVars,
       TypeOK, Started
  <2> QED
    BY <2>1, <2>2, <2>3, <2>4, <2>5
<1>2. QueueInv'
  <2>1. UNCHANGED <<queue, retry, hand, shadow>>
    BY DEF RenewLost, SubmitterCancelled, CancelRunning, EndEvict, DrainEvict,
       BeginEvict, CancelPayload, CancelFuture, Victims, queueVars,
       drainVars
  <2>2. /\ \A u \in Client : run[u] = "none" => run'[u] = "none"
        /\ \A u \in Client :
               sub'[u] \in {"new", "reserving"} => sub[u] = sub'[u]
    <3>1. CASE DrainEvict
      BY <3>1 DEF DrainEvict, BeginEvict, CancelPayload, Victims, subVars,
         TypeOK
    <3>2. ASSUME NEW t \in Client,
                 \/ RenewLost(t) \/ SubmitterCancelled(t)
                 \/ CancelRunning(t) \/ EndEvict(t)
          PROVE  /\ \A u \in Client : run[u] = "none" => run'[u] = "none"
                 /\ \A u \in Client : sub'[u] \in {"new", "reserving"}
                                          => sub[u] = sub'[u]
      BY <3>2 DEF RenewLost, SubmitterCancelled, CancelRunning, EndEvict,
         BeginEvict, CancelPayload, subVars, TypeOK
    <3> QED
      BY <3>1, <3>2
  <2>3. Entries' = Entries /\ OnePlace'
    BY <2>1 DEF Entries, QueueInv, OnePlace
  <2>4. Entries \cup shadow \subseteq Client
    BY RangeType DEF Entries, TypeOK
  <2> QED
    BY <2>1, <2>2, <2>3, <2>4 DEF QueueInv, Unknown, NotStarted, Asking
<1>3. RunInv'
  <2>1. CASE DrainEvict
    BY <2>1 DEF DrainEvict, BeginEvict, CancelPayload, Victims, RunInv,
       InPayload, Registered, TypeOK
  <2>2. ASSUME NEW t \in Client, RenewLost(t) \/ CancelRunning(t) PROVE RunInv'
    <3>1. /\ running' \subseteq running /\ resident' = resident
          /\ CancelPayload(t)
      BY <2>2 DEF RenewLost, CancelRunning, BeginEvict
    <3> QED
      BY <3>1 DEF CancelPayload, RunInv, InPayload, Registered, TypeOK
  <2>3. ASSUME NEW t \in Client, SubmitterCancelled(t) PROVE RunInv'
    BY <2>3 DEF SubmitterCancelled, CancelPayload, RunInv, InPayload,
       Registered, TypeOK
  <2>4. ASSUME NEW t \in Client, EndEvict(t) PROVE RunInv'
    BY <2>4 DEF EndEvict, RunInv
  <2> QED
    BY <2>1, <2>2, <2>3, <2>4
<1>4. ReservationsMatchRuns'
  <2>1. ASSUME NEW v \in Client, CancelPayload(v),
               UNCHANGED <<held, res, vouch>>
        PROVE  ReservationsMatchRuns'
    BY <2>1 DEF CancelPayload, ReservationsMatchRuns, Started, TypeOK
  <2>2. ASSUME UNCHANGED <<run, held, res, vouch>> PROVE ReservationsMatchRuns'
    BY <2>2 DEF ReservationsMatchRuns
  <2>3. ASSUME NEW t \in Client, EndEvict(t) PROVE ReservationsMatchRuns'
    <3>1. t \notin res /\ t \notin held
      BY <2>3 DEF EndEvict, ReservationsMatchRuns, Started
    <3> QED
      BY <2>2, <2>3, <3>1 DEF EndEvict, Release
  <2>4. CASE DrainEvict
    BY <2>1, <2>4 DEF DrainEvict, BeginEvict, Victims, TypeOK, ledgerVars
  <2>5. ASSUME NEW t \in Client,
               RenewLost(t) \/ SubmitterCancelled(t) \/ CancelRunning(t)
        PROVE  ReservationsMatchRuns'
    BY <2>1, <2>2, <2>5 DEF RenewLost, SubmitterCancelled, CancelRunning,
                            BeginEvict, vramVars, ledgerVars
  <2> QED
    BY <2>3, <2>4, <2>5
<1>5. PromisesFit'
  <2>1. Promised' \subseteq Promised
    BY DEF Promised, Release, RenewLost, SubmitterCancelled, CancelRunning,
       EndEvict, DrainEvict, BeginEvict, CancelPayload, CancelFuture, Victims,
       subVars, queueVars, drainVars, vramVars, ledgerVars, probeVars, runVars,
       ctlVars
  <2> QED
    BY <2>1, DropFits DEF TypeOK
<1>6. NoLeaseLeak'
  <2> USE DEF CancelPayload, NoLeaseLeak, Started, RunInv, Registered, TypeOK
  <2>1. CASE DrainEvict
    BY <2>1 DEF DrainEvict, BeginEvict, Victims
  <2>2. ASSUME NEW t \in Client, RenewLost(t) PROVE NoLeaseLeak'
    BY <2>2 DEF RenewLost
  <2>3. ASSUME NEW t \in Client, SubmitterCancelled(t) PROVE NoLeaseLeak'
    BY <2>3 DEF SubmitterCancelled
  <2>4. ASSUME NEW t \in Client, CancelRunning(t) PROVE NoLeaseLeak'
    BY <2>4 DEF CancelRunning, BeginEvict
  <2>5. ASSUME NEW t \in Client, EndEvict(t) PROVE NoLeaseLeak'
    BY <2>5 DEF EndEvict
  <2> QED
    BY <2>1, <2>2, <2>3, <2>4, <2>5
<1>7. TombstonesStay'
  BY DEF RenewLost, SubmitterCancelled, CancelRunning, EndEvict, DrainEvict,
     BeginEvict, CancelPayload, CancelFuture, Victims, subVars, queueVars,
     drainVars, vramVars, ledgerVars, probeVars, runVars, ctlVars,
     TombstonesStay, Entries, TypeOK
<1>8. OneEviction'
  BY DEF RenewLost, SubmitterCancelled, CancelRunning, EndEvict, DrainEvict,
     BeginEvict, CancelPayload, CancelFuture, Victims, drainVars, vramVars,
     ledgerVars, probeVars, OneEviction, TypeOK
<1> QED
  BY <1>1, <1>2, <1>3, <1>4, <1>5, <1>6, <1>7, <1>8

\* The submitter, and cancel_op on a queued task.
LEMMA Submissions ==
  ASSUME IInv, NEW t \in Client,
         \/ Submit(t) \/ SubmitQueued(t) \/ SubmitRejected(t)
         \/ SubmitterWakes(t) \/ CancelQueued(t)
  PROVE  IInv'
<1> USE DEF IInv
<1>1. TypeOK'
  <2>1. CASE Submit(t)
    BY <2>1 DEF Submit, subVars, queueVars, drainVars, vramVars, ledgerVars,
       probeVars, runVars, ctlVars, TypeOK
  <2>2. CASE SubmitQueued(t)
    <3>1. Cardinality({u \in Client : seq[u] > 0}) \in Nat
      <4>1. IsFiniteSet({u \in Client : seq[u] > 0})
        BY VramUnitsAssumption, FS_Subset
      <4> QED
        BY <4>1, FS_CardinalityType
    <3>2. seq' \in [Client -> Nat]
      BY <2>2, <3>1 DEF SubmitQueued, TypeOK
    <3> QED
      BY <2>2, <3>2, UnlockTypes DEF SubmitQueued, drainVars, vramVars,
         ledgerVars, probeVars, runVars, ctlVars, TypeOK
  <2>3. CASE SubmitRejected(t)
    BY <2>3, UnlockTypes DEF SubmitRejected, subVars, queueVars, drainVars,
       vramVars, ledgerVars, probeVars, runVars, ctlVars, TypeOK
  <2>4. CASE SubmitterWakes(t)
    BY <2>4 DEF SubmitterWakes, subVars, queueVars, drainVars, vramVars,
       ledgerVars, probeVars, runVars, ctlVars, TypeOK
  <2>5. CASE CancelQueued(t)
    BY <2>5 DEF CancelQueued, Release, CancelFuture, subVars, queueVars,
       drainVars, vramVars, ledgerVars, probeVars, runVars, ctlVars, TypeOK
  <2> QED
    BY <2>1, <2>2, <2>3, <2>4, <2>5
<1>2. QueueInv'
  <2>1. CASE Submit(t)
    BY <2>1 DEF Submit, subVars, queueVars, drainVars, vramVars, ledgerVars,
       probeVars, runVars, ctlVars, QueueInv, OnePlace, Unknown, NotStarted,
       Asking, Entries, TypeOK
  <2>2. CASE SubmitQueued(t)
    <3> USE DEF QueueInv
    <3>1. /\ t \notin queue \cup Range(retry) \cup shadow /\ t # hand
          /\ run[t] = "none" /\ Vram[t] > 0 /\ sub[t] = "reserving"
      BY <2>2, NoTaskAssumption DEF SubmitQueued, Unknown, Asking, Entries
    <3>2. Entries' = Entries \cup {t} /\ shadow' = shadow \cup {t}
      BY <2>2, NoTaskAssumption DEF SubmitQueued, drainVars, vramVars,
         ledgerVars, probeVars, Entries
    <3>3. OnePlace'
      BY <2>2, <3>1 DEF SubmitQueued, drainVars, vramVars, ledgerVars,
         probeVars, OnePlace
    <3>4. sub' = [sub EXCEPT ![t] = "waiting"] /\ UNCHANGED run
      BY <2>2 DEF SubmitQueued, runVars
    <3>5. Unknown' /\ NotStarted' /\ Asking'
      BY <3>1, <3>2, <3>4 DEF Unknown, NotStarted, Asking, TypeOK
    <3> QED
      BY <3>3, <3>5
  <2>3. CASE SubmitRejected(t)
    BY <2>3 DEF SubmitRejected, subVars, queueVars, drainVars, vramVars,
       ledgerVars, probeVars, runVars, ctlVars, QueueInv, OnePlace, Unknown,
       NotStarted, Asking, Entries, TypeOK
  <2>4. CASE SubmitterWakes(t)
    BY <2>4 DEF SubmitterWakes, subVars, queueVars, drainVars, vramVars,
       ledgerVars, probeVars, runVars, ctlVars, QueueInv, OnePlace, Unknown,
       NotStarted, Asking, Entries, TypeOK
  <2>5. CASE CancelQueued(t)
    BY <2>5 DEF CancelQueued, CancelFuture, subVars, queueVars, drainVars,
       vramVars, ledgerVars, probeVars, runVars, ctlVars, QueueInv, OnePlace,
       Unknown, NotStarted, Asking, Entries, TypeOK
  <2> QED
    BY <2>1, <2>2, <2>3, <2>4, <2>5
<1>3. RunInv'
  BY DEF Submit, SubmitQueued, SubmitRejected, SubmitterWakes, CancelQueued,
     CancelFuture, subVars, queueVars, drainVars, vramVars, ledgerVars,
     probeVars, runVars, ctlVars, RunInv, InPayload, Registered, TypeOK
<1>4. ReservationsMatchRuns'
  BY DEF Release, Submit, SubmitQueued, SubmitRejected, SubmitterWakes,
     CancelQueued, CancelFuture, subVars, queueVars, drainVars, vramVars,
     ledgerVars, probeVars, runVars, ctlVars, ReservationsMatchRuns, Started,
     QueueInv, NotStarted, TypeOK
<1>5. PromisesFit'
  <2>1. Promised' \subseteq Promised
    BY DEF Promised, Release, Submit, SubmitQueued, SubmitRejected,
       SubmitterWakes, CancelQueued, CancelFuture, subVars, queueVars,
       drainVars, vramVars, ledgerVars, probeVars, runVars, ctlVars
  <2> QED
    BY <2>1, DropFits DEF TypeOK
<1>6. NoLeaseLeak'
  BY DEF Submit, SubmitQueued, SubmitRejected, SubmitterWakes, CancelQueued,
     CancelFuture, subVars, queueVars, drainVars, vramVars, ledgerVars,
     probeVars, runVars, ctlVars, NoLeaseLeak, Started, RunInv, Registered,
     TypeOK
<1>7. TombstonesStay'
  BY DEF Submit, SubmitQueued, SubmitRejected, SubmitterWakes, CancelQueued,
     CancelFuture, subVars, queueVars, drainVars, vramVars, ledgerVars,
     probeVars, runVars, ctlVars, TombstonesStay, Entries, QueueInv,
     NotStarted, Unknown, TypeOK
<1>8. OneEviction'
  BY DEF Submit, SubmitQueued, SubmitRejected, SubmitterWakes, CancelQueued,
     drainVars, vramVars, ledgerVars, probeVars, runVars, OneEviction, TypeOK
<1> QED
  BY <1>1, <1>2, <1>3, <1>4, <1>5, <1>6, <1>7, <1>8

\* Popping the next entry: the part the three actions that do it share.
LEMMA PopKeepsIInv ==
  ASSUME IInv, NEW C, NEW R, C \subseteq cancelled, R \in Seq(Client),
         queue \cap Range(R) = {}, PopNext(queue, C, R),
         Range(R) \subseteq Entries,
         \A t \in refused : t \in queue \cup Range(R) => t \in C,
         UNCHANGED <<sub, seq, runVars, ledgerVars, lease, resident, ctlVars,
                     refused>>,
         lock' \in Client \cup {NoTask}, seen' \subseteq Client,
         \A t \in Client : evicting[t] # "drain"
  PROVE  IInv'
<1> USE DEF IInv
<1>1. /\ Entries' \subseteq queue \cup Range(R) /\ OnePlace'
      /\ queue' \subseteq Client /\ retry' \in Seq(Client)
      /\ Range(retry') \subseteq Range(R)
      /\ cancelled' \subseteq Client
      /\ shadow' \subseteq shadow \cup Range(R)
      /\ \/ hand' \in Client /\ dpc' = "check"
         \/ hand' = NoTask /\ dpc' = "idle"
      /\ \A t \in Entries' : t \in C => t \in cancelled'
      /\ fut' \in [Client -> {"none", "pending", "resolved", "cancelled"}]
  BY PopNextKeeps
<1>2. Entries' \subseteq Entries
  BY <1>1, NoTaskAssumption DEF Entries, TypeOK
<1>3. TypeOK'
  <2>1. retry' \in Seq(Client) /\ shadow' \subseteq Client
    BY <1>1, RangeType DEF TypeOK
  <2> QED
    BY <1>1, <2>1, NoTaskAssumption DEF TypeOK, runVars, ctlVars, ledgerVars
<1>4. (Entries \cup shadow)' \subseteq Entries \cup shadow
  BY <1>1, <1>2
<1>5. QueueInv'
  BY <1>1, <1>4 DEF QueueInv, Unknown, NotStarted, Asking, runVars
<1>6. RunInv' /\ ReservationsMatchRuns' /\ NoLeaseLeak' /\ OneEviction'
  BY DEF RunInv, ReservationsMatchRuns, NoLeaseLeak, OneEviction, runVars,
     ledgerVars
<1>7. PromisesFit'
  BY DEF PromisesFit, Promised, ledgerVars
<1>8. TombstonesStay'
  BY <1>1 DEF TombstonesStay, runVars
<1> QED
  BY <1>3, <1>5, <1>6, <1>7, <1>8

\* No eviction of the drain loop is under way where it decides.
LEMMA NoDrainEviction ==
  ASSUME IInv, dpc # "evict"
  PROVE  \A t \in Client : evicting[t] # "drain"
BY DEF IInv, OneEviction

\* A tick, a cancelled entry, a refusal: the loop goes on to the next entry.
LEMMA DrainGoesOn ==
  ASSUME IInv, DrainTick \/ DrainSkip \/ DrainRetry
  PROVE  IInv'
<1> USE DEF IInv
<1>1. CASE DrainTick
  <2>1. /\ cancelled \subseteq cancelled /\ <<>> \in Seq(Client)
        /\ queue \cap Range(<<>>) = {} /\ Range(<<>>) \subseteq Entries
    BY RangeEmpty
  <2>2. \A t \in refused : t \in queue \cup Range(<<>>) => t \in cancelled
    BY RangeEmpty, NoTaskAssumption DEF TombstonesStay, Entries, TypeOK
  <2>3. \A t \in Client : evicting[t] # "drain"
    BY <1>1, NoDrainEviction DEF DrainTick
  <2> QED
    BY <1>1, <2>1, <2>2, <2>3, PopKeepsIInv
       DEF DrainTick, TypeOK, vramVars, probeVars
<1>2. CASE DrainSkip
  <2>1. hand \in Client /\ hand \notin queue \cup Range(retry)
    BY <1>2 DEF DrainSkip, TypeOK, QueueInv, OnePlace
  <2>2. /\ cancelled \ {hand} \subseteq cancelled /\ retry \in Seq(Client)
        /\ queue \cap Range(retry) = {} /\ Range(retry) \subseteq Entries
    BY RangeType, NoTaskAssumption DEF TypeOK, QueueInv, OnePlace, Entries
  <2>3. \A t \in refused :
           t \in queue \cup Range(retry) => t \in cancelled \ {hand}
    BY <2>1, NoTaskAssumption DEF TombstonesStay, Entries, TypeOK
  <2>4. \A t \in Client : evicting[t] # "drain"
    BY <1>2, NoDrainEviction DEF DrainSkip
  <2> QED
    BY <1>2, <2>2, <2>3, <2>4, PopKeepsIInv, UnlockTypes DEF DrainSkip
<1>3. CASE DrainRetry
  <2>1. hand \in Client /\ hand \notin queue \cup Range(retry)
    BY <1>3 DEF DrainRetry, TypeOK, QueueInv, OnePlace
  <2>2. /\ cancelled \subseteq cancelled /\ Append(retry, hand) \in Seq(Client)
        /\ queue \cap Range(Append(retry, hand)) = {}
        /\ Range(Append(retry, hand)) \subseteq Entries
    <3>1. /\ Append(retry, hand) \in Seq(Client)
          /\ Range(Append(retry, hand)) = Range(retry) \cup {hand}
      BY <2>1, RangeAppend DEF TypeOK
    <3> QED
      BY <2>1, <3>1, RangeType, NoTaskAssumption
         DEF QueueInv, OnePlace, Entries, TypeOK
  <2>3. \A t \in refused : t \in queue \cup Range(Append(retry, hand))
                               => t \in cancelled
    BY <2>1, RangeAppend, NoTaskAssumption DEF TombstonesStay, Entries, TypeOK
  <2>4. \A t \in Client : evicting[t] # "drain"
    BY <1>3, NoDrainEviction DEF DrainRetry
  <2> QED
    BY <1>3, <2>2, <2>3, <2>4, PopKeepsIInv, UnlockTypes DEF DrainRetry
<1> QED
  BY <1>1, <1>2, <1>3

\* The loop admits its entry.
LEMMA DrainAdmits ==
  ASSUME IInv, DrainAdmit
  PROVE  IInv'
<1> USE DEF IInv
<1>1. /\ hand \in Client /\ hand \notin queue \cup Range(retry)
      /\ run[hand] = "none" /\ Vram[hand] > 0 /\ hand \notin refused
      /\ sub[hand] \notin {"new", "reserving"}
  BY NoTaskAssumption DEF DrainAdmit, TypeOK, QueueInv, OnePlace, NotStarted,
     Unknown, TombstonesStay, Entries
<1>2. /\ queue' \subseteq queue \cup (Range(retry) \ cancelled)
      /\ cancelled' = cancelled \ Range(retry)
      /\ shadow' \subseteq (shadow \ {hand}) \cup (Range(retry) \ cancelled)
      /\ retry' = <<>> /\ hand' = NoTask /\ dpc' = "idle"
      /\ fut' \in [Client -> {"none", "pending", "resolved", "cancelled"}]
  <2>1. /\ queue \subseteq Client /\ cancelled \subseteq Client
        /\ retry \in Seq(Client) /\ shadow \ {hand} \subseteq Client
    BY DEF TypeOK
  <2> QED
    BY <2>1, RequeueKeeps DEF DrainAdmit
<1>3. /\ run' = [run EXCEPT ![hand] = "spawned"]
      /\ Admit(hand) /\ lock' \in Client \cup {NoTask}
      /\ seen' \subseteq Client
      /\ UNCHANGED <<sub, seq, running, evicting, lease, resident, paused,
                     stopping, refused>>
  BY UnlockTypes DEF DrainAdmit, ctlVars
<1>4. TypeOK'
  <2>1. /\ held' \subseteq Client /\ res' \subseteq Client
        /\ vouch' \in [Client -> Admissions \cup {"none", "expired"}]
    BY <1>1, <1>3, AdmitTypes
  <2>2. /\ queue' \subseteq Client /\ cancelled' \subseteq Client
        /\ shadow' \subseteq Client /\ retry' \in Seq(Client)
    BY <1>2, RangeEmpty, RangeType DEF TypeOK
  <2>3. run' \in [Client -> Started \cup {"none", "done"}]
    BY <1>1, <1>3 DEF TypeOK, Started
  <2> QED
    BY <1>2, <1>3, <2>1, <2>2, <2>3, NoTaskAssumption DEF TypeOK
<1>5. /\ (Entries \cup shadow)' \subseteq Entries \cup shadow
      /\ hand \notin (Entries \cup shadow)'
  <2>1. Range(retry') = {} /\ hand # NoTask
    BY <1>1, <1>2, RangeEmpty, NoTaskAssumption
  <2>2. Range(retry) \subseteq Client
    BY RangeType DEF TypeOK
  <2> QED
    BY <1>1, <1>2, <2>1, <2>2, NoTaskAssumption DEF Entries, TypeOK
<1>6. QueueInv'
  <2>1. OnePlace'
    BY <1>2, <1>4, RangeEmpty, NoTaskAssumption DEF OnePlace, TypeOK
  <2>2. Unknown' /\ NotStarted' /\ Asking'
    BY <1>1, <1>3, <1>5 DEF QueueInv, Unknown, NotStarted, Asking, TypeOK
  <2> QED
    BY <2>1, <2>2 DEF QueueInv
<1>7. RunInv' /\ NoLeaseLeak'
  BY <1>1, <1>3 DEF RunInv, NoLeaseLeak, Registered, InPayload, Started, TypeOK
<1>8. ReservationsMatchRuns'
  <2>1. "spawned" \in Started
    BY DEF Started
  <2> QED
    BY <1>1, <1>3, <2>1, AdmitMatches
<1>9. PromisesFit'
  <2>1. hand \notin held
    BY <1>1, NotHeld
  <2> QED
    BY <1>1, <1>3, <2>1, AdmitFits DEF TypeOK
<1>10. OneEviction'
  BY <1>3, NoDrainEviction DEF DrainAdmit, OneEviction
<1>11. TombstonesStay'
  <2>1. \A t \in Entries' :
           t \in Entries /\ (t \in cancelled => t \in cancelled')
    BY <1>2, <1>5, RangeEmpty, NoTaskAssumption DEF Entries, TypeOK, QueueInv,
       OnePlace
  <2> QED
    BY <1>1, <1>3, <2>1 DEF TombstonesStay, TypeOK
<1> QED
  BY <1>4, <1>6, <1>7, <1>8, <1>9, <1>10, <1>11

\* The processor loses its cycle, to an exception or to stop().
LEMMA DrainEnds ==
  ASSUME IInv, DrainFails \/ Stop
  PROVE  IInv'
<1> USE DEF IInv
<1>1. UNCHANGED <<subVars, queueVars, runVars, ledgerVars, lease, resident,
                  paused, refused>>
  BY DEF DrainFails, Stop, ctlVars
<1>2. \/ UNCHANGED drainVars
      \/ /\ dpc # "evict" /\ dpc' \in {"backoff", "stopped"}
         /\ hand' = NoTask /\ retry' = <<>>
  BY DEF DrainFails, Stop
<1>3. /\ stopping' \in BOOLEAN /\ lock' \in Client \cup {NoTask}
      /\ seen' \subseteq Client
  BY UnlockTypes DEF DrainFails, Stop, ctlVars, TypeOK
<1>4. TypeOK'
  BY <1>1, <1>2, <1>3, RangeEmpty, NoTaskAssumption DEF TypeOK, ledgerVars,
     subVars, queueVars, drainVars, vramVars, ledgerVars, probeVars, runVars
<1>5. Entries' \subseteq Entries
  BY <1>1, <1>2, RangeEmpty DEF Entries, queueVars, drainVars
<1>6. QueueInv'
  <2>1. OnePlace'
    BY <1>1, <1>2, RangeEmpty, NoTaskAssumption
       DEF QueueInv, OnePlace, TypeOK, queueVars, drainVars
  <2> QED
    BY <1>1, <1>5, <2>1
       DEF QueueInv, Unknown, NotStarted, Asking, subVars, queueVars, runVars
<1>7. RunInv' /\ ReservationsMatchRuns' /\ NoLeaseLeak' /\ PromisesFit'
  BY <1>1 DEF RunInv, ReservationsMatchRuns, NoLeaseLeak, PromisesFit,
     Promised, ledgerVars, runVars
<1>8. OneEviction'
  BY <1>1, <1>2 DEF OneEviction, runVars, drainVars
<1>9. TombstonesStay'
  BY <1>1, <1>5 DEF TombstonesStay, subVars, queueVars, runVars
<1> QED
  BY <1>4, <1>6, <1>7, <1>8, <1>9

\* Every step keeps the inductive invariant.
LEMMA NextIInv == IInv /\ [Next]_vars => IInv'
<1> SUFFICES ASSUME IInv, [Next]_vars PROVE IInv'
  OBVIOUS
<1> QED
  BY QuietSteps, RunEnds, RunStarts, Cancellations, Submissions, DrainGoesOn,
     DrainAdmits, DrainEnds DEF Next, TaskStep, DrainStep

\* The inductive invariant holds in every behaviour.
LEMMA Invariance == Spec => []IInv
BY InitIInv, NextIInv, PTL DEF Spec

\* Reservations last exactly as long as runs, for any tasks and any bounds.
THEOREM ReservationsCorrect == Spec => []ReservationsMatchRuns
<1>1. IInv => ReservationsMatchRuns
  BY DEF IInv
<1> QED
  BY Invariance, <1>1, PTL

\* No interleaving of completion, lease loss, cancellation and eviction
\* leaves the cluster with a lease that nobody will release.
THEOREM LeasesReleased == Spec => []NoLeaseLeak
<1>1. IInv => NoLeaseLeak
  BY DEF IInv
<1> QED
  BY Invariance, <1>1, PTL

\* cancel_op on a queued task is final.
THEOREM CancellationFinal == Spec => []RefusedNeverRuns
<1>1. IInv => RefusedNeverRuns
  BY DEF IInv, TombstonesStay, RefusedNeverRuns
<1> QED
  BY Invariance, <1>1, PTL

\* The models of the tasks admitted on a reading of the hardware fit the
\* GPU together, for any tasks, any readings that fail and any age of those
\* that do not; only what the TTL sweep has reclaimed under a running task
\* and what was admitted without a reading is not vouched for.
THEOREM ArbiterNeverOvercommits == Spec => []NoOvercommit
<1>1. IInv => NoOvercommit
  <2> DEFINE V == {t \in resident : vouch[t] = "enforced"}
  <2> SUFFICES ASSUME IInv PROVE SumVram(V) <= Total
    BY DEF NoOvercommit
  <2>1. V \subseteq Promised /\ Promised \subseteq Client
    BY DEF IInv, RunInv, ReservationsMatchRuns, InPayload, Started, TypeOK,
       Promised
  <2> HIDE DEF V
  <2>2. SumVram(V) <= SumVram(Promised)
    BY <2>1, SumMonotone
  <2>3. SumVram(V) \in Nat /\ SumVram(Promised) \in Nat
    BY <2>1, CellsFinite
  <2> QED
    BY <2>2, <2>3, VramUnitsAssumption DEF IInv, PromisesFit
<1> QED
  BY Invariance, <1>1, PTL

\* The arbiter's state keeps its types, and the drain loop has an entry in
\* hand exactly while it decides about one.
THEOREM ArbiterTypeCorrect == Spec => []TypeOK
<1>1. IInv => TypeOK
  BY DEF IInv
<1> QED
  BY Invariance, <1>1, PTL

----------------------------------------------------------------------------
(* No submitter is forgotten *)

\* A pending future belongs to a submitter that waits and to an entry
\* without a tombstone; a run that was cancelled with its future pending is
\* being evicted, and the eviction will cancel the future.
Watched ==
    \A t \in Client :
        fut[t] = "pending" =>
            /\ sub[t] = "waiting" /\ t \notin cancelled
            /\ run[t] \in {"cancelling", "aborting"} => evicting[t] # "no"

\* A tombstone is for a task that was queued.
TombstonesLate == \A t \in cancelled : sub[t] \notin {"new", "reserving"}

\* Entries are set aside only within a cycle.
RetryInCycle == dpc \notin {"check", "evict", "recheck"} => retry = <<>>

WaitInv == Watched /\ TombstonesLate /\ RetryInCycle

\* What one step of a task does to the waiters.
LEMMA TaskKeepsWaiters ==
  ASSUME IInv, WaitInv, NEW t \in Client, TaskStep(t)
  PROVE  WaitInv' /\ \A u \in Client : Kept(u)
<1> USE DEF WaitInv, Watched, TombstonesLate, RetryInCycle, Kept, Attended,
   Started, IInv, TypeOK, subVars, queueVars, drainVars, vramVars, ledgerVars,
   probeVars, runVars, ctlVars
<1>1. CASE Probe(t) \/ Load(t) \/ LoseLease(t) \/ Expire(t)
  BY <1>1 DEF Probe, Load, LoseLease, Expire
<1>2. CASE PayloadEnd(t)
  BY <1>2 DEF PayloadEnd, EnterFinally, FinishRun
<1>3. CASE PayloadUnwind(t)
  BY <1>3 DEF PayloadUnwind, EnterFinally, FinishRun
<1>4. CASE RenewStopped(t)
  BY <1>4 DEF RenewStopped, FinishRun
<1>5. CASE RunSpawned(t)
  BY <1>5 DEF RunSpawned, StartRun
<1>6. CASE RunSpawnedNoLease(t)
  BY <1>6 DEF RunSpawnedNoLease, FinishRun
<1>7. CASE RenewLost(t)
  BY <1>7 DEF RenewLost, CancelPayload, CancelFuture
<1>8. CASE SubmitNoVram(t) \/ SubmitAdmitted(t)
  BY <1>8 DEF SubmitNoVram, SubmitAdmitted, StartRun
<1>9. CASE Submit(t) \/ SubmitRejected(t)
  BY <1>9 DEF Submit, SubmitRejected
<1>10. CASE SubmitQueued(t)
  BY <1>10 DEF SubmitQueued, QueueInv, Unknown
<1>11. CASE SubmitterCancelled(t)
  BY <1>11 DEF SubmitterCancelled, CancelFuture, CancelPayload
<1>12. CASE SubmitterWakes(t)
  BY <1>12 DEF SubmitterWakes
<1>13. CASE EndEvict(t)
  BY <1>13 DEF EndEvict, CancelFuture
<1>14. CASE CancelQueued(t)
  BY <1>14 DEF CancelQueued, CancelFuture, QueueInv, Unknown
<1>15. CASE CancelRunning(t)
  BY <1>15 DEF CancelRunning, BeginEvict, CancelPayload
<1> QED
  BY <1>1, <1>2, <1>3, <1>4, <1>5, <1>6, <1>7, <1>8, <1>9, <1>10, <1>11,
     <1>12, <1>13, <1>14, <1>15 DEF TaskStep

\* Putting entries back loses no pending future: what finds no room is
\* answered.
LEMMA RequeueKeepsWaiters ==
  ASSUME TypeOK, NEW Q, NEW C, NEW R, NEW sh, Requeue(Q, C, R, sh)
  PROVE  \A t \in Client :
            /\ fut'[t] = "pending" => fut[t] = "pending"
            /\ fut'[t] = "pending" /\ t \in Q \cup (Range(R) \ C)
                  => t \in queue'
<1> DEFINE live   == Range(R) \ C
           places == {i \in DOMAIN R : R[i] \notin C}
           kept   == {R[i] : i \in {i \in places :
                        Cardinality(Q) + Cardinality({j \in places : j < i})
                           < MaxQueue}}
<1>1. /\ queue' = Q \cup kept
      /\ fut' = [t \in Client |-> IF t \in live \ kept /\ fut[t] = "pending"
                                 THEN "resolved" ELSE fut[t]]
  BY DEF Requeue
<1> HIDE DEF kept
<1> QED
  BY <1>1 DEF TypeOK

\* Popping the next entry, or ending the cycle, loses only entries with a
\* tombstone.
LEMMA PopKeepsWaiters ==
  ASSUME TypeOK, NEW C, NEW R, PopNext(queue, C, R)
  PROVE  /\ \A t \in Client :
              /\ fut'[t] = "pending" => fut[t] = "pending"
              /\ fut'[t] = "pending" /\ t \in (queue \cup Range(R)) \ C
                    => t \in queue' \cup Range(retry') \cup {hand'}
         /\ cancelled' \subseteq C
         /\ dpc' = "check" \/ retry' = <<>>
<1>1. CASE Requeue({}, C \ queue, R, shadow) /\ queue \subseteq C
  <2>1. \A t \in Client :
            /\ fut'[t] = "pending" => fut[t] = "pending"
            /\ fut'[t] = "pending" /\ t \in {} \cup (Range(R) \ (C \ queue))
                  => t \in queue'
    BY <1>1, RequeueKeepsWaiters
  <2>2. cancelled' \subseteq C /\ retry' = <<>>
    BY <1>1 DEF Requeue
  <2> QED
    BY <1>1, <2>1, <2>2
<1>2. ASSUME NEW e \in queue \ C,
             queue' = queue \ ({d \in queue \cap C : Before(d, e)} \cup {e}),
             cancelled' = C \ {d \in queue \cap C : Before(d, e)},
             hand' = e, dpc' = "check", retry' = R, UNCHANGED fut
      PROVE  /\ \A t \in Client :
                  /\ fut'[t] = "pending" => fut[t] = "pending"
                  /\ fut'[t] = "pending" /\ t \in (queue \cup Range(R)) \ C
                        => t \in queue' \cup Range(retry') \cup {hand'}
             /\ cancelled' \subseteq C
  <2> DEFINE skipped == {d \in queue \cap C : Before(d, e)}
  <2>1. /\ queue' = queue \ (skipped \cup {e}) /\ cancelled' = C \ skipped
        /\ skipped \subseteq C
    BY <1>2
  <2> HIDE DEF skipped
  <2> QED
    BY <1>2, <2>1
<1> QED
  BY <1>1, <1>2 DEF PopNext

\* The drain loop keeps its waiters, as long as nothing cuts its cycle short.
LEMMA DrainKeepsWaiters ==
  ASSUME IInv, WaitInv, DrainStep, ~ DrainFails
  PROVE  WaitInv' /\ \A u \in Client : Kept(u)
<1> USE DEF WaitInv, Watched, TombstonesLate, RetryInCycle, Kept,
            Attended, Started, IInv,
            TypeOK, runVars, ctlVars
<1>1. ASSUME NEW C, NEW R, PopNext(queue, C, R), C \subseteq cancelled,
             (queue \cup Range(retry) \cup {hand}) \ cancelled
                 \subseteq (queue \cup Range(R) \cup {NoTask}) \ C,
             UNCHANGED <<sub, runVars>>
      PROVE  WaitInv' /\ \A u \in Client : Kept(u)
  BY <1>1, PopKeepsWaiters, NoTaskAssumption
<1>2. CASE DrainTick
  BY <1>1, <1>2, RangeEmpty DEF DrainTick
<1>3. CASE DrainSkip
  <2>1. /\ PopNext(queue, cancelled \ {hand}, retry) /\ hand \in cancelled
        /\ UNCHANGED <<sub, runVars>>
    BY <1>3 DEF DrainSkip
  <2>2. hand \notin queue \cup Range(retry)
    BY DEF QueueInv, OnePlace
  <2>3. (queue \cup Range(retry) \cup {hand}) \ cancelled
          \subseteq (queue \cup Range(retry) \cup {NoTask})
                       \ (cancelled \ {hand})
    BY <2>1
  <2> HIDE DEF WaitInv, Kept
  <2> QED
    BY <1>1, <2>1, <2>3
<1>4. CASE DrainRetry
  <2>1. Range(Append(retry, hand)) = Range(retry) \cup {hand}
    BY <1>4, RangeAppend DEF DrainRetry
  <2> QED
    BY <1>1, <1>4, <2>1 DEF DrainRetry
<1>5. CASE DrainAdmit
  <2>1. \A t \in Client :
            /\ fut'[t] = "pending" => fut[t] = "pending"
            /\ (/\ fut'[t] = "pending"
                /\ t \in queue \cup (Range(retry) \ cancelled))
                  => t \in queue'
    BY <1>5, RequeueKeepsWaiters DEF DrainAdmit
  <2>2. /\ cancelled' = cancelled \ Range(retry) /\ retry' = <<>>
        /\ run' = [run EXCEPT ![hand] = "spawned"]
        /\ UNCHANGED <<sub, evicting>>
    BY <1>5 DEF DrainAdmit, Requeue
  <2> QED
    BY <1>5, <2>1, <2>2 DEF DrainAdmit
<1>6. CASE DrainEvict
  BY <1>6 DEF DrainEvict, BeginEvict, CancelPayload, subVars, queueVars
<1>7. CASE DrainRestarts
  BY <1>7 DEF DrainRestarts, subVars, queueVars
<1> QED
  BY <1>2, <1>3, <1>4, <1>5, <1>6, <1>7 DEF DrainStep

\* A check that raises, and stop(), throw away what the cycle has popped.
LEMMA CutLosesCycle ==
  ASSUME IInv, WaitInv, DrainFails \/ Stop
  PROVE  /\ WaitInv'
         /\ \A u \in Client : u \in Range(retry) \cup {hand} \/ Kept(u)
<1> USE DEF WaitInv, Watched, TombstonesLate, RetryInCycle, Kept, Attended,
   subVars, queueVars, drainVars, vramVars, ledgerVars, probeVars, runVars
<1>1. CASE DrainFails
  BY <1>1 DEF DrainFails
<1>2. CASE Stop
  BY <1>2 DEF Stop
<1> QED
  BY <1>1, <1>2

\* Every step keeps its waiters but a cut, and a cut those it has not popped.
LEMMA StepKeepsWaiters ==
  ASSUME IInv, WaitInv, [Next]_vars
  PROVE  /\ WaitInv'
         /\ \A u \in Client :
               \/ Kept(u)
               \/ u \in Range(retry) \cup {hand} /\ (DrainFails \/ Stop)
<1>1. CASE PauseResume \/ Start \/ UNCHANGED vars
  BY <1>1 DEF PauseResume, Start, vars, subVars, queueVars, drainVars,
     vramVars, ledgerVars, probeVars, runVars, WaitInv, Watched,
     TombstonesLate, RetryInCycle, Kept, Attended
<1>2. CASE DrainFails \/ Stop
  BY <1>2, CutLosesCycle
<1>3. CASE DrainStep /\ ~ DrainFails
  BY <1>3, DrainKeepsWaiters
<1>4. ASSUME NEW t \in Client, TaskStep(t)
      PROVE  WaitInv' /\ \A u \in Client : Kept(u)
  BY <1>4, TaskKeepsWaiters
<1> QED
  BY <1>1, <1>2, <1>3, <1>4 DEF Next

LEMMA WaitInvariance == Spec => []WaitInv
<1>1. Init => WaitInv
  BY DEF Init, WaitInv, Watched, TombstonesLate, RetryInCycle
<1>2. IInv /\ WaitInv /\ [Next]_vars => WaitInv'
  BY StepKeepsWaiters
<1> QED
  BY <1>1, <1>2, Invariance, PTL DEF Spec

\* Cancellation, eviction, lease loss, a full queue and every await of the
\* drain loop leave a waiting submitter attended to.  The code has exactly
\* two ways to forget one, an admission check that raises and stop(), and
\* either takes only what the cycle under way holds outside the queue.
THEOREM WaitersLostOnlyByCuts == Spec => LostOnlyByCuts
<1>1. IInv /\ WaitInv /\ [Next]_vars
      => [\A t \in Client :
             \/ Kept(t)
             \/ t \in Range(retry) \cup {hand} /\ (DrainFails \/ Stop)]_vars
  BY StepKeepsWaiters
<1> QED
  BY <1>1, Invariance, WaitInvariance, PTL DEF Spec, LostOnlyByCuts

\* Where the admission check does not raise and the processor is not
\* stopped, every waiting submitter's task is queued, in the drain loop's
\* hands, running or being evicted.
THEOREM WaitersNotLost ==
  ASSUME ~ AdmissionMayFail, ~ MayStop
  PROVE  Spec => []NoLostWaiter
<1>1. Init => NoLostWaiter
  BY DEF Init, NoLostWaiter
<1>2. IInv /\ WaitInv /\ NoLostWaiter /\ [Next]_vars => NoLostWaiter'
  <2> SUFFICES ASSUME IInv, WaitInv, NoLostWaiter, [Next]_vars
               PROVE  NoLostWaiter'
    OBVIOUS
  <2>1. \A t \in Client : Kept(t)
    BY StepKeepsWaiters DEF DrainFails, Stop
  <2> QED
    BY <2>1 DEF Kept, Attended, NoLostWaiter
<1> QED
  BY <1>1, <1>2, Invariance, WaitInvariance, PTL DEF Spec

\* Under the same conditions an entry the drain loop could not admit goes
\* back to the queue at the end of the cycle, or its submitter is answered.
THEOREM EntriesRetried ==
  ASSUME ~ AdmissionMayFail, ~ MayStop
  PROVE  Spec => RetriedLater
<1>1. IInv /\ WaitInv /\ [Next]_vars
      => [\A t \in Range(retry) : fut'[t] = "pending" =>
             t \in Range(retry') \cup queue' \cup {hand'}]_vars
  <2> SUFFICES ASSUME IInv, WaitInv, Next, NEW t \in Range(retry),
                      fut'[t] = "pending"
               PROVE  t \in Range(retry') \cup queue' \cup {hand'}
    OBVIOUS
  <2>1. t \in Client
    BY RangeType DEF IInv, TypeOK
  <2>2. fut[t] = "pending" => t \notin cancelled
    BY <2>1 DEF WaitInv, Watched
  <2>3. ASSUME NEW C, NEW R, PopNext(queue, C, R), C \subseteq cancelled,
               Range(retry) \subseteq Range(R)
        PROVE  t \in Range(retry') \cup queue' \cup {hand'}
    BY <2>1, <2>2, <2>3, PopKeepsWaiters DEF IInv
  <2>4. CASE DrainTick
    BY <2>4, RangeEmpty DEF DrainTick, WaitInv, RetryInCycle
  <2>5. CASE DrainSkip \/ DrainRetry
    <3>1. DrainRetry => Range(Append(retry, hand)) = Range(retry) \cup {hand}
      BY RangeAppend DEF DrainRetry, IInv, TypeOK
    <3> QED
      BY <2>3, <2>5, <3>1 DEF DrainSkip, DrainRetry
  <2>6. CASE DrainAdmit
    BY <2>1, <2>2, <2>6, RequeueKeepsWaiters DEF DrainAdmit, IInv
  <2>7. CASE DrainEvict \/ DrainRestarts \/ PauseResume \/ Start
    BY <2>7 DEF DrainEvict, DrainRestarts, PauseResume, Start, drainVars
  <2>8. ASSUME NEW u \in Client, TaskStep(u) PROVE retry' = retry
    BY <2>8 DEF TaskStep, Probe, Load, PayloadEnd, PayloadUnwind, RenewStopped,
       RunSpawned, RunSpawnedNoLease, LoseLease, RenewLost, SubmitNoVram,
       Submit, SubmitAdmitted, SubmitQueued, SubmitRejected,
       SubmitterCancelled, SubmitterWakes, EndEvict, CancelQueued,
       CancelRunning, Expire, drainVars
  <2> QED
    BY <2>4, <2>5, <2>6, <2>7, <2>8 DEF Next, DrainStep, DrainFails, Stop
<1> QED
  BY <1>1, Invariance, WaitInvariance, PTL DEF Spec, RetriedLater
=============================================================================
