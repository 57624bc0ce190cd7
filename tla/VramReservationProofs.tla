----------------------- MODULE VramReservationProofs -----------------------
(***************************************************************************)
(* The ledger's invariants and its refinement of VramLedger, for every set *)
(* of clients, every size of request and of GPU, with and without a TTL,   *)
(* with and without a probe that fails.                                    *)
(***************************************************************************)
EXTENDS VramReservation, VramUnitsProofs

\* A reserve() call in progress is for some VRAM, and its client has no
\* reservation yet.
CallsAreFresh == \A c \in Client :
                    pc[c] \in {"waiting", "probing", "probed"}
                        => Vram[c] > 0 /\ c \notin Holders

\* A reservation is popped by one sweep only.
PoppedOnce == pending \cap inflight = {}

\* What is promised on the strength of a reading fits the GPU.
PromisesFit == SumVram(Holders \ unenforced) <= Total

\* The inductive invariant.
IInv == TypeOK /\ CallsAreFresh /\ PoppedOnce /\ LedgerExact /\ PromisesFit

\* The reading of the hardware is a number up to Total.
LEMMA FreeVramType ==
  ASSUME TypeOK
  PROVE  FreeVram \in 0 .. Total
<1>1. SumVram(resident) \in Nat
  BY CellsFinite DEF TypeOK
<1> QED
  BY <1>1, VramUnitsAssumption DEF FreeVram, Max0

\* Reservations that leave the ledger take their VRAM with them and leave
\* the promises within the GPU.
LEMMA DropKeepsSums ==
  ASSUME TypeOK, PoppedOnce, LedgerExact, PromisesFit,
         NEW S, S \subseteq Holders, Holders' = Holders \ S,
         unenforced' = unenforced \ S, reserved' = reserved - SumVram(S)
  PROVE  LedgerExact' /\ PromisesFit'
<1>1. Holders \subseteq Client
  BY DEF TypeOK, Holders
<1>2. SumVram(Holders \ S) = SumVram(Holders) - SumVram(S)
  BY <1>1, SumDifference
<1>3. LedgerExact'
  BY <1>2 DEF LedgerExact
<1>4. (Holders \ unenforced)' \subseteq Holders \ unenforced
  OBVIOUS
<1>5. SumVram((Holders \ unenforced)') <= SumVram(Holders \ unenforced)
  BY <1>1, <1>4, SumMonotone
<1>6. SumVram((Holders \ unenforced)') \in Nat /\ SumVram(Holders \ unenforced) \in Nat
  BY <1>1, <1>4, CellsFinite
<1>7. PromisesFit'
  BY <1>5, <1>6, VramUnitsAssumption DEF PromisesFit
<1> QED
  BY <1>3, <1>7

\* The ledger starts empty.
LEMMA InitIInv == Init => IInv
<1> SUFFICES ASSUME Init PROVE IInv
  OBVIOUS
<1> USE DEF Init
<1>1. Holders = {} /\ Holders \ unenforced = {}
  BY DEF Holders
<1>2. TypeOK /\ CallsAreFresh /\ PoppedOnce
  BY <1>1, VramUnitsAssumption DEF TypeOK, CallsAreFresh, PoppedOnce
<1>3. LedgerExact /\ PromisesFit
  BY <1>1, SumEmpty, VramUnitsAssumption DEF LedgerExact, PromisesFit
<1> QED
  BY <1>2, <1>3 DEF IInv

\* A step that leaves the counter and the reservations alone.
LEMMA LedgerUnchanged ==
  ASSUME LedgerExact, PromisesFit, PoppedOnce,
         UNCHANGED <<reserved, pending, inflight, unenforced>>
  PROVE  LedgerExact' /\ PromisesFit' /\ PoppedOnce' /\ Holders' = Holders
BY DEF LedgerExact, PromisesFit, PoppedOnce, Holders

\* The lock holder's check, made on a reading of any age, keeps the promises
\* within the GPU, and one reservation is added to the counter and the set.
LEMMA GrantKeepsSums ==
  ASSUME IInv, NEW c \in Client, GrantReserve(c)
  PROVE  LedgerExact' /\ PromisesFit' /\ Holders' = Holders \cup {c}
<1> USE DEF IInv
<1>1. Holders \subseteq Client /\ c \notin Holders /\ Vram[c] > 0
  BY DEF TypeOK, CallsAreFresh, Holders, GrantReserve
<1>2. Holders' = Holders \cup {c}
  BY DEF GrantReserve, Holders
<1>3. SumVram(Holders \cup {c}) = SumVram(Holders) + Vram[c]
  BY <1>1, SumAdd
<1>4. LedgerExact'
  BY <1>2, <1>3 DEF LedgerExact, GrantReserve
<1>5. CASE probe = NoProbe
  <2>1. Holders' \ unenforced' = Holders \ unenforced
    BY <1>1, <1>2, <1>5 DEF GrantReserve, TypeOK, Holders
  <2> QED
    BY <1>2, <1>4, <2>1 DEF PromisesFit
<1>6. CASE probe # NoProbe
  <2>1. /\ probe \in 0 .. Total /\ Max0(probe - reserved) >= Vram[c]
        /\ reserved \in Int /\ Vram[c] \in Nat
    BY <1>6, VramUnitsAssumption DEF GrantReserve, Fits, TypeOK
  <2>2. reserved + Vram[c] <= Total
    BY <1>1, <2>1, VramUnitsAssumption DEF Max0
  <2>3. SumVram(Holders') <= Total
    BY <1>2, <1>3, <2>2 DEF LedgerExact
  <2>4. SumVram(Holders' \ unenforced') <= SumVram(Holders')
    BY <1>1, <1>2, SumMonotone
  <2>5. SumVram(Holders') \in Nat /\ SumVram(Holders' \ unenforced') \in Nat
    BY <1>1, <1>2, CellsFinite
  <2> QED
    BY <1>2, <1>4, <2>3, <2>4, <2>5, VramUnitsAssumption DEF PromisesFit
<1> QED
  BY <1>5, <1>6

\* A sweep on the event loop takes exactly the stale reservations.
LEMMA SweepDrops ==
  ASSUME TypeOK, PoppedOnce, SweepStaleUnlocked
  PROVE  /\ Holders' = Holders \ stale /\ stale \subseteq Holders
         /\ unenforced' = unenforced \ stale
         /\ reserved' = reserved - SumVram(stale)
         /\ PoppedOnce'
BY DEF TypeOK, PoppedOnce, SweepStaleUnlocked, Holders

\* One reservation that leaves the ledger, by release() or by the sweep of a
\* worker thread.
LEMMA DropOne ==
  ASSUME TypeOK, PoppedOnce, LedgerExact, PromisesFit,
         NEW c \in Holders, Holders' = Holders \ {c},
         unenforced' = unenforced \ {c}, reserved' = reserved - Vram[c]
  PROVE  LedgerExact' /\ PromisesFit'
<1>1. c \in Client
  BY DEF TypeOK, Holders
<1>2. SumVram({c}) = 0 + Vram[c]
  <2>1. SumVram({} \cup {c}) = SumVram({}) + Vram[c]
    BY <1>1, SumAdd
  <2>2. {} \cup {c} = {c}
    OBVIOUS
  <2> QED
    BY <2>1, <2>2, SumEmpty
<1>3. reserved' = reserved - SumVram({c})
  BY <1>1, <1>2, VramUnitsAssumption
<1> QED
  BY <1>3, DropKeepsSums

\* Every step of the ledger, of its clients and of the hardware keeps IInv.
LEMMA NextIInv == IInv /\ [Next]_vars => IInv'
<1> SUFFICES ASSUME IInv, [Next]_vars PROVE IInv'
  OBVIOUS
<1> USE DEF IInv, ledger
<1>1. CASE SweepStale
  <2>1. SweepStaleUnlocked
    BY <1>1 DEF SweepStale
  <2>2. LedgerExact' /\ PromisesFit' /\ PoppedOnce' /\ Holders' \subseteq Holders
    BY <2>1, SweepDrops, DropKeepsSums
  <2>3. TypeOK'
    BY <1>1, <2>1, CellsFinite DEF SweepStale, SweepStaleUnlocked, TypeOK
  <2>4. CallsAreFresh'
    BY <1>1, <2>2 DEF SweepStale, CallsAreFresh
  <2> QED
    BY <2>2, <2>3, <2>4
<1>2. ASSUME NEW c \in Client, ReserveMarker(c) PROVE IInv'
  <2>1. LedgerExact' /\ PromisesFit' /\ PoppedOnce' /\ Holders' = Holders
    BY <1>2, LedgerUnchanged DEF ReserveMarker
  <2>2. TypeOK' /\ CallsAreFresh'
    BY <1>2, <2>1 DEF ReserveMarker, TypeOK, CallsAreFresh
  <2> QED
    BY <2>1, <2>2
<1>3. ASSUME NEW c \in Client, Reserve(c) PROVE IInv'
  <2>1. LedgerExact' /\ PromisesFit' /\ PoppedOnce' /\ Holders' = Holders
    BY <1>3, LedgerUnchanged DEF Reserve
  <2>2. TypeOK'
    BY <1>3 DEF Reserve, TypeOK
  <2>3. CallsAreFresh'
    BY <1>3, <2>1 DEF Reserve, TypeOK, CallsAreFresh, Holders
  <2> QED
    BY <2>1, <2>2, <2>3
<1>4. ASSUME NEW c \in Client, Acquire(c) PROVE IInv'
  <2>1. SweepStaleUnlocked
    BY <1>4 DEF Acquire
  <2>2. LedgerExact' /\ PromisesFit' /\ PoppedOnce' /\ Holders' \subseteq Holders
    BY <2>1, SweepDrops, DropKeepsSums
  <2>3. TypeOK'
    BY <1>4, <2>1, CellsFinite DEF Acquire, SweepStaleUnlocked, TypeOK
  <2>4. CallsAreFresh'
    BY <1>4, <2>2 DEF Acquire, CallsAreFresh, TypeOK
  <2> QED
    BY <2>2, <2>3, <2>4
<1>5. ASSUME NEW c \in Client, ProbeVram(c) PROVE IInv'
  <2>1. LedgerExact' /\ PromisesFit' /\ PoppedOnce' /\ Holders' = Holders
    BY <1>5, LedgerUnchanged DEF ProbeVram
  <2>2. probe' \in {NoProbe} \cup (0 .. Total)
    BY <1>5, FreeVramType DEF ProbeVram
  <2>3. TypeOK' /\ CallsAreFresh'
    BY <1>5, <2>1, <2>2 DEF ProbeVram, TypeOK, CallsAreFresh
  <2> QED
    BY <2>1, <2>3
<1>6. ASSUME NEW c \in Client, GrantReserve(c) PROVE IInv'
  <2>1. LedgerExact' /\ PromisesFit' /\ Holders' = Holders \cup {c}
    BY <1>6, GrantKeepsSums
  <2>2. c \notin Holders
    BY <1>6 DEF GrantReserve, CallsAreFresh
  <2>3. TypeOK'
    BY <1>6, VramUnitsAssumption DEF GrantReserve, TypeOK
  <2>4. CallsAreFresh' /\ PoppedOnce'
    BY <1>6, <2>1, <2>2 DEF GrantReserve, TypeOK, CallsAreFresh, PoppedOnce,
                            Holders
  <2> QED
    BY <2>1, <2>3, <2>4
<1>7. ASSUME NEW c \in Client, DenyReserve(c) \/ CancelReserve(c) PROVE IInv'
  <2>1. LedgerExact' /\ PromisesFit' /\ PoppedOnce' /\ Holders' = Holders
    BY <1>7, LedgerUnchanged DEF DenyReserve, CancelReserve
  <2>2. TypeOK' /\ CallsAreFresh'
    BY <1>7, <2>1 DEF DenyReserve, CancelReserve, TypeOK, CallsAreFresh
  <2> QED
    BY <2>1, <2>2
<1>8. ASSUME NEW c \in Client, Release(c) PROVE IInv'
  <2>1. CASE c \in pending
    <3>1. /\ c \in Holders /\ Holders' = Holders \ {c}
          /\ unenforced' = unenforced \ {c} /\ reserved' = reserved - Vram[c]
      BY <1>8, <2>1 DEF Release, Drop, Holders, PoppedOnce
    <3>2. LedgerExact' /\ PromisesFit'
      BY <3>1, DropOne
    <3>3. TypeOK'
      <4>1. unenforced' \subseteq (pending \cup inflight)'
        BY <3>1 DEF TypeOK, Holders
      <4>2. reserved' \in Int
        BY <3>1, VramUnitsAssumption DEF TypeOK
      <4> QED
        BY <1>8, <2>1, <4>1, <4>2 DEF Release, Drop, TypeOK
    <3>4. CallsAreFresh' /\ PoppedOnce'
      BY <1>8, <2>1, <3>1 DEF Release, Drop, TypeOK, CallsAreFresh, PoppedOnce
    <3> QED
      BY <3>2, <3>3, <3>4
  <2>2. CASE c \notin pending
    <3>1. LedgerExact' /\ PromisesFit' /\ PoppedOnce' /\ Holders' = Holders
      BY <1>8, <2>2, LedgerUnchanged DEF Release, Drop
    <3>2. TypeOK' /\ CallsAreFresh'
      BY <1>8, <2>2, <3>1 DEF Release, Drop, TypeOK, CallsAreFresh
    <3> QED
      BY <3>1, <3>2
  <2> QED
    BY <2>1, <2>2
<1>9. ASSUME NEW c \in Client, Expire(c) \/ Load(c) \/ Unload(c) PROVE IInv'
  <2>1. LedgerExact' /\ PromisesFit' /\ PoppedOnce' /\ Holders' = Holders
    BY <1>9, LedgerUnchanged DEF Expire, Load, Unload
  <2>2. TypeOK' /\ CallsAreFresh'
    BY <1>9, <2>1 DEF Expire, Load, Unload, TypeOK, CallsAreFresh
  <2> QED
    BY <2>1, <2>2
<1>10. ASSUME NEW c \in Client, SweepPop(c) PROVE IInv'
  <2>1. Holders' = Holders
    BY <1>10 DEF SweepPop, TypeOK, Holders
  <2>2. LedgerExact' /\ PromisesFit'
    BY <1>10, <2>1 DEF SweepPop, LedgerExact, PromisesFit
  <2>3. TypeOK' /\ CallsAreFresh' /\ PoppedOnce'
    BY <1>10, <2>1 DEF SweepPop, TypeOK, CallsAreFresh, PoppedOnce
  <2> QED
    BY <2>2, <2>3
<1>11. ASSUME NEW c \in Client, SweepSubtract(c) PROVE IInv'
  <2>1. /\ c \in Holders /\ Holders' = Holders \ {c}
        /\ unenforced' = unenforced \ {c} /\ reserved' = reserved - Vram[c]
    BY <1>11 DEF SweepSubtract, Holders, PoppedOnce
  <2>2. LedgerExact' /\ PromisesFit'
    BY <2>1, DropOne
  <2>3. TypeOK'
    BY <1>11, VramUnitsAssumption DEF SweepSubtract, TypeOK
  <2>4. CallsAreFresh' /\ PoppedOnce'
    BY <1>11, <2>1 DEF SweepSubtract, CallsAreFresh, PoppedOnce
  <2> QED
    BY <2>2, <2>3, <2>4
<1>12. CASE UNCHANGED vars
  <2>1. LedgerExact' /\ PromisesFit' /\ PoppedOnce' /\ Holders' = Holders
    BY <1>12, LedgerUnchanged DEF vars
  <2>2. TypeOK' /\ CallsAreFresh'
    BY <1>12, <2>1 DEF vars, TypeOK, CallsAreFresh
  <2> QED
    BY <2>1, <2>2
<1> QED
  BY <1>1, <1>2, <1>3, <1>4, <1>5, <1>6, <1>7, <1>8, <1>9, <1>10, <1>11, <1>12
     DEF Next, Step

\* The inductive invariant holds in every behaviour.
LEMMA Invariance == Spec => []IInv
BY InitIInv, NextIInv, PTL DEF Spec

\* Every variable keeps its type; in particular a reading is between 0 and
\* the GPU's size, and only reservations on the ledger can be stale.
THEOREM VramTypeCorrect == Spec => []TypeOK
<1>1. IInv => TypeOK
  BY DEF IInv
<1> QED
  BY Invariance, <1>1, PTL

\* _reserved_vram_mb equals the sum of the reservations it stands for, under
\* every interleaving of reserve(), release() and sweeps, the sweep of a
\* worker thread included.
THEOREM LedgerCounterExact == Spec => []LedgerExact
<1>1. IInv => LedgerExact
  BY DEF IInv
<1> QED
  BY Invariance, <1>1, PTL

\* Models loaded under reservations granted on a hardware reading fit the
\* GPU, however many reserve() calls race and however old their readings.
THEOREM ReservedLoadsFit == Spec => []NoOvercommit
<1>1. IInv => NoOvercommit
  <2> SUFFICES ASSUME IInv, resident \subseteq Holders \ unenforced
               PROVE  SumVram(resident) <= Total
    BY DEF NoOvercommit
  <2>1. Holders \ unenforced \subseteq Client
    BY DEF IInv, TypeOK, Holders
  <2>2. SumVram(resident) <= SumVram(Holders \ unenforced)
    BY <2>1, SumMonotone
  <2>3. SumVram(resident) \in Nat /\ SumVram(Holders \ unenforced) \in Nat
    BY <2>1, CellsFinite
  <2> QED
    BY <2>2, <2>3, VramUnitsAssumption DEF IInv, PromisesFit
<1> QED
  BY Invariance, <1>1, PTL

\* A step of the lock-and-probe protocol is a step of the one-step ledger,
\* or leaves it alone.
LEMMA StepRefines ==
  ASSUME IInv, [Next]_vars
  PROVE  [Ledger!Next]_(Ledger!vars)
<1> USE DEF IInv, ledger
<1> DEFINE Stutter == UNCHANGED <<Holders, unenforced>>
<1>1. Stutter => [Ledger!Next]_(Ledger!vars)
  BY DEF Ledger!vars
<1>2. ASSUME NEW S, S # {}, S \subseteq Holders, Holders' = Holders \ S,
             unenforced' = unenforced \ S
      PROVE  Ledger!Next
  <2>1. S \in SUBSET Client
    BY <1>2 DEF TypeOK, Holders
  <2> QED
    BY <1>2, <2>1 DEF Ledger!Next, Ledger!Drop
<1>3. ASSUME SweepStaleUnlocked PROVE Stutter \/ Ledger!Next
  <2>1. /\ Holders' = Holders \ stale /\ stale \subseteq Holders
        /\ unenforced' = unenforced \ stale
    BY <1>3, SweepDrops
  <2> QED
    BY <1>2, <2>1
<1>4. ASSUME NEW c \in Client, GrantReserve(c) PROVE Ledger!Next
  <2>1. c \notin Holders /\ Holders' = Holders \cup {c} /\ Vram[c] > 0
    BY <1>4, GrantKeepsSums DEF GrantReserve, CallsAreFresh
  <2>2. CASE probe = NoProbe
    BY <1>4, <2>1, <2>2 DEF GrantReserve, Ledger!Next, Ledger!Admit
  <2>3. CASE probe # NoProbe
    <3>1. /\ probe \in 0 .. Total /\ Max0(probe - reserved) >= Vram[c]
          /\ reserved \in Int /\ Vram[c] \in Nat
      BY <1>4, <2>3, VramUnitsAssumption DEF GrantReserve, Fits, TypeOK
    <3>2. SumVram(Holders) + Vram[c] <= Total
      BY <2>1, <3>1, VramUnitsAssumption DEF Max0, LedgerExact
    <3>3. SumVram(Holders) + Vram[c] <= Total /\ UNCHANGED unenforced
      BY <1>4, <2>3, <3>2 DEF GrantReserve
    <3>4. Ledger!Grant(c)
      BY <2>1, <3>3 DEF Ledger!Grant
    <3> QED
      BY <3>4 DEF Ledger!Next
  <2> QED
    BY <2>2, <2>3
<1>5. ASSUME NEW c \in Client, Release(c) PROVE Stutter \/ Ledger!Next
  <2>1. CASE c \in pending
    <3>1. /\ {c} # {} /\ {c} \subseteq Holders /\ Holders' = Holders \ {c}
          /\ unenforced' = unenforced \ {c}
      BY <1>5, <2>1 DEF Release, Drop, Holders, PoppedOnce
    <3> QED
      BY <1>2, <3>1
  <2>2. CASE c \notin pending
    BY <1>5, <2>2 DEF Release, Drop, Holders
  <2> QED
    BY <2>1, <2>2
<1>6. ASSUME NEW c \in Client, SweepSubtract(c) PROVE Ledger!Next
  <2>1. /\ {c} # {} /\ {c} \subseteq Holders /\ Holders' = Holders \ {c}
        /\ unenforced' = unenforced \ {c}
    BY <1>6 DEF SweepSubtract, Holders, PoppedOnce
  <2> QED
    BY <1>2, <2>1
<1>7. ASSUME NEW c \in Client, SweepPop(c) PROVE Stutter
  BY <1>7 DEF SweepPop, TypeOK, Holders
<1>8. ASSUME NEW c \in Client,
             \/ ReserveMarker(c) \/ Reserve(c) \/ ProbeVram(c)
             \/ DenyReserve(c) \/ CancelReserve(c) \/ Expire(c)
             \/ Load(c) \/ Unload(c)
      PROVE  Stutter
  BY <1>8 DEF ReserveMarker, Reserve, ProbeVram, DenyReserve, CancelReserve,
              Expire, Load, Unload, Holders
<1>9. CASE UNCHANGED vars
  BY <1>1, <1>9 DEF vars, Holders
<1>10. ASSUME NEW c \in Client, Acquire(c) PROVE Stutter \/ Ledger!Next
  BY <1>3, <1>10 DEF Acquire
<1>11. CASE SweepStale
  BY <1>1, <1>3, <1>11 DEF SweepStale
<1> QED
  <2> HIDE DEF Stutter
  <2> QED
    BY <1>1, <1>4, <1>5, <1>6, <1>7, <1>8, <1>9, <1>10, <1>11 DEF Next, Step

\* reserve() is atomic check-and-reserve as far as the ledger goes: the
\* protocol with its lock, its probe in a thread, its unlocked release and
\* its concurrent sweeps implements VramLedger.
THEOREM LedgerRefinement == Spec => LedgerSpec
<1>1. Init => Ledger!Init
  BY DEF Init, Ledger!Init, Holders
<1>2. IInv /\ [Next]_vars => [Ledger!Next]_(Ledger!vars)
  BY StepRefines
<1> QED
  BY Invariance, <1>1, <1>2, PTL DEF Spec, LedgerSpec, Ledger!Spec

----------------------------------------------------------------------------
(* The lock *)

\* Between its probe and its check a reserve() call holds the lock, and the
\* lock is held by such a call: no cancellation leaves it behind.
LockHeld == \A c \in Client : pc[c] \in {"probing", "probed"} <=> lock = c

\* The reading is the lock holder's own, made since it took the lock.
ReadingOwned == probe # NoProbe => \E c \in Client : lock = c /\ pc[c] = "probed"

\* Without a failing probe the check is never made without a reading.
ReadingMade == ~ ProbeMayFail => \A c \in Client : pc[c] = "probed" => probe # NoProbe

LockInv == LockHeld /\ ReadingOwned /\ ReadingMade

\* A step of a reserve() call keeps the lock with the call that holds it.
LEMMA NextLockInv ==
  ASSUME TypeOK, LockInv, [Next]_vars
  PROVE  LockInv'
<1> USE VramReservationAssumption DEF LockInv, ledger
<1>0. NoOne \notin Client /\ lock \in Client \cup {NoOne} /\ FreeVram # NoProbe
  BY FreeVramType, VramUnitsAssumption DEF TypeOK, NoProbe
<1>1. ASSUME UNCHANGED <<pc, lock, probe>> PROVE LockInv'
  BY <1>1 DEF LockHeld, ReadingOwned, ReadingMade
<1>2. ASSUME NEW c \in Client, ReserveMarker(c) \/ Reserve(c) \/ Release(c)
      PROVE  LockInv'
  <2>1. /\ UNCHANGED <<lock, probe>>
        /\ pc[c] \in {"idle", "granted"} /\ pc'[c] \in {"idle", "waiting", "granted"}
        /\ \A d \in Client : d # c => pc'[d] = pc[d]
    BY <1>2 DEF ReserveMarker, Reserve, Release, TypeOK
  <2>2. LockHeld'
    BY <2>1 DEF LockHeld
  <2>3. ReadingOwned' /\ ReadingMade'
    BY <2>1 DEF ReadingOwned, ReadingMade
  <2> QED
    BY <2>2, <2>3
<1>3. ASSUME NEW c \in Client, Acquire(c) PROVE LockInv'
  <2>1. /\ lock = NoOne /\ lock' = c /\ UNCHANGED probe /\ pc'[c] = "probing"
        /\ \A d \in Client : d # c => pc'[d] = pc[d]
    BY <1>3 DEF Acquire, TypeOK
  <2>2. \A d \in Client : pc[d] \notin {"probing", "probed"}
    BY <1>0, <2>1 DEF LockHeld
  <2>3. probe = NoProbe
    BY <2>2 DEF ReadingOwned
  <2>4. LockHeld'
    BY <2>1, <2>2 DEF LockHeld
  <2>5. ReadingOwned' /\ ReadingMade'
    BY <2>1, <2>2, <2>3 DEF ReadingOwned, ReadingMade
  <2> QED
    BY <2>4, <2>5
<1>4. ASSUME NEW c \in Client, ProbeVram(c) PROVE LockInv'
  <2>1. /\ pc[c] = "probing" /\ UNCHANGED lock /\ pc'[c] = "probed"
        /\ \A d \in Client : d # c => pc'[d] = pc[d]
        /\ ~ ProbeMayFail => probe' # NoProbe
    BY <1>0, <1>4 DEF ProbeVram, TypeOK
  <2>2. lock = c
    BY <2>1 DEF LockHeld
  <2>3. LockHeld'
    BY <2>1 DEF LockHeld
  <2>4. ReadingOwned'
    BY <2>1, <2>2 DEF ReadingOwned
  <2>5. ReadingMade'
    BY <2>1 DEF ReadingMade
  <2> QED
    BY <2>3, <2>4, <2>5
<1>5. ASSUME NEW c \in Client, GrantReserve(c) \/ DenyReserve(c) PROVE LockInv'
  <2>1. /\ pc[c] = "probed" /\ lock' = NoOne /\ probe' = NoProbe
        /\ pc'[c] \in {"idle", "granted"}
        /\ \A d \in Client : d # c => pc'[d] = pc[d]
    BY <1>5 DEF GrantReserve, DenyReserve, TypeOK
  <2>2. lock = c
    BY <2>1 DEF LockHeld
  <2>3. \A d \in Client : pc'[d] \notin {"probing", "probed"}
    BY <2>1, <2>2 DEF LockHeld
  <2> QED
    BY <1>0, <2>1, <2>3 DEF LockHeld, ReadingOwned, ReadingMade
<1>6. ASSUME NEW c \in Client, CancelReserve(c) PROVE LockInv'
  <2>1. /\ pc'[c] = "idle"
        /\ \A d \in Client : d # c => pc'[d] = pc[d]
        /\ lock' = IF lock = c THEN NoOne ELSE lock
        /\ probe' = IF lock = c THEN NoProbe ELSE probe
    BY <1>6 DEF CancelReserve, TypeOK
  <2>2. CASE lock = c
    <3>1. \A d \in Client : pc'[d] \notin {"probing", "probed"}
      BY <2>1, <2>2 DEF LockHeld
    <3> QED
      BY <1>0, <2>1, <2>2, <3>1 DEF LockHeld, ReadingOwned, ReadingMade
  <2>3. CASE lock # c
    <3>1. LockHeld' /\ ReadingMade'
      BY <2>1, <2>3 DEF LockHeld, ReadingMade
    <3>2. ReadingOwned'
      BY <2>1, <2>3 DEF ReadingOwned
    <3> QED
      BY <3>1, <3>2
  <2> QED
    BY <2>2, <2>3
<1>7. ASSUME NEW c \in Client,
             \/ Expire(c) \/ SweepPop(c) \/ SweepSubtract(c)
             \/ Load(c) \/ Unload(c)
      PROVE  LockInv'
  BY <1>1, <1>7 DEF Expire, SweepPop, SweepSubtract, Load, Unload
<1>8. CASE SweepStale
  BY <1>1, <1>8 DEF SweepStale
<1>9. CASE UNCHANGED vars
  BY <1>1, <1>9 DEF vars
<1> QED
  BY <1>2, <1>3, <1>4, <1>5, <1>6, <1>7, <1>8, <1>9 DEF Next, Step

LEMMA LockInvariance == Spec => []LockInv
<1>1. Init => LockInv
  BY VramReservationAssumption DEF Init, LockInv, LockHeld, ReadingOwned, ReadingMade
<1>2. TypeOK /\ LockInv /\ [Next]_vars => LockInv'
  BY NextLockInv
<1> QED
  BY <1>1, <1>2, VramTypeCorrect, PTL DEF Spec

\* One reserve() call at a time is between its reading and its check, it
\* holds the lock, and the lock is free otherwise, whatever is cancelled.
THEOREM OneReserveInside == Spec => []LockHeld
<1>1. LockInv => LockHeld
  BY DEF LockInv
<1> QED
  BY <1>1, LockInvariance, PTL

----------------------------------------------------------------------------
(* When the proviso of NoOvercommit is always met *)

\* Nothing leaves the ledger but by release(), and every grant was made on a
\* hardware reading.
NothingSwept == stale = {} /\ inflight = {} /\ unenforced = {}

\* A client that was granted VRAM has a reservation until it releases it, and
\* only such a client has a model in VRAM.
GrantHeld     == \A c \in Client : pc[c] = "granted" /\ Vram[c] > 0
                                       => c \in pending
LoadedByGrant == \A c \in resident : pc[c] = "granted" /\ Vram[c] > 0

Tidy == NothingSwept /\ GrantHeld /\ LoadedByGrant

\* A model does not outlive its reservation when nothing is kept resident,
\* nothing is swept and every grant rests on a reading.
LEMMA NextTidy ==
  ASSUME KeepResident = {}, ~ TtlEnabled, ~ ProbeMayFail,
         TypeOK, LockInv, Tidy, [Next]_vars
  PROVE  Tidy'
<1> USE DEF Tidy, ledger
<1>1. ASSUME UNCHANGED <<pc, pending, stale, inflight, unenforced>>,
             resident' \subseteq resident
      PROVE  Tidy'
  BY <1>1 DEF NothingSwept, GrantHeld, LoadedByGrant
<1>2. ASSUME SweepStaleUnlocked
      PROVE  NothingSwept' /\ pending' = pending
  BY <1>2 DEF SweepStaleUnlocked, NothingSwept
<1>3. ASSUME NEW c \in Client, ReserveMarker(c) PROVE Tidy'
  BY <1>3, VramUnitsAssumption
     DEF ReserveMarker, TypeOK, NothingSwept, GrantHeld, LoadedByGrant
<1>4. ASSUME NEW c \in Client,
             \/ Reserve(c) \/ DenyReserve(c) \/ CancelReserve(c) \/ ProbeVram(c)
      PROVE  Tidy'
  <2>1. /\ UNCHANGED <<pending, stale, inflight, unenforced, resident>>
        /\ pc[c] # "granted" /\ pc'[c] # "granted"
        /\ \A d \in Client : d # c => pc'[d] = pc[d]
    BY <1>4 DEF Reserve, DenyReserve, CancelReserve, ProbeVram, TypeOK
  <2>2. NothingSwept' /\ GrantHeld'
    BY <2>1 DEF NothingSwept, GrantHeld
  <2>3. LoadedByGrant'
    BY <2>1 DEF LoadedByGrant, TypeOK
  <2> QED
    BY <2>2, <2>3
<1>5. ASSUME NEW c \in Client, Acquire(c) PROVE Tidy'
  <2>1. NothingSwept' /\ pending' = pending
    BY <1>2, <1>5 DEF Acquire
  <2>2. /\ pc[c] # "granted" /\ pc'[c] # "granted" /\ UNCHANGED resident
        /\ \A d \in Client : d # c => pc'[d] = pc[d]
    BY <1>5 DEF Acquire, TypeOK
  <2> QED
    BY <2>1, <2>2 DEF GrantHeld, LoadedByGrant, TypeOK
<1>6. ASSUME NEW c \in Client, GrantReserve(c) PROVE Tidy'
  <2>1. probe # NoProbe
    BY <1>6 DEF GrantReserve, LockInv, ReadingMade
  <2>2. NothingSwept' /\ pending' = pending \cup {c} /\ UNCHANGED resident
    BY <1>6, <2>1 DEF GrantReserve, NothingSwept
  <2>3. pc[c] # "granted" /\ \A d \in Client : d # c => pc'[d] = pc[d]
    BY <1>6 DEF GrantReserve, TypeOK
  <2> QED
    BY <2>2, <2>3 DEF GrantHeld, LoadedByGrant, TypeOK
<1>7. ASSUME NEW c \in Client, Release(c) PROVE Tidy'
  <2>1. c \notin resident /\ UNCHANGED resident
    BY <1>7 DEF Release
  <2>2. pc'[c] = "idle" /\ \A d \in Client : d # c => pc'[d] = pc[d]
    BY <1>7 DEF Release, TypeOK
  <2>3. NothingSwept' /\ pending' = pending \ {c}
    BY <1>7 DEF Release, Drop, NothingSwept
  <2> QED
    BY <2>1, <2>2, <2>3 DEF GrantHeld, LoadedByGrant, TypeOK
<1>8. ASSUME NEW c \in Client, Expire(c) \/ SweepPop(c) \/ SweepSubtract(c)
      PROVE  Tidy'
  BY <1>8 DEF Expire, SweepPop, SweepSubtract, NothingSwept
<1>9. ASSUME NEW c \in Client, Load(c) PROVE Tidy'
  BY <1>9 DEF Load, NothingSwept, GrantHeld, LoadedByGrant
<1>10. ASSUME NEW c \in Client, Unload(c) PROVE Tidy'
  BY <1>1, <1>10 DEF Unload
<1>11. CASE SweepStale
  BY <1>11 DEF SweepStale, NothingSwept
<1>12. CASE UNCHANGED vars
  BY <1>1, <1>12 DEF vars
<1> QED
  BY <1>3, <1>4, <1>5, <1>6, <1>7, <1>8, <1>9, <1>10, <1>11, <1>12
     DEF Next, Step

\* What vram_reservation.py says of itself, "prevent TOCTOU races", is true
\* of clients that free their VRAM before they release, with the TTL off and
\* a probe that works: then loads never exceed the GPU.  The run
\* MCVramReservationStale shows that the first condition is needed.
THEOREM LoadsFitWhenFreed ==
  ASSUME KeepResident = {}, ~ TtlEnabled, ~ ProbeMayFail
  PROVE  Spec => []LoadsFit
<1>1. Init => Tidy
  BY DEF Init, Tidy, NothingSwept, GrantHeld, LoadedByGrant
<1>2. TypeOK /\ LockInv /\ Tidy /\ [Next]_vars => Tidy'
  BY NextTidy
<1>3. TypeOK /\ Tidy /\ NoOvercommit => LoadsFit
  <2> SUFFICES ASSUME TypeOK, Tidy, NoOvercommit PROVE LoadsFit
    OBVIOUS
  <2>1. resident \subseteq Holders \ unenforced
    BY DEF TypeOK, Tidy, NothingSwept, GrantHeld, LoadedByGrant, Holders
  <2> QED
    BY <2>1 DEF NoOvercommit, LoadsFit
<1> QED
  BY <1>1, <1>2, <1>3, VramTypeCorrect, LockInvariance, ReservedLoadsFit, PTL
     DEF Spec

----------------------------------------------------------------------------
(* What the abstract ledger is worth *)

\* VramLedger alone keeps the promises it makes on a reading within the GPU,
\* so whatever implements it does: the check of one grant against the sum of
\* the others is enough, with no word about locks, probes or counters.
THEOREM LedgerKeepsPromises == LedgerSpec => []PromisesFit
<1> DEFINE LInv == Holders \subseteq Client /\ PromisesFit
<1>1. Ledger!Init => LInv
  <2> SUFFICES ASSUME Ledger!Init PROVE LInv
    OBVIOUS
  <2>1. Holders = {} /\ Holders \ unenforced = {}
    BY DEF Ledger!Init
  <2> QED
    BY <2>1, SumEmpty, VramUnitsAssumption DEF PromisesFit
<1>2. LInv /\ [Ledger!Next]_(Ledger!vars) => LInv'
  <2> SUFFICES ASSUME LInv, [Ledger!Next]_(Ledger!vars) PROVE LInv'
    OBVIOUS
  <2>1. ASSUME (Holders \ unenforced)' \subseteq Holders \ unenforced
        PROVE  PromisesFit'
    <3>1. SumVram((Holders \ unenforced)') <= SumVram(Holders \ unenforced)
      BY <2>1, SumMonotone
    <3>2. /\ SumVram((Holders \ unenforced)') \in Nat
          /\ SumVram(Holders \ unenforced) \in Nat
      BY <2>1, CellsFinite
    <3> QED
      BY <3>1, <3>2, VramUnitsAssumption DEF PromisesFit
  <2>2. ASSUME NEW c \in Client, Ledger!Grant(c) PROVE LInv'
    <3>1. Holders' = Holders \cup {c} /\ c \notin Holders
      BY <2>2 DEF Ledger!Grant
    <3>2. SumVram(Holders \cup {c}) = SumVram(Holders) + Vram[c]
      BY <3>1, SumAdd
    <3>3. SumVram(Holders') <= Total
      BY <2>2, <3>1, <3>2 DEF Ledger!Grant
    <3>4. SumVram(Holders' \ unenforced') <= SumVram(Holders')
      BY <3>1, SumMonotone
    <3>5. SumVram(Holders') \in Nat /\ SumVram(Holders' \ unenforced') \in Nat
      BY <3>1, CellsFinite
    <3> QED
      BY <3>1, <3>3, <3>4, <3>5, VramUnitsAssumption DEF PromisesFit
  <2>3. ASSUME NEW c \in Client, Ledger!Admit(c) PROVE LInv'
    BY <2>1, <2>3 DEF Ledger!Admit
  <2>4. ASSUME NEW S \in SUBSET Client, Ledger!Drop(S) PROVE LInv'
    BY <2>1, <2>4 DEF Ledger!Drop
  <2>5. CASE UNCHANGED Ledger!vars
    BY <2>1, <2>5 DEF Ledger!vars
  <2> QED
    BY <2>2, <2>3, <2>4, <2>5 DEF Ledger!Next
<1>3. LInv => PromisesFit
  OBVIOUS
<1> QED
  BY <1>1, <1>2, <1>3, PTL DEF LedgerSpec, Ledger!Spec
=============================================================================
