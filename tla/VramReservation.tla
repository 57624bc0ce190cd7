-------------------------- MODULE VramReservation --------------------------
(***************************************************************************)
(* tinyagentos/vram_reservation.py: the check-and-reserve ledger that      *)
(* model pulls (routes/models.py) and the GPU arbiter share, together with *)
(* the GPU memory its clients really occupy.                               *)
(*                                                                         *)
(* reserve() is a coroutine.  It holds the manager's asyncio.Lock over the *)
(* hardware probe, which runs in a worker thread, so other coroutines run  *)
(* between the reading and the check that uses it: reading and check are   *)
(* two actions.  release() is a plain function that takes no lock.  The    *)
(* TTL sweep runs on the event loop and also, when the arbiter calls       *)
(* available_vram() through asyncio.to_thread, in a worker thread; there   *)
(* the interpreter may switch threads between the pop of a reservation and *)
(* the subtraction, so that sweep is two actions.                          *)
(*                                                                         *)
(* Time is abstracted to the fact the code tells apart: a reservation is   *)
(* older than the TTL (it is in stale) or it is not.                       *)
(***************************************************************************)
EXTENDS VramUnits

CONSTANTS KeepResident, \* clients whose model stays in VRAM when they release
          TtlEnabled,   \* ttl_seconds > 0
          ProbeMayFail  \* nvidia-smi may be missing or fail

NoOne   == "no one"
NoProbe == -1

ASSUME VramReservationAssumption == /\ KeepResident \subseteq Client
                                    /\ TtlEnabled \in BOOLEAN
                                    /\ ProbeMayFail \in BOOLEAN
                                    /\ NoOne \notin Client

VARIABLES
    pc,         \* where the client's reserve() call, or its use of it, is
    lock,       \* holder of _lock, or NoOne
    probe,      \* the reading the lock holder is about to use
    reserved,   \* _reserved_vram_mb
    pending,    \* keys of _pending, one reservation a client at a time
    stale,      \* those of them older than the TTL
    inflight,   \* popped by a sweep in a worker thread, not subtracted yet
    unenforced, \* history: reservations granted without a reading
    resident    \* clients whose model occupies GPU memory

ledger == <<reserved, pending, stale, inflight, unenforced>>
vars   == <<pc, lock, probe, reserved, pending, stale, inflight, unenforced,
            resident>>

----------------------------------------------------------------------------
Max0(x) == IF x < 0 THEN 0 ELSE x

\* free_mb: total less what is physically used, never negative.
FreeVram == Max0(Total - SumVram(resident))

Init == /\ pc = [c \in Client |-> "idle"]
        /\ lock = NoOne
        /\ probe = NoProbe
        /\ reserved = 0
        /\ pending = {} /\ stale = {} /\ inflight = {} /\ unenforced = {}
        /\ resident = {}

----------------------------------------------------------------------------
(* reserve() *)

\* A request for no VRAM is answered at once: no lock, no probe, no entry.
ReserveMarker(c) == /\ pc[c] = "idle" /\ Vram[c] = 0
                    /\ pc' = [pc EXCEPT ![c] = "granted"]
                    /\ UNCHANGED <<lock, probe, ledger, resident>>

\* Any other request asks for the lock.
Reserve(c) == /\ pc[c] = "idle" /\ Vram[c] > 0
              /\ c \notin pending \cup inflight
              /\ pc' = [pc EXCEPT ![c] = "waiting"]
              /\ UNCHANGED <<lock, probe, ledger, resident>>

\* The stale reservations leave the ledger, each with its VRAM.
SweepStaleUnlocked == /\ pending' = pending \ stale
                      /\ reserved' = reserved - SumVram(stale)
                      /\ stale' = {}
                      /\ unenforced' = unenforced \ stale
                      /\ UNCHANGED inflight

\* With the lock: sweep, then hand the probe to a worker thread.
Acquire(c) == /\ pc[c] = "waiting" /\ lock = NoOne
              /\ lock' = c
              /\ pc' = [pc EXCEPT ![c] = "probing"]
              /\ SweepStaleUnlocked
              /\ UNCHANGED <<probe, resident>>

\* The worker thread reads the hardware, or fails to.
ProbeVram(c) == /\ pc[c] = "probing"
                /\ pc' = [pc EXCEPT ![c] = "probed"]
                /\ probe' \in {FreeVram} \cup
                              (IF ProbeMayFail THEN {NoProbe} ELSE {})
                /\ UNCHANGED <<lock, ledger, resident>>

\* Mutants: the check forgets what is promised to others; it is off by one.
FitsProbeOnly(c) == probe >= Vram[c]
FitsOffByOne(c)  == Max0(probe - reserved) + 1 >= Vram[c]

Fits(c) == Max0(probe - reserved) >= Vram[c]

\* Back on the event loop: admit, fail open, or refuse; the lock is freed.
GrantReserve(c) == /\ pc[c] = "probed"
                   /\ probe = NoProbe \/ Fits(c)
                   /\ pc' = [pc EXCEPT ![c] = "granted"]
                   /\ reserved' = reserved + Vram[c]
                   /\ pending' = pending \cup {c}
                   /\ unenforced' = IF probe = NoProbe
                                    THEN unenforced \cup {c} ELSE unenforced
                   /\ lock' = NoOne /\ probe' = NoProbe
                   /\ UNCHANGED <<stale, inflight, resident>>

DenyReserve(c) == /\ pc[c] = "probed"
                  /\ probe # NoProbe /\ ~ Fits(c)
                  /\ pc' = [pc EXCEPT ![c] = "idle"]
                  /\ lock' = NoOne /\ probe' = NoProbe
                  /\ UNCHANGED <<ledger, resident>>

\* Mutant: a cancelled call leaves the lock behind.
CancelReserveKeepsLock(c) == /\ pc[c] \in {"waiting", "probing", "probed"}
                             /\ pc' = [pc EXCEPT ![c] = "idle"]
                             /\ UNCHANGED <<lock, probe, ledger, resident>>

\* The caller's task is cancelled in one of reserve()'s awaits; async with
\* frees the lock and the reading of the abandoned thread is lost.
CancelReserve(c) == /\ pc[c] \in {"waiting", "probing", "probed"}
                    /\ pc' = [pc EXCEPT ![c] = "idle"]
                    /\ lock' = IF lock = c THEN NoOne ELSE lock
                    /\ probe' = IF lock = c THEN NoProbe ELSE probe
                    /\ UNCHANGED <<ledger, resident>>

----------------------------------------------------------------------------
(* release() and the sweeps *)

\* Mutant: release() subtracts without asking whether it popped anything.
DropTwice(c) == /\ pending' = pending \ {c}
                /\ reserved' = reserved - Vram[c]
                /\ stale' = stale \ {c}
                /\ unenforced' = unenforced \ {c}
                /\ UNCHANGED inflight

\* release() takes no lock and knows nothing of a reservation swept before.
Drop(c) == IF c \in pending
           THEN /\ pending' = pending \ {c}
                /\ reserved' = reserved - Vram[c]
                /\ stale' = stale \ {c}
                /\ unenforced' = unenforced \ {c}
                /\ UNCHANGED inflight
           ELSE UNCHANGED ledger

\* A caller releases in a finally block.  Its model is out of VRAM by then,
\* or is one that its backend keeps loaded.
Release(c) == /\ pc[c] = "granted"
              /\ c \in KeepResident \/ c \notin resident
              /\ pc' = [pc EXCEPT ![c] = "idle"]
              /\ Drop(c)
              /\ UNCHANGED <<lock, probe, resident>>

\* The TTL of a reservation runs out.
Expire(c) == /\ TtlEnabled
             /\ c \in pending \ stale
             /\ stale' = stale \cup {c}
             /\ UNCHANGED <<pc, lock, probe, reserved, pending, inflight,
                            unenforced, resident>>

\* sweep_stale(), stats() and available_vram() on the event loop.
SweepStale == /\ stale # {}
              /\ SweepStaleUnlocked
              /\ UNCHANGED <<pc, lock, probe, resident>>

\* The same sweep in a worker thread: the pop, and later the subtraction.
SweepPop(c) == /\ c \in stale
               /\ pending' = pending \ {c}
               /\ stale' = stale \ {c}
               /\ inflight' = inflight \cup {c}
               /\ UNCHANGED <<pc, lock, probe, reserved, unenforced, resident>>

SweepSubtract(c) == /\ c \in inflight
                    /\ inflight' = inflight \ {c}
                    /\ reserved' = reserved - Vram[c]
                    /\ unenforced' = unenforced \ {c}
                    /\ UNCHANGED <<pc, lock, probe, pending, stale, resident>>

----------------------------------------------------------------------------
(* The GPU memory the reservations are about *)

\* A client that holds a grant brings its model into VRAM ...
Load(c) == /\ pc[c] = "granted" /\ c \notin resident /\ Vram[c] > 0
           /\ resident' = resident \cup {c}
           /\ UNCHANGED <<pc, lock, probe, ledger>>

\* ... and takes it out, or a backend unloads what it kept.
Unload(c) == /\ c \in resident
             /\ resident' = resident \ {c}
             /\ UNCHANGED <<pc, lock, probe, ledger>>

----------------------------------------------------------------------------
Step(c) == \/ ReserveMarker(c) \/ Reserve(c) \/ Acquire(c) \/ ProbeVram(c)
           \/ GrantReserve(c) \/ DenyReserve(c) \/ CancelReserve(c)
           \/ Release(c) \/ Expire(c) \/ SweepPop(c) \/ SweepSubtract(c)
           \/ Load(c) \/ Unload(c)

Next == SweepStale \/ \E c \in Client : Step(c)

\* asyncio.Lock wakes its waiters in arrival order (strong fairness of
\* Acquire); the probe has a timeout and the event loop runs what is ready.
Fairness == \A c \in Client : /\ SF_vars(Acquire(c))
                              /\ WF_vars(ProbeVram(c))
                              /\ WF_vars(GrantReserve(c) \/ DenyReserve(c))

Spec     == Init /\ [][Next]_vars
FairSpec == Spec /\ Fairness

----------------------------------------------------------------------------
(* Properties *)

TypeOK == /\ pc \in [Client -> {"idle", "waiting", "probing", "probed",
                                "granted"}]
          /\ lock \in Client \cup {NoOne}
          /\ probe \in {NoProbe} \cup (0 .. Total)
          /\ reserved \in Int
          /\ pending \subseteq Client /\ stale \subseteq pending
          /\ inflight \subseteq Client
          /\ unenforced \subseteq pending \cup inflight
          /\ resident \subseteq Client

Holders == pending \cup inflight

\* The running counter _reserved_vram_mb is the sum of the reservations it
\* stands for, through every interleaving of grants, releases of reservations
\* that a sweep took first, and sweeps in worker threads.  (The clamp of a
\* negative counter at the end of _sweep_stale_unlocked is never needed.)
LedgerExact == reserved = SumVram(Holders)

\* While every model in VRAM belongs to a reservation granted on a hardware
\* reading, the models fit the GPU: concurrent loads that both pass reserve()
\* never exceed it, however old the reading each of them was admitted on.
NoOvercommit == resident \subseteq Holders \ unenforced
                    => SumVram(resident) <= Total

\* What the module says of itself, without that proviso: a client that loads
\* under a grant never exceeds the GPU ("prevent TOCTOU races", "atomically
\* check available VRAM and reserve").
LoadsFit == SumVram(resident) <= Total

\* reserve() answers: no call waits for the lock for ever.
ReserveAnswered == \A c \in Client :
                       pc[c] = "waiting" ~> pc[c] \in {"granted", "idle"}

\* The lock-and-probe protocol implements the one-step ledger.
Ledger == INSTANCE VramLedger WITH held <- Holders, unenforced <- unenforced
LedgerSpec == Ledger!Spec
=============================================================================
