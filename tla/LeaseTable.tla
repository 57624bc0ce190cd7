----------------------------- MODULE LeaseTable -----------------------------
(***************************************************************************)
(* What a holder of GPU leases may rely on: a resource has at most one     *)
(* valid lease, a lease is granted only on a resource that has none, and a *)
(* resource never passes from one lease to another without being free in   *)
(* between, so the new holder cannot be surprised by the old one.  Leases  *)
(* may be lost at any time, many at once: by expiry, release, a drain, a   *)
(* worker's departure or the end of the service.                           *)
(***************************************************************************)
CONSTANTS Resource, Lease,
          On,   \* On[l]: the resource of the lease l
          Free  \* the value of holder for a resource without a valid lease

VARIABLE holder  \* holder[r]: the lease that is valid on r

Init == holder = [r \in Resource |-> Free]

Grant(l) == /\ holder[On[l]] = Free
            /\ holder' = [holder EXCEPT ![On[l]] = l]

Lose(R) == holder' = [r \in Resource |-> IF r \in R THEN Free ELSE holder[r]]

Next == \/ \E l \in Lease : Grant(l)
        \/ \E R \in SUBSET Resource : Lose(R)

Spec == Init /\ [][Next]_holder
=============================================================================
