----------------------------- MODULE MCJobQueue -----------------------------
(* A small instance of JobQueue for TLC. *)
EXTENDS JobQueue, TLC

CONSTANTS j1, j2, w1, w2

\* Two jobs for one GPU, a background one and an urgent one, and two workers.
MCNeeds   == (j1 :> "gpu") @@ (j2 :> "gpu")
MCUrgency == (j1 :> 0) @@ (j2 :> 2)
MCAccepts == (w1 :> {"gpu"}) @@ (w2 :> {"gpu"})

MCDefault == [cpu |-> 2, gpu |-> 1, npu |-> 3, embed |-> 1]
MCProbed  == [cpu |-> 2, gpu |-> 1, npu |-> 2, embed |-> 1]
=============================================================================
