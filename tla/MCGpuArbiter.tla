---------------------------- MODULE MCGpuArbiter ----------------------------
(* Small instances of GpuArbiter for TLC. *)
EXTENDS GpuArbiter, TLC

CONSTANTS a, b, c

\* An urgent task and a background one, with a lease, that do not fit
\* together, and one that needs no VRAM.
MCTasks == {a, b, c}
MCVram  == (a :> 2) @@ (b :> 2) @@ (c :> 0)
MCPri   == (a :> 0) @@ (b :> 1) @@ (c :> 2)

\* Three tasks that exclude each other, for the queue at its limit.
MCVramEqual == [t \in MCTasks |-> 2]
MCPriEqual  == (a :> 0) @@ (b :> 1) @@ (c :> 1)
=============================================================================
