----------------------------- MODULE VramUnits -----------------------------
(***************************************************************************)
(* What the VRAM ledger counts.  Every client of the ledger (a model pull, *)
(* a GPU task) asks for a fixed number of units (MiB in the code, a few    *)
(* units in the models) out of a GPU that has Total of them.               *)
(*                                                                         *)
(* The sum of a set of requests is written as the number of unit cells the *)
(* set occupies, so that the library's cardinality theorems reason about   *)
(* it without induction.                                                   *)
(***************************************************************************)
EXTENDS Integers, FiniteSets

CONSTANTS Client,   \* the callers that reserve VRAM
          Vram,     \* Vram[c]: vram_mb of c's request; 0 is the no-op marker
          Total     \* total_mb of the GPU the probe reads

ASSUME VramUnitsAssumption == /\ IsFiniteSet(Client)
                              /\ Vram \in [Client -> Nat]
                              /\ Total \in Nat

\* The cells of a set of clients, Vram[c] of them for each c.
CellsOf(c) == {c} \X (1 .. Vram[c])
Cells(S)   == UNION {CellsOf(c) : c \in S}

\* The VRAM a set of clients asks for, added up.
SumVram(S) == Cardinality(Cells(S))
=============================================================================
