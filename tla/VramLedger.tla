----------------------------- MODULE VramLedger -----------------------------
(***************************************************************************)
(* What the VRAM ledger promises its clients: capacity is handed out in    *)
(* one indivisible check-and-reserve, the capacity promised on the         *)
(* strength of a hardware reading never exceeds the GPU, and a promise     *)
(* ends when it is dropped.  A grant made while the hardware cannot be     *)
(* read is outside that bound: the ledger fails open and only records it.  *)
(***************************************************************************)
EXTENDS Integers

CONSTANTS Client, Vram, Total, \* as in VramUnits
          SumVram(_)            \* what a set of clients asks for

VARIABLES held,        \* clients whose reservation is on the ledger
          unenforced   \* those of them granted without a hardware reading

vars == <<held, unenforced>>

Init == held = {} /\ unenforced = {}

\* An enforced grant: what is promised already, plus this, fits the GPU.
Grant(c) == /\ c \notin held
            /\ SumVram(held) + Vram[c] <= Total
            /\ held' = held \cup {c}
            /\ UNCHANGED unenforced

\* A fail-open grant: recorded, never refused.
Admit(c) == /\ c \notin held
            /\ held' = held \cup {c}
            /\ unenforced' = unenforced \cup {c}

\* Released by its owner, or reclaimed by the TTL sweep.
Drop(S) == /\ S # {}
           /\ S \subseteq held
           /\ held' = held \ S
           /\ unenforced' = unenforced \ S

Next == \/ \E c \in Client : Grant(c) \/ Admit(c)
        \/ \E S \in SUBSET Client : Drop(S)

Spec == Init /\ [][Next]_vars
=============================================================================
