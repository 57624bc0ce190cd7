------------------------- MODULE MCVramReservation -------------------------
(* Small instances of VramReservation for TLC. *)
EXTENDS VramReservation, TLC

CONSTANTS a, b, c, z

\* Any two of a, b, c can exceed the GPU, b and c just fit; z asks for nothing.
MCClient == {a, b, c, z}
MCVram   == (a :> 3) @@ (b :> 2) @@ (c :> 1) @@ (z :> 0)
MCTwo    == {a, b}
MCVram2  == (a :> 3) @@ (b :> 2)
=============================================================================
