---------------------------- MODULE MCOnboarding ----------------------------
(* A small instance of Onboarding for TLC. *)
EXTENDS Onboarding, TLC

CONSTANTS i1, p1, p2, a1, r1, r2, x0, x1, x2

\* Two forms of one handle.
MCHandles == <<"h", "h-2">>

\* A suspended agent with the same handle.
MCAgents == x0 :> "h"

\* Both redeemers have the PIN of the one invite.
MCLink == (p1 :> i1) @@ (p2 :> i1)

\* Admins bring agents back.
MCLifecycle == {<<"suspended", "active">>}

\* Approved at once for a project, and by consent without one.
MCKinds == {[auto |-> b, project |-> b] : b \in BOOLEAN}

MCSymmetry == Permutations({p1, p2}) \cup Permutations({r1, r2})
                \cup Permutations({x1, x2})
=============================================================================
