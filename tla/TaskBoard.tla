----------------------------- MODULE TaskBoard ------------------------------
(***************************************************************************)
(* projects/task_store.py: the cards of one project board, who works on    *)
(* them, and which block which; with the task routes of                    *)
(* routes/projects.py.                                                     *)
(*                                                                         *)
(* Every operation is one guarded UPDATE, so each is one action.  What     *)
(* follows it in the handler (the event, the strikes of the card, the      *)
(* audit row) changes no card; BeadsBridge adds the parts that matter      *)
(* outside the board.  A session of the project's owner may act for any    *)
(* agent (_resolve_actor), so the agent of an action is the one named in   *)
(* the request.  An operation whose guard fails answers 409 and changes    *)
(* nothing.  Titles, labels, parents and comments are left out.            *)
(***************************************************************************)
EXTENDS Naturals, FiniteSets

CONSTANTS Card, Agent,
          Edges   \* the pairs <<from, to>> that may be put in a relationship

None == "none"

ASSUME BoardAssumption == /\ None \notin Agent
                          /\ Edges \subseteq Card \X Card

CardStatus == {"open", "claimed", "closed", "quarantined", "cancelled"}
Absent     == "absent"   \* no such row yet
Finished   == {"closed", "cancelled"}

VARIABLES
    card,      \* card[c]: the status column, or Absent
    claimer,   \* claimed_by
    blocks,    \* rows of task_relationships with kind 'blocks'
    patched    \* history: cards an owner's PATCH made "claimed"

boardVars == <<card, claimer, blocks, patched>>

BoardInit == /\ card = [c \in Card |-> Absent]
             /\ claimer = [c \in Card |-> None]
             /\ blocks = {} /\ patched = {}

\* The row of c gets a status and a claimer.
Put(c, s, a) == /\ card' = [card EXCEPT ![c] = s]
                /\ claimer' = [claimer EXCEPT ![c] = a]
                /\ patched' = patched \ {c}
                /\ UNCHANGED blocks

CreateTask(c) == card[c] = Absent /\ Put(c, "open", None)

\* Mutant: the claim looks at the card only.
ClaimTaskUnguarded(c, a) == card[c] = "open" /\ claimer[c] = None
                            /\ Put(c, "claimed", a)

\* An agent finishes or releases a card before it claims another.
ClaimTask(c, a) == /\ card[c] = "open" /\ claimer[c] = None
                   /\ \A h \in Card : ~ (claimer[h] = a /\ card[h] = "claimed")
                   /\ Put(c, "claimed", a)

ReleaseTask(c, a) == /\ card[c] = "claimed" /\ claimer[c] = a
                     /\ Put(c, "open", None)

\* The lead, the owner and an admin close any card (force); the claimer
\* stays in the row.
CloseTask(c, a, force) == /\ card[c] \notin Finished \cup {Absent}
                          /\ force \/ claimer[c] \in {None, a}
                          /\ Put(c, "closed", claimer[c])

ReopenTask(c) == card[c] = "closed" /\ Put(c, "open", None)

\* The claimer stays in the row here, too.
QuarantineTask(c) == /\ card[c] \notin Finished \cup {"quarantined", Absent}
                     /\ Put(c, "quarantined", claimer[c])

\* Mutant: the card comes back with the claimer it had.
UnquarantineTaskKeepsClaimer(c) == /\ card[c] = "quarantined"
                                   /\ Put(c, "open", claimer[c])

UnquarantineTask(c) == card[c] = "quarantined" /\ Put(c, "open", None)

\* update_task with a status: whatever the owner writes, without a look at
\* the card; only "open" clears the claimer.
PatchStatus(c, s) ==
    /\ card[c] # Absent
    /\ card' = [card EXCEPT ![c] = s]
    /\ claimer' = [claimer EXCEPT ![c] = IF s = "open" THEN None ELSE @]
    /\ patched' = IF s = "claimed" THEN patched \cup {c} ELSE patched \ {c}
    /\ UNCHANGED blocks

\* add_relationship: both cards exist; no check for cycles.
AddBlocks(e) == /\ e \in Edges \ blocks
                /\ card[e[1]] # Absent /\ card[e[2]] # Absent
                /\ blocks' = blocks \cup {e}
                /\ UNCHANGED <<card, claimer, patched>>

\* The view ready_tasks: <<from, to>> makes "from" wait for "to".
Ready == {c \in Card : /\ card[c] = "open" /\ claimer[c] = None
                       /\ \A d \in Card : <<c, d>> \in blocks =>
                                             card[d] \in Finished}

----------------------------------------------------------------------------
(* Properties *)

BoardTypeOK == /\ card \in [Card -> CardStatus \cup {Absent}]
               /\ claimer \in [Card -> Agent \cup {None}]
               /\ blocks \subseteq Edges
               /\ patched \subseteq Card

\* An agent has at most one card in work, however claims, quarantines,
\* re-openings and releases are mixed ("Flow protection", claim_task); only
\* an owner who writes the status "claimed" himself can give it a second.
OneClaimPerAgent ==
    \A c, d \in Card \ patched :
        card[c] = "claimed" /\ card[d] = "claimed"
        /\ claimer[c] = claimer[d] => c = d

\* A card in the open pool can be claimed: no way back to "open" leaves the
\* claimer of an earlier attempt in the row, where claim_task would refuse
\* everybody for ever.
OpenIsClaimable == \A c \in Card : card[c] = "open" => claimer[c] = None
=============================================================================
