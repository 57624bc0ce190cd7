------------------------- MODULE BeadsBridgeProofs --------------------------
(***************************************************************************)
(* Theorems about the task board and its mirror, for every set of cards    *)
(* and agents and every set of blocking relationships.                     *)
(***************************************************************************)
EXTENDS BeadsBridge, TLAPS

----------------------------------------------------------------------------
(* The board *)

BoardInv == BoardTypeOK /\ OneClaimPerAgent /\ OpenIsClaimable

\* Every operation on a card, of a route, a chat command or the host.
CardOp(c) == \/ RouteOp(c) \/ QuarantineTask(c)
             \/ \E a \in Agent, force \in BOOLEAN : CloseTask(c, a, force)

LEMMA BoardInitInv == BoardInit => BoardInv
BY BoardAssumption DEF BoardInit, BoardInv, BoardTypeOK, OneClaimPerAgent,
   OpenIsClaimable, Absent

\* A step that gives the card c the status s and the claimer a.
LEMMA PutInv ==
  ASSUME BoardInv, NEW c \in Card, NEW s \in CardStatus,
         NEW a \in Agent \cup {None}, Put(c, s, a),
         s = "open" => a = None,
         s = "claimed" => \A h \in Card : ~ (claimer[h] = a /\ card[h] = "claimed")
  PROVE  BoardInv'
<1>1. /\ card \in [Card -> CardStatus \cup {Absent}]
      /\ claimer \in [Card -> Agent \cup {None}]
      /\ patched \subseteq Card /\ blocks \subseteq Edges
  BY DEF BoardInv, BoardTypeOK
<1>2. /\ card' = [card EXCEPT ![c] = s] /\ claimer' = [claimer EXCEPT ![c] = a]
      /\ patched' = patched \ {c} /\ blocks' = blocks
  BY DEF Put
<1>3. BoardTypeOK'
  BY <1>1, <1>2 DEF BoardTypeOK
<1>4. \A d \in Card : /\ card'[d] = IF d = c THEN s ELSE card[d]
                      /\ claimer'[d] = IF d = c THEN a ELSE claimer[d]
  BY <1>1, <1>2
<1>5. OneClaimPerAgent'
  BY <1>2, <1>4 DEF OneClaimPerAgent, BoardInv
<1>6. OpenIsClaimable'
  BY <1>4 DEF OpenIsClaimable, BoardInv
<1> QED
  BY <1>3, <1>5, <1>6 DEF BoardInv

LEMMA PatchInv ==
  ASSUME BoardInv, NEW c \in Card, NEW s \in CardStatus, PatchStatus(c, s)
  PROVE  BoardInv'
<1>1. /\ card \in [Card -> CardStatus \cup {Absent}]
      /\ claimer \in [Card -> Agent \cup {None}]
      /\ patched \subseteq Card /\ blocks \subseteq Edges
  BY DEF BoardInv, BoardTypeOK
<1>2. \A d \in Card :
        /\ card'[d] = IF d = c THEN s ELSE card[d]
        /\ claimer'[d] = IF d = c /\ s = "open" THEN None ELSE claimer[d]
  BY <1>1 DEF PatchStatus
<1>3. BoardTypeOK'
  BY <1>1 DEF PatchStatus, BoardTypeOK
<1>4. OneClaimPerAgent'
  <2>1. CASE s = "claimed"
    <3>1. patched' = patched \cup {c}
      BY <2>1 DEF PatchStatus
    <3> QED
      BY <1>2, <2>1, <3>1 DEF OneClaimPerAgent, BoardInv
  <2>2. CASE s # "claimed"
    <3>1. patched' = patched \ {c}
      BY <2>2 DEF PatchStatus
    <3> QED
      BY <1>2, <2>2, <3>1 DEF OneClaimPerAgent, BoardInv
  <2> QED
    BY <2>1, <2>2
<1>5. OpenIsClaimable'
  BY <1>2 DEF OpenIsClaimable, BoardInv
<1> QED
  BY <1>3, <1>4, <1>5 DEF BoardInv

LEMMA CardOpInv ==
  ASSUME BoardInv, NEW c \in Card, CardOp(c)
  PROVE  BoardInv'
<1>1. /\ claimer[c] \in Agent \cup {None}
      /\ card[c] = "open" => claimer[c] = None
  BY DEF BoardInv, BoardTypeOK, OpenIsClaimable
<1>2. CASE CreateTask(c) \/ ReopenTask(c) \/ UnquarantineTask(c)
  BY <1>2, PutInv DEF CreateTask, ReopenTask, UnquarantineTask, CardStatus
<1>3. ASSUME NEW a \in Agent, ClaimTask(c, a) PROVE BoardInv'
  BY <1>3, PutInv DEF ClaimTask, CardStatus
<1>4. ASSUME NEW a \in Agent, ReleaseTask(c, a) PROVE BoardInv'
  BY <1>4, PutInv DEF ReleaseTask, CardStatus
<1>5. ASSUME NEW a \in Agent, NEW f \in BOOLEAN, CloseTask(c, a, f)
      PROVE  BoardInv'
  BY <1>1, <1>5, PutInv DEF CloseTask, CardStatus
<1>6. CASE QuarantineTask(c)
  BY <1>1, <1>6, PutInv DEF QuarantineTask, CardStatus
<1>7. ASSUME NEW s \in CardStatus, PatchStatus(c, s) PROVE BoardInv'
  BY <1>7, PatchInv
<1>8. ASSUME NEW d \in Card, AddBlocks(<<c, d>>) PROVE BoardInv'
  BY <1>8 DEF AddBlocks, BoardInv, BoardTypeOK, OneClaimPerAgent,
     OpenIsClaimable
<1> QED
  BY <1>2, <1>3, <1>4, <1>5, <1>6, <1>7, <1>8 DEF CardOp, RouteOp, StoreOp

\* What the bridge does to the board: nothing, or an operation on a card.
LEMMA BridgeStepsBoard ==
  ASSUME [Next]_vars
  PROVE  UNCHANGED boardVars \/ \E c \in Card : CardOp(c)
<1>1. CASE Change
  BY <1>1 DEF Change, RouteChange, RouteClose, OtherChange, OtherClose,
     CardOp, RouteOp
<1>2. CASE \/ MarkDirty \/ WriterTakes \/ ExportNow \/ Restart
           \/ (\E r \in Renderer : Render(r)) \/ \E c \in Card : OnClosed(c)
  BY <1>2 DEF MarkDirty, WriterTakes, ExportNow, Restart, Render, Lock,
     ReadBoard, ReplaceFile, RenderFails, OnClosed
<1>3. CASE UNCHANGED vars
  BY <1>3 DEF vars
<1> QED
  BY <1>1, <1>2, <1>3 DEF Next

LEMMA BoardInvariant == Spec => []BoardInv
<1>1. Init => BoardInv
  BY BoardInitInv DEF Init
<1>2. BoardInv /\ [Next]_vars => BoardInv'
  <2> SUFFICES ASSUME BoardInv, [Next]_vars PROVE BoardInv'
    OBVIOUS
  <2>1. CASE UNCHANGED boardVars
    BY <2>1 DEF boardVars, BoardInv, BoardTypeOK, OneClaimPerAgent,
       OpenIsClaimable
  <2>2. CASE \E c \in Card : CardOp(c)
    BY <2>2, CardOpInv
  <2> QED
    BY <2>1, <2>2, BridgeStepsBoard
<1> QED
  BY <1>1, <1>2, PTL DEF Spec

\* One card in work per agent, whatever mix of claims, releases, closings,
\* quarantines and re-openings; an owner who writes "claimed" is the
\* exception.
THEOREM AgentsHoldOneCard == Spec => []OneClaimPerAgent
<1>1. BoardInv => OneClaimPerAgent
  BY DEF BoardInv
<1> QED
  BY <1>1, BoardInvariant, PTL

\* Whatever way a card comes back to the open pool, it can be claimed.
THEOREM OpenCardsClaimable == Spec => []OpenIsClaimable
<1>1. BoardInv => OpenIsClaimable
  BY DEF BoardInv
<1> QED
  BY <1>1, BoardInvariant, PTL

----------------------------------------------------------------------------
(* The mirror *)

\* A change that a rendering has missed is due again, or the writer, who may
\* not go on while an export holds the lock, has yet to read the board.
SnapCovered ==
    \A r \in Renderer :
        "route" \in snap[r] =>
            /\ rpc[r] = "read"
            /\ dirty \/ marking \/ (r = "export" /\ rpc["writer"] = "lock")

BridgeTypeOK == /\ marking \in BOOLEAN /\ dirty \in BOOLEAN
                /\ missing \subseteq {"route", "other"}
                /\ rpc \in [Renderer -> {"idle", "lock", "locked", "read"}]
                /\ snap \in [Renderer -> SUBSET {"route", "other"}]
                /\ events \subseteq Card
                /\ ~ (Holds("writer") /\ Holds("export"))

MirrorInv == BridgeTypeOK /\ SnapCovered /\ NoLostExport

LEMMA MirrorInit == Init => MirrorInv
BY DEF Init, MirrorInv, BridgeTypeOK, Holds, SnapCovered, NoLostExport,
   Renderer

LEMMA MirrorNext == MirrorInv /\ [Next]_vars => MirrorInv'
<1> SUFFICES ASSUME MirrorInv, [Next]_vars PROVE MirrorInv'
  OBVIOUS
<1> USE DEF MirrorInv
<1>0. /\ "writer" \in Renderer /\ "export" \in Renderer
      /\ \A r \in Renderer : r = "writer" \/ r = "export"
  BY DEF Renderer
<1>1. ASSUME NEW via \in {"route", "other"}, Touch(via),
             marking' \in BOOLEAN, marking => marking',
             via = "route" => marking', events' \subseteq Card
      PROVE  MirrorInv'
  <2>1. /\ \A r \in Renderer : snap'[r] = IF rpc[r] = "read"
                                          THEN snap[r] \cup {via} ELSE {}
        /\ snap' \in [Renderer -> SUBSET {"route", "other"}]
        /\ missing' = missing \cup {via} /\ UNCHANGED <<dirty, rpc>>
    BY <1>1 DEF Touch, BridgeTypeOK
  <2>2. BridgeTypeOK'
    BY <1>1, <2>1 DEF BridgeTypeOK, Holds
  <2>3. SnapCovered' /\ NoLostExport'
    BY <1>0, <1>1, <2>1 DEF SnapCovered, NoLostExport
  <2> QED
    BY <2>2, <2>3
<1>2. CASE Change
  <2>1. PICK c \in Card : \/ RouteChange(c) \/ RouteClose(c)
                           \/ OtherChange(c) \/ OtherClose(c)
    BY <1>2 DEF Change
  <2>2. events \subseteq Card /\ marking \in BOOLEAN
    BY DEF BridgeTypeOK
  <2>3. CASE RouteChange(c) \/ RouteClose(c)
    <3>1. Touch("route") /\ marking' = TRUE /\ events' \subseteq Card
      BY <2>2, <2>3 DEF RouteChange, RouteClose
    <3> QED
      BY <3>1, <1>1
  <2>4. CASE OtherChange(c) \/ OtherClose(c)
    <3>1. Touch("other") /\ marking' = marking /\ events' \subseteq Card
      BY <2>2, <2>4 DEF OtherChange, OtherClose
    <3> QED
      BY <3>1, <2>2, <1>1
  <2> QED
    BY <2>1, <2>3, <2>4
<1>3. CASE MarkDirty
  BY <1>3 DEF MarkDirty, BridgeTypeOK, Holds, SnapCovered, NoLostExport
<1>4. CASE WriterTakes
  <2>1. /\ rpc["writer"] = "idle" /\ dirty /\ dirty' = FALSE
        /\ rpc' = [rpc EXCEPT !["writer"] = "lock"]
        /\ UNCHANGED <<marking, missing, snap, events>>
    BY <1>4 DEF WriterTakes, To
  <2>2. BridgeTypeOK'
    BY <1>0, <2>1 DEF BridgeTypeOK, Holds
  <2>3. rpc'["writer"] = "lock" /\ rpc'["export"] = rpc["export"]
    BY <1>0, <2>1 DEF BridgeTypeOK
  <2> QED
    BY <1>0, <2>1, <2>2, <2>3 DEF SnapCovered, NoLostExport
<1>5. CASE ExportNow
  <2>1. /\ rpc["export"] = "idle" /\ rpc' = [rpc EXCEPT !["export"] = "lock"]
        /\ UNCHANGED <<marking, dirty, missing, snap, events>>
    BY <1>5 DEF ExportNow, To
  <2>2. BridgeTypeOK'
    BY <1>0, <2>1 DEF BridgeTypeOK, Holds
  <2>3. rpc'["export"] = "lock" /\ rpc'["writer"] = rpc["writer"]
    BY <1>0, <2>1 DEF BridgeTypeOK
  <2> QED
    BY <1>0, <2>1, <2>2, <2>3 DEF SnapCovered, NoLostExport
<1>6. ASSUME NEW r \in Renderer, Lock(r) PROVE MirrorInv'
  <2>1. /\ rpc[r] = "lock" /\ \A q \in Renderer : ~ Holds(q)
        /\ rpc' = [rpc EXCEPT ![r] = "locked"]
        /\ UNCHANGED <<marking, dirty, missing, snap, events>>
    BY <1>6 DEF Lock, To
  <2>2. BridgeTypeOK'
    BY <1>0, <2>1 DEF BridgeTypeOK, Holds
  <2>3. \A q \in Renderer : rpc'[q] = IF q = r THEN "locked" ELSE rpc[q]
    BY <2>1 DEF BridgeTypeOK
  <2>4. \A q \in Renderer : rpc[q] # "read"
    BY <2>1 DEF Holds
  <2> QED
    BY <1>0, <2>1, <2>2, <2>3, <2>4 DEF SnapCovered, NoLostExport
<1>7. ASSUME NEW r \in Renderer, ReadBoard(r) PROVE MirrorInv'
  <2>1. /\ rpc[r] = "locked" /\ rpc' = [rpc EXCEPT ![r] = "read"]
        /\ snap' = [snap EXCEPT ![r] = {}]
        /\ UNCHANGED <<marking, dirty, missing, events>>
    BY <1>7 DEF ReadBoard, To
  <2>2. BridgeTypeOK'
    BY <1>0, <2>1 DEF BridgeTypeOK, Holds
  <2>3. \A q \in Renderer : /\ rpc'[q] = IF q = r THEN "read" ELSE rpc[q]
                            /\ snap'[q] = IF q = r THEN {} ELSE snap[q]
    BY <2>1 DEF BridgeTypeOK
  <2> QED
    BY <1>0, <2>1, <2>2, <2>3 DEF SnapCovered, NoLostExport
<1>8. ASSUME NEW r \in Renderer, ReplaceFile(r) PROVE MirrorInv'
  <2>1. /\ rpc[r] = "read" /\ rpc' = [rpc EXCEPT ![r] = "idle"]
        /\ missing' = snap[r] /\ snap' = [snap EXCEPT ![r] = {}]
        /\ UNCHANGED <<marking, dirty, events>>
    BY <1>8 DEF ReplaceFile, To
  <2>2. BridgeTypeOK'
    BY <1>0, <2>1 DEF BridgeTypeOK, Holds
  <2>3. \A q \in Renderer : /\ rpc'[q] = IF q = r THEN "idle" ELSE rpc[q]
                            /\ snap'[q] = IF q = r THEN {} ELSE snap[q]
    BY <2>1 DEF BridgeTypeOK
  <2> QED
    BY <1>0, <2>1, <2>2, <2>3 DEF SnapCovered, NoLostExport
<1>9. ASSUME NEW r \in Renderer, RenderFails(r) PROVE MirrorInv'
  <2>1. /\ Holds(r) /\ rpc' = [rpc EXCEPT ![r] = "idle"]
        /\ snap' = [snap EXCEPT ![r] = {}]
        /\ dirty' = (dirty \/ r = "writer")
        /\ UNCHANGED <<marking, missing, events>>
    BY <1>9 DEF RenderFails, To
  <2>2. BridgeTypeOK'
    BY <1>0, <2>1 DEF BridgeTypeOK, Holds
  <2>3. \A q \in Renderer : /\ rpc'[q] = IF q = r THEN "idle" ELSE rpc[q]
                            /\ snap'[q] = IF q = r THEN {} ELSE snap[q]
    BY <2>1 DEF BridgeTypeOK
  <2>4. CASE r = "writer"
    <3>1. dirty' = TRUE
      BY <2>1, <2>4
    <3> QED
      BY <1>0, <2>2, <2>3, <2>4, <3>1 DEF SnapCovered, NoLostExport
  <2>5. CASE r = "export"
    <3>1. dirty' = dirty /\ UNCHANGED <<marking, missing>>
      BY <2>1, <2>5 DEF BridgeTypeOK
    <3> QED
      BY <1>0, <2>2, <2>3, <2>5, <3>1 DEF SnapCovered, NoLostExport
  <2> QED
    BY <1>0, <2>4, <2>5
<1>10. CASE Restart
  BY <1>0, <1>10 DEF Restart, BridgeTypeOK, Holds, SnapCovered, NoLostExport
<1>11. ASSUME NEW c \in Card, OnClosed(c) PROVE MirrorInv'
  BY <1>11 DEF OnClosed, BridgeTypeOK, Holds, SnapCovered, NoLostExport
<1>12. CASE UNCHANGED vars
  BY <1>12 DEF vars, bridgeVars, BridgeTypeOK, Holds, SnapCovered,
     NoLostExport
<1> QED
  BY <1>2, <1>3, <1>4, <1>5, <1>6, <1>7, <1>8, <1>9, <1>10, <1>11, <1>12
     DEF Next, Render

\* A change made through a route is in the file or will be rendered: the
\* dirty mark, the route that is about to set it, or a rendering that has
\* yet to read the board stands for it, across failed renderings, exports
\* and restarts.
THEOREM ExportsNotLost == Spec => []NoLostExport
<1>1. MirrorInv => NoLostExport
  BY DEF MirrorInv
<1> QED
  BY <1>1, MirrorInit, MirrorNext, PTL DEF Spec

\* Board and bridge keep their types, and the two renderers never hold the
\* project's lock together.
THEOREM BridgeTypeCorrect == Spec => []TypeOK
<1>1. BoardInv /\ MirrorInv => TypeOK
  BY DEF BoardInv, MirrorInv, BridgeTypeOK, TypeOK
<1> QED
  BY <1>1, BoardInvariant, MirrorInit, MirrorNext, PTL DEF Spec

----------------------------------------------------------------------------
(* Work is not taken over *)

\* A card and the agent in its row, as a lease on the card.  The claimer of
\* a closed or quarantined card keeps it.
CardHolder == [c \in Card |-> IF claimer[c] = None THEN None
                              ELSE <<c, claimer[c]>>]

\* The claims of a board are leases on its cards: one that is held passes to
\* another agent only by way of nobody.
CardLeases == INSTANCE LeaseTable
              WITH Resource <- Card, Lease <- Card \X Agent,
                   On <- [l \in Card \X Agent |-> l[1]], Free <- None,
                   holder <- CardHolder

\* What an operation on a card does to its claimer.
LEMMA ClaimsMove ==
  ASSUME BoardInv, [Next]_vars
  PROVE  \/ \E c \in Card, a \in Agent :
               claimer[c] = None /\ claimer' = [claimer EXCEPT ![c] = a]
         \/ \E c \in Card : claimer' = [claimer EXCEPT ![c] = None]
         \/ claimer' = claimer
<1>0. claimer \in [Card -> Agent \cup {None}]
  BY DEF BoardInv, BoardTypeOK
<1> DEFINE Moves == \/ \E c \in Card, a \in Agent :
                          claimer[c] = None /\ claimer' = [claimer EXCEPT ![c] = a]
                    \/ \E c \in Card : claimer' = [claimer EXCEPT ![c] = None]
                    \/ claimer' = claimer
<1>1. ASSUME NEW c \in Card, NEW a \in Agent, ClaimTask(c, a) PROVE Moves
  BY <1>1 DEF ClaimTask, Put
<1>2. ASSUME NEW c \in Card, CreateTask(c) \/ ReopenTask(c) \/ UnquarantineTask(c)
      PROVE  Moves
  BY <1>2 DEF CreateTask, ReopenTask, UnquarantineTask, Put
<1>3. ASSUME NEW c \in Card, NEW a \in Agent, ReleaseTask(c, a) PROVE Moves
  BY <1>3 DEF ReleaseTask, Put
<1>4. ASSUME NEW c \in Card, claimer' = [claimer EXCEPT ![c] = claimer[c]]
      PROVE  claimer' = claimer
  BY <1>0, <1>4
<1>5. ASSUME NEW c \in Card, NEW a \in Agent, NEW b \in BOOLEAN, CloseTask(c, a, b)
      PROVE  claimer' = claimer
  BY <1>4, <1>5 DEF CloseTask, Put
<1>6. ASSUME NEW c \in Card, QuarantineTask(c) PROVE claimer' = claimer
  BY <1>4, <1>6 DEF QuarantineTask, Put
<1>7. ASSUME NEW c \in Card, NEW s \in CardStatus, PatchStatus(c, s) PROVE Moves
  <2>1. CASE s = "open"
    BY <1>7, <2>1 DEF PatchStatus
  <2>2. CASE s # "open"
    BY <1>4, <1>7, <2>2 DEF PatchStatus
  <2> QED
    BY <2>1, <2>2
<1>8. ASSUME NEW c \in Card, NEW d \in Card, AddBlocks(<<c, d>>)
      PROVE  claimer' = claimer
  BY <1>8 DEF AddBlocks
<1>9. ASSUME NEW c \in Card,
             \/ RouteChange(c) \/ RouteClose(c) \/ OtherChange(c) \/ OtherClose(c)
      PROVE  Moves
  <2> HIDE DEF Moves
  <2>1. claimer' = claimer => Moves
    BY DEF Moves
  <2> QED
    BY <1>1, <1>2, <1>3, <1>5, <1>6, <1>7, <1>8, <1>9, <2>1
       DEF RouteChange, RouteClose, OtherChange, OtherClose, RouteOp, StoreOp
<1>10. ASSUME ~ Change PROVE claimer' = claimer
  BY <1>10 DEF Next, MarkDirty, WriterTakes, ExportNow, Render, Lock,
     ReadBoard, ReplaceFile, RenderFails, Restart, OnClosed, boardVars, vars
<1> QED
  BY <1>9, <1>10 DEF Change

\* claim_task, release, close, quarantine, re-opening and the owner's PATCH
\* together implement the lease table of the cluster manager on cards: no
\* sequence of them hands a card from one agent to another in one step.
THEOREM ClaimsAreLeases == Spec => CardLeases!Spec
<1>1. Init => CardLeases!Init
  BY DEF Init, BoardInit, CardHolder, CardLeases!Init
<1>2. BoardInv /\ [Next]_vars => [CardLeases!Next]_CardHolder
  <2> SUFFICES ASSUME BoardInv, [Next]_vars
               PROVE  CardLeases!Next \/ CardHolder' = CardHolder
    OBVIOUS
  <2>0. claimer \in [Card -> Agent \cup {None}]
    BY DEF BoardInv, BoardTypeOK
  <2>1. ASSUME NEW c \in Card, NEW a \in Agent, claimer[c] = None,
               claimer' = [claimer EXCEPT ![c] = a]
        PROVE  CardLeases!Next
    <3> DEFINE l == <<c, a>>
               On == [k \in Card \X Agent |-> k[1]]
    <3>1. l \in Card \X Agent /\ On[l] = c
      OBVIOUS
    <3>2. CardHolder[c] = None
      BY <2>1 DEF CardHolder
    <3>3. CardHolder' = [CardHolder EXCEPT ![c] = l]
      <4>1. a # None
        BY BoardAssumption
      <4> QED
        BY <2>0, <2>1, <4>1 DEF CardHolder
    <3>4. CardLeases!Grant(l)
      BY <3>1, <3>2, <3>3 DEF CardLeases!Grant
    <3> HIDE DEF l
    <3> QED
      BY <3>1, <3>4 DEF CardLeases!Next
  <2>2. ASSUME NEW c \in Card, claimer' = [claimer EXCEPT ![c] = None]
        PROVE  CardLeases!Next
    <3>1. CardHolder' = [d \in Card |-> IF d \in {c} THEN None ELSE CardHolder[d]]
      BY <2>0, <2>2 DEF CardHolder
    <3>2. {c} \in SUBSET Card
      OBVIOUS
    <3> QED
      BY <3>1, <3>2 DEF CardLeases!Next, CardLeases!Lose
  <2>3. CASE claimer' = claimer
    BY <2>3 DEF CardHolder
  <2> QED
    BY <2>1, <2>2, <2>3, ClaimsMove
<1> QED
  BY <1>1, <1>2, BoardInvariant, PTL DEF Spec, CardLeases!Spec
=============================================================================
