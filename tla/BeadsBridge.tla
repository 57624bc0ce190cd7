---------------------------- MODULE BeadsBridge -----------------------------
(***************************************************************************)
(* projects/beads_bridge.py on top of the board: the file .beads/          *)
(* tasks.jsonl that mirrors the board for agents, and the announcement of  *)
(* cards that a closed card made ready.                                    *)
(*                                                                         *)
(* A route commits its change, suspends several times (event, audit), and  *)
(* marks the project dirty when the store returns.  Commands in the chat   *)
(* (/claim, /release, /close, /new), routines and the GitHub sync use the  *)
(* same store and mark nothing.  The writer loop takes the dirty mark and  *)
(* renders under the project's lock, as an owner's export does; a render   *)
(* reads the board at one moment and replaces the file at a later one.     *)
(* The file is modelled by the origins of the changes it does not show.    *)
(***************************************************************************)
EXTENDS TaskBoard

Renderer == {"writer", "export"}

VARIABLES
    marking,   \* a route has committed and not yet marked the project
    dirty,     \* the project is in _dirty
    missing,   \* origins of changes that the file does not show
    rpc,       \* rpc[r]: idle, lock (waits for it), locked, read
    snap,      \* origins of changes since r read the board
    events     \* cards with a task.closed event in the subscriber's queue

bridgeVars == <<marking, dirty, missing, rpc, snap, events>>
vars       == <<boardVars, bridgeVars>>

Init == /\ BoardInit
        /\ marking = FALSE /\ dirty = TRUE   \* backfill_active
        /\ missing = {}
        /\ rpc = [r \in Renderer |-> "idle"]
        /\ snap = [r \in Renderer |-> {}]
        /\ events = {}

----------------------------------------------------------------------------
(* Changes of the board *)

\* The file, and a rendering in progress, do not show the change.
Touch(via) == /\ missing' = missing \cup {via}
              /\ snap' = [r \in Renderer |-> IF rpc[r] = "read"
                                             THEN snap[r] \cup {via}
                                             ELSE {}]
              /\ UNCHANGED <<dirty, rpc>>

\* What anybody may do to a card through the store ...
StoreOp(c) == \/ CreateTask(c)
              \/ \E a \in Agent : ClaimTask(c, a) \/ ReleaseTask(c, a)

\* ... and what only routes do.
RouteOp(c) == \/ StoreOp(c) \/ ReopenTask(c) \/ UnquarantineTask(c)
              \/ \E s \in CardStatus : PatchStatus(c, s)
              \/ \E d \in Card : AddBlocks(<<c, d>>)

RouteChange(c) == /\ RouteOp(c) /\ Touch("route")
                  /\ marking' = TRUE
                  /\ UNCHANGED events

RouteClose(c) == /\ \E a \in Agent, force \in BOOLEAN : CloseTask(c, a, force)
                 /\ Touch("route")
                 /\ marking' = TRUE
                 /\ events' = events \cup {c}

\* Chat commands, routines, the GitHub sync, the dispatch host's quarantine.
OtherChange(c) == /\ StoreOp(c) \/ QuarantineTask(c)
                  /\ Touch("other")
                  /\ UNCHANGED <<marking, events>>

OtherClose(c) == /\ \E a \in Agent : CloseTask(c, a, FALSE)
                 /\ Touch("other")
                 /\ events' = events \cup {c}
                 /\ UNCHANGED marking

\* The routes return; mark_dirty.
MarkDirty == /\ marking
             /\ marking' = FALSE /\ dirty' = TRUE
             /\ UNCHANGED <<boardVars, missing, rpc, snap, events>>

----------------------------------------------------------------------------
(* Rendering *)

To(r, pc) == rpc' = [rpc EXCEPT ![r] = pc]

Holds(r) == rpc[r] \in {"locked", "read"}

\* The debounce is over and the project is dirty: take the mark.
WriterTakes == /\ rpc["writer"] = "idle" /\ dirty
               /\ dirty' = FALSE
               /\ To("writer", "lock")
               /\ UNCHANGED <<boardVars, marking, missing, snap, events>>

ExportNow == /\ rpc["export"] = "idle"
             /\ To("export", "lock")
             /\ UNCHANGED <<boardVars, marking, dirty, missing, snap, events>>

Lock(r) == /\ rpc[r] = "lock" /\ \A q \in Renderer : ~ Holds(q)
           /\ To(r, "locked")
           /\ UNCHANGED <<boardVars, marking, dirty, missing, snap, events>>

ReadBoard(r) == /\ rpc[r] = "locked"
                /\ To(r, "read")
                /\ snap' = [snap EXCEPT ![r] = {}]
                /\ UNCHANGED <<boardVars, marking, dirty, missing, events>>

ReplaceFile(r) == /\ rpc[r] = "read"
                  /\ To(r, "idle")
                  /\ missing' = snap[r]
                  /\ snap' = [snap EXCEPT ![r] = {}]
                  /\ UNCHANGED <<boardVars, marking, dirty, events>>

\* Mutant: a failed rendering is only logged.
RenderFailsForgets(r) == /\ Holds(r)
                         /\ To(r, "idle")
                         /\ snap' = [snap EXCEPT ![r] = {}]
                         /\ UNCHANGED <<boardVars, marking, dirty, missing,
                                        events>>

\* A store or disk error: the writer marks the project again.
RenderFails(r) == /\ Holds(r)
                  /\ To(r, "idle")
                  /\ snap' = [snap EXCEPT ![r] = {}]
                  /\ dirty' = (dirty \/ r = "writer")
                  /\ UNCHANGED <<boardVars, marking, missing, events>>

\* Mutant: after a start the writer waits for the first change.
RestartNoBackfill == /\ marking' = FALSE /\ dirty' = FALSE
                     /\ rpc' = [r \in Renderer |-> "idle"]
                     /\ snap' = [r \in Renderer |-> {}]
                     /\ events' = {}
                     /\ UNCHANGED <<boardVars, missing>>

\* The process ends anywhere and starts again; backfill_active marks every
\* active project.
Restart == /\ marking' = FALSE /\ dirty' = TRUE
           /\ rpc' = [r \in Renderer |-> "idle"]
           /\ snap' = [r \in Renderer |-> {}]
           /\ events' = {}
           /\ UNCHANGED <<boardVars, missing>>

----------------------------------------------------------------------------
(* Announcements *)

\* _announce_newly_ready: the open cards that the closed card has an edge
\* to, if every other card with an edge to them is finished.
NewlyReady(c) == {d \in Card : /\ <<c, d>> \in blocks /\ card[d] = "open"
                               /\ \A e \in Card \ {c} :
                                    <<e, d>> \in blocks => card[e] \in Finished}

\* The subscriber takes the event and posts NewlyReady(c) in the channel.
OnClosed(c) == /\ c \in events
               /\ events' = events \ {c}
               /\ UNCHANGED <<boardVars, marking, dirty, missing, rpc, snap>>

----------------------------------------------------------------------------
Change == \E c \in Card : \/ RouteChange(c) \/ RouteClose(c)
                          \/ OtherChange(c) \/ OtherClose(c)

Render(r) == \/ Lock(r) \/ ReadBoard(r) \/ ReplaceFile(r) \/ RenderFails(r)

Next == \/ Change \/ MarkDirty \/ WriterTakes \/ ExportNow
        \/ \E r \in Renderer : Render(r)
        \/ Restart \/ \E c \in Card : OnClosed(c)

Spec == Init /\ [][Next]_vars

\* A route that has committed returns; the writer wakes after its debounce;
\* the lock is handed on in turn, so both renderers get it, and a rendering
\* ends, and does not fail for ever.
Fairness == /\ WF_vars(MarkDirty) /\ WF_vars(WriterTakes)
            /\ SF_vars(Lock("writer"))
            /\ WF_vars(Holds("export") /\ Render("export"))
            /\ SF_vars(ReadBoard("writer")) /\ SF_vars(ReplaceFile("writer"))

FairSpec == Spec /\ Fairness

----------------------------------------------------------------------------
(* Properties *)

TypeOK == /\ BoardTypeOK
          /\ marking \in BOOLEAN /\ dirty \in BOOLEAN
          /\ missing \subseteq {"route", "other"}
          /\ rpc \in [Renderer -> {"idle", "lock", "locked", "read"}]
          /\ snap \in [Renderer -> SUBSET {"route", "other"}]
          /\ events \subseteq Card
          /\ ~ (Holds("writer") /\ Holds("export"))

\* A change made through a route is never forgotten by the mirror: if the
\* file does not show it, a rendering that will show it is due or under way,
\* across failed renderings, forced exports and restarts.  (A change made in
\* the chat may wait for the next route.)
NoLostExport ==
    "route" \in missing =>
        \/ dirty \/ marking
        \/ rpc["writer"] \in {"lock", "locked"}
        \/ rpc["writer"] = "read" /\ "route" \notin snap["writer"]

\* Once the board is left alone, and the process with it, the file shows
\* every change made through a route.
ExportCatchesUp ==
    <>[][~ Change /\ ~ Restart]_vars => <>[]("route" \notin missing)

\* A card that is announced as ready is ready.
AnnouncedIsReady ==
    [][\A c \in Card : OnClosed(c) => NewlyReady(c) \subseteq Ready]_vars
=============================================================================
