----------------------------- MODULE AgentChat -----------------------------
(***************************************************************************)
(* How chat messages reach agents and come back: the router                *)
(* (agent_chat_router.py), the turn queue of an agent driven over ACP      *)
(* (agent_loop.py, openclaw_acp_runtime.py, adapters/acp_adapter.py) and   *)
(* the event stream of an agent behind a bridge (bridge_session.py,        *)
(* routes/openclaw.py).                                                    *)
(*                                                                         *)
(* One channel in lively mode: a message is for all other agents, or for   *)
(* the one it mentions, who then must respond.  Contents, threads, leads,  *)
(* mutes and broadcasts are left out.  A message is its place in the       *)
(* channel's log, and the trace id of what it sets off.                    *)
(* Bounds: MaxMessages, MaxUser.                                           *)
(***************************************************************************)
EXTENDS Naturals, Sequences, FiniteSets

CONSTANTS Agent,
          Transports,   \* the sets of agents that may be driven over ACP
          MaxHops,      \* the channel's max_hops
          MaxMessages,
          MaxUser       \* how many of them are the user's

ASSUME ChatAssumption ==
    /\ Transports \subseteq SUBSET Agent
    /\ MaxHops \in Nat /\ MaxMessages \in Nat /\ MaxUser \in Nat
    /\ {"user", "reply"} \cap Agent = {}

Id == 1..MaxMessages

VARIABLES
    acp,      \* agents driven over ACP; the others have a bridge
    log,      \* chat_messages: author, state and hops_since_user
    depth,    \* history: the replies between a message and what set it off
    todo,     \* what routing has yet to hand over: <<message, agent, forced>>
    queue,    \* messages that wait for the agent
    stream,   \* a bridge's event stream
    inbox,    \* what the bridge's agent has received
    hopsOf,   \* pending_hops, as pairs <<message, hops>>
    loop,     \* LoopState of an ACP agent
    turns,    \* the turns in progress and how far they are
    shown,    \* _pending_msg_ids: <<agent, trace id, streaming message>>
    stuck,    \* history: messages left streaming with nothing to settle them
    uncounted,\* history: messages whose chain has lost its count
    pressed   \* history: forced deliveries, and the replies to them

bridgeVars == <<stream, inbox, hopsOf>>
acpVars    == <<acp, loop, turns>>
histVars   == <<stuck, uncounted, pressed>>
vars == <<log, depth, todo, queue, shown, bridgeVars, acpVars, histVars>>

Bridged == Agent \ acp

Init == /\ acp \in Transports
        /\ log = <<>> /\ depth = <<>> /\ todo = {}
        /\ queue = [a \in Agent |-> <<>>]
        /\ stream = [a \in Agent |-> "none"]
        /\ inbox = [a \in Agent |-> {}]
        /\ hopsOf = [a \in Agent |-> {}]
        /\ loop = [a \in Agent |-> "idle"]
        /\ turns = [a \in Agent |-> {}]
        /\ shown = {} /\ stuck = {} /\ uncounted = {} /\ pressed = {}

----------------------------------------------------------------------------
(* Messages and the router *)

\* send_message: the next row of the log.
Say(author, state, hops, far) ==
    /\ Len(log) < MaxMessages
    /\ log' = Append(log, [author |-> author, state |-> state, hops |-> hops])
    /\ depth' = Append(depth, far)

\* dispatch() and the recipients of _route_inner: all other agents, or the
\* one that is mentioned.
Dispatch(author) ==
    \/ todo' = todo \cup {<<Len(log) + 1, a, FALSE>> : a \in Agent \ {author}}
    \/ \E a \in Agent \ {author} :
           todo' = todo \cup {<<Len(log) + 1, a, TRUE>>}

UserSays == /\ Cardinality({n \in DOMAIN log : log[n].author = "user"})
                 < MaxUser
            /\ Say("user", "complete", 0, 0) /\ Dispatch("user")
            /\ UNCHANGED <<queue, shown, bridgeVars, acpVars, histVars>>

\* Mutant: the cap is off by one.
MayRouteLate(m, forced) == forced \/ log[m].hops <= MaxHops

\* The hop cap; a mention overrides it.
MayRoute(m, forced) == forced \/ log[m].hops + 1 <= MaxHops

\* The cap, the cooldown or the rate cap of GroupPolicy, or an agent that is
\* not there or not running: the message does not go to this agent.
Skip(m, a, forced) == /\ <<m, a, forced>> \in todo
                      /\ todo' = todo \ {<<m, a, forced>>}
                      /\ UNCHANGED <<log, depth, queue, shown, bridgeVars,
                                     acpVars, histVars>>

Accept(m, a, forced) ==
    /\ <<m, a, forced>> \in todo /\ MayRoute(m, forced)
    /\ todo' = todo \ {<<m, a, forced>>}
    /\ pressed' = IF forced /\ a \in Bridged
                  THEN pressed \cup {<<m, a>>} ELSE pressed
    /\ UNCHANGED <<log, depth, shown, stuck, uncounted>>

\* enqueue_user_message.
Enqueue(m, a, forced) ==
    /\ a \in Bridged /\ Accept(m, a, forced)
    /\ hopsOf' = [hopsOf EXCEPT ![a] = {p \in @ : p[1] # m}
                                           \cup {<<m, log[m].hops + 1>>}]
    /\ queue' = [queue EXCEPT ![a] = Append(@, m)]
    /\ UNCHANGED <<stream, inbox, acpVars>>

----------------------------------------------------------------------------
(* record_reply: what an agent's replies do to the channel *)

Hops(a, m) == IF \E p \in hopsOf[a] : p[1] = m
              THEN (CHOOSE p \in hopsOf[a] : p[1] = m)[2] ELSE 0

Pending(a, m) == {n \in DOMAIN log : <<a, m, n>> \in shown}

PopPending(a, m) == {t \in shown : <<t[1], t[2]>> # <<a, m>>}

PopHops(a, m) == hopsOf' = [hopsOf EXCEPT ![a] = {p \in @ : p[1] # m}]

\* A message of the agent under the trace id of m.
Answer(a, m, state) ==
    /\ Say(a, state, Hops(a, m), depth[m] + 1)
    /\ uncounted' = IF m \in uncounted \/ \A p \in hopsOf[a] : p[1] # m
                    THEN uncounted \cup {Len(log) + 1} ELSE uncounted
    /\ pressed' = IF <<m, a>> \in pressed
                  THEN pressed \cup {<<Len(log) + 1, "reply">>} ELSE pressed

\* A message of the agent about m under an id of its own.
Stray(a, m, state) == /\ Say(a, state, 0, depth[m] + 1)
                      /\ uncounted' = uncounted \cup {Len(log) + 1}
                      /\ UNCHANGED pressed

\* Mutant: the placeholder's new state is not written.
SettleForgets(n, s) == UNCHANGED log

Settle(n, s) == log' = [log EXCEPT ![n].state = s]

\* A chunk that finds no placeholder makes one.
Open(a, m) == /\ Answer(a, m, "streaming")
              /\ shown' = PopPending(a, m) \cup {<<a, m, Len(log) + 1>>}
              /\ UNCHANGED <<todo, hopsOf>>

DeltaReply(a, m) == Pending(a, m) = {} /\ Open(a, m) /\ UNCHANGED stuck

\* A second chunk posted before the first has made its placeholder makes
\* another one, and the first is forgotten.
RacingDelta(a, m) == /\ Pending(a, m) # {} /\ Open(a, m)
                     /\ stuck' = stuck \cup Pending(a, m)

\* Mutant: the placeholder is looked up and stays registered.
FinalReplyKeeps(a, m) ==
    \/ /\ \E n \in Pending(a, m) : Settle(n, "complete")
       /\ PopHops(a, m)
       /\ UNCHANGED <<depth, todo, shown, histVars>>
    \/ /\ Pending(a, m) = {} /\ Answer(a, m, "complete") /\ Dispatch(a)
       /\ PopHops(a, m) /\ UNCHANGED <<shown, stuck>>

\* The final reply completes the placeholder, which is not dispatched, or is
\* a message of its own, which other agents get to see.  A trace or a message
\* that cannot be written ends it, with what was popped before gone.
FinalReply(a, m) ==
    /\ shown' = PopPending(a, m)
    /\ \/ /\ \E n \in Pending(a, m) : Settle(n, "complete")
          /\ PopHops(a, m)
          /\ UNCHANGED <<depth, todo, histVars>>
       \/ /\ Pending(a, m) = {} /\ Answer(a, m, "complete") /\ Dispatch(a)
          /\ PopHops(a, m) /\ UNCHANGED stuck
       \/ /\ stuck' = stuck \cup Pending(a, m)
          /\ \/ UNCHANGED hopsOf
             \/ Pending(a, m) = {} /\ PopHops(a, m)
          /\ UNCHANGED <<log, depth, todo, uncounted, pressed>>

\* The error reply fails the placeholder, if that can be written; the hops
\* stay.
ErrorReply(a, m) ==
    /\ \/ /\ \E n \in Pending(a, m) : Settle(n, "error")
          /\ UNCHANGED stuck
       \/ UNCHANGED log /\ stuck' = stuck \cup Pending(a, m)
    /\ shown' = PopPending(a, m)
    /\ UNCHANGED <<depth, todo, hopsOf, uncounted, pressed>>

\* A final reply or a chunk without a trace_id.
UntracedReply(a, m) ==
    \/ Stray(a, m, "complete") /\ Dispatch(a)
       /\ UNCHANGED <<hopsOf, shown, stuck>>
    \/ Stray(a, m, "streaming") /\ stuck' = stuck \cup {Len(log) + 1}
       /\ UNCHANGED <<todo, hopsOf, shown>>

----------------------------------------------------------------------------
(* A bridge *)

\* subscribe: the new stream's queue takes over what waits in the old one,
\* in one step, and the old stream is told to end.
Subscribe(a) == /\ a \in Bridged /\ stream[a] # "live"
                /\ stream' = [stream EXCEPT ![a] = "live"]
                /\ UNCHANGED <<log, depth, todo, queue, shown, inbox, hopsOf,
                               acpVars, histVars>>

\* The connection breaks; the generator does not know yet.
Disconnect(a) == /\ stream[a] = "live"
                 /\ stream' = [stream EXCEPT ![a] = "dead"]
                 /\ UNCHANGED <<log, depth, todo, queue, shown, inbox, hopsOf,
                                acpVars, histVars>>

\* The generator takes an event and yields it.  A frame for a broken
\* connection is gone, and is_disconnected() ends the generator.
Yield(a) ==
    /\ stream[a] # "none" /\ queue[a] # <<>>
    /\ queue' = [queue EXCEPT ![a] = Tail(@)]
    /\ \/ /\ stream[a] = "live"
          /\ inbox' = [inbox EXCEPT ![a] = @ \cup {Head(queue[a])}]
          /\ UNCHANGED stream
       \/ /\ stream[a] = "dead"
          /\ stream' = [stream EXCEPT ![a] = "none"]
          /\ UNCHANGED inbox
    /\ UNCHANGED <<log, depth, todo, shown, hopsOf, acpVars, histVars>>

\* The agent posts a reply to a message it has received, any number of times
\* or never; a restart of the controller does not stop it.
Reply(a, m) ==
    /\ m \in inbox[a]
    /\ \/ DeltaReply(a, m) \/ RacingDelta(a, m) \/ FinalReply(a, m)
       \/ ErrorReply(a, m) \/ UntracedReply(a, m)
    /\ UNCHANGED <<queue, stream, inbox, acpVars>>

----------------------------------------------------------------------------
(* An ACP agent *)

\* _run_acp_turn: AgentLoop.handle_message starts a turn or queues.
HandleMessage(m, a, forced) ==
    /\ a \in acp /\ Accept(m, a, forced)
    /\ \/ /\ loop[a] = "idle"
          /\ loop' = [loop EXCEPT ![a] = "working"]
          /\ turns' = [turns EXCEPT ![a] = @ \cup {<<m, "driving">>}]
          /\ UNCHANGED queue
       \/ /\ loop[a] = "working"
          /\ queue' = [queue EXCEPT ![a] = Append(@, m)]
          /\ UNCHANGED <<loop, turns>>
    /\ UNCHANGED <<acp, bridgeVars>>

At(a, m, from, to) == /\ <<m, from>> \in turns[a]
                      /\ turns' = [turns EXCEPT ![a] = (@ \ {<<m, from>>})
                                                        \cup {<<m, to>>}]

Delta(a, m) == /\ <<m, "driving">> \in turns[a] /\ DeltaReply(a, m)
               /\ UNCHANGED <<queue, stream, inbox, acpVars>>

\* The prompt returns.
Final(a, m) == /\ At(a, m, "driving", "closing") /\ FinalReply(a, m)
               /\ UNCHANGED <<queue, stream, inbox, acp, loop>>

\* The agent has refused: an error reply after the final one.
Refusal(a, m) == /\ <<m, "closing">> \in turns[a] /\ ErrorReply(a, m)
                 /\ UNCHANGED <<queue, stream, inbox, acpVars>>

\* The transport fails or the request times out: the error reply, whose
\* trace may not be written.
TurnFails(a, m) ==
    /\ At(a, m, "driving", "failed")
    /\ \/ ErrorReply(a, m)
       \/ /\ stuck' = stuck \cup Pending(a, m)
          /\ UNCHANGED <<log, depth, todo, hopsOf, shown, uncounted, pressed>>
    /\ UNCHANGED <<queue, stream, inbox, acp, loop>>

\* A chunk that comes before close() ends the reader: while the last reply is
\* written it still has the turn's trace id, later only the session's.
LateDelta(a, m) ==
    /\ {<<m, "closing">>, <<m, "failed">>} \cap turns[a] # {}
    /\ \/ Pending(a, m) = {} /\ Open(a, m)
       \/ Stray(a, m, "streaming") /\ UNCHANGED <<todo, hopsOf, shown>>
    /\ stuck' = stuck \cup {Len(log) + 1}
    /\ UNCHANGED <<queue, stream, inbox, acpVars>>

\* Mutant: the drained messages are driven by a loop that says it is idle.
SafePointIdle(a, m) ==
    /\ {<<m, "closing">>, <<m, "failed">>} \cap turns[a] # {}
    /\ LET rest == {t \in turns[a] : t[1] # m} IN
       \/ /\ queue[a] = <<>>
          /\ turns' = [turns EXCEPT ![a] = rest] /\ UNCHANGED queue
       \/ /\ queue[a] # <<>>
          /\ turns' = [turns EXCEPT ![a] = rest
                                     \cup {<<Head(queue[a]), "driving">>}]
          /\ queue' = [queue EXCEPT ![a] = Tail(@)]
    /\ loop' = [loop EXCEPT ![a] = "idle"]
    /\ UNCHANGED <<log, depth, todo, shown, bridgeVars, acp, histVars>>

\* Mutant: a turn that fails does not reach its safe point.
SafePointIfWell(a, m) ==
    /\ <<m, "closing">> \in turns[a]
    /\ LET rest == {t \in turns[a] : t[1] # m} IN
       \/ /\ queue[a] = <<>>
          /\ turns' = [turns EXCEPT ![a] = rest] /\ UNCHANGED queue
          /\ loop' = [loop EXCEPT ![a] = "idle"]
       \/ /\ queue[a] # <<>>
          /\ turns' = [turns EXCEPT ![a] = rest
                                     \cup {<<Head(queue[a]), "driving">>}]
          /\ queue' = [queue EXCEPT ![a] = Tail(@)] /\ UNCHANGED loop
    /\ UNCHANGED <<log, depth, todo, shown, bridgeVars, acp, histVars>>

\* reach_safe_point drains the queue and goes idle; the turn-holder hands
\* the messages in again: the first starts the next turn, which it drives,
\* the others are queued once more.
SafePoint(a, m) ==
    /\ {<<m, "closing">>, <<m, "failed">>} \cap turns[a] # {}
    /\ LET rest == {t \in turns[a] : t[1] # m} IN
       \/ /\ queue[a] = <<>>
          /\ turns' = [turns EXCEPT ![a] = rest] /\ UNCHANGED queue
          /\ loop' = [loop EXCEPT ![a] = "idle"]
       \/ /\ queue[a] # <<>>
          /\ turns' = [turns EXCEPT ![a] = rest
                                     \cup {<<Head(queue[a]), "driving">>}]
          /\ queue' = [queue EXCEPT ![a] = Tail(@)] /\ UNCHANGED loop
    /\ UNCHANGED <<log, depth, todo, shown, bridgeVars, acp, histVars>>

----------------------------------------------------------------------------
\* close() cancels the turns and the process ends; what bridges have received
\* they still answer.
Restart ==
    /\ todo' = {}
    /\ queue' = [a \in Agent |-> <<>>]
    /\ stream' = [a \in Agent |-> "none"]
    /\ hopsOf' = [a \in Agent |-> {}]
    /\ loop' = [a \in Agent |-> "idle"]
    /\ turns' = [a \in Agent |-> {}]
    /\ shown' = {} /\ stuck' = stuck \cup {t[3] : t \in shown}
    /\ UNCHANGED <<acp, log, depth, inbox, uncounted, pressed>>

Route == \E t \in todo : \/ Skip(t[1], t[2], t[3]) \/ Enqueue(t[1], t[2], t[3])
                         \/ HandleMessage(t[1], t[2], t[3])

Turn(a) == \E m \in Id : \/ Delta(a, m) \/ Final(a, m) \/ Refusal(a, m)
                         \/ TurnFails(a, m) \/ LateDelta(a, m)
                         \/ SafePoint(a, m)

Next == \/ UserSays \/ Route \/ Restart
        \/ \E a \in Bridged : \/ Subscribe(a) \/ Disconnect(a) \/ Yield(a)
                              \/ \E m \in Id : Reply(a, m)
        \/ \E a \in acp : Turn(a)

Spec == Init /\ [][Next]_vars

\* A turn ends, request_timeout at the latest; a bridge comes back and reads.
Fairness ==
    \A a \in Agent : /\ WF_vars(\E m \in Id : \/ TurnFails(a, m)
                                               \/ SafePoint(a, m))
                     /\ WF_vars(Subscribe(a)) /\ WF_vars(Yield(a))

FairSpec == Spec /\ Fairness

----------------------------------------------------------------------------
(* Properties *)

TypeOK ==
    /\ \A n \in DOMAIN log :
           /\ log[n].author \in Agent \cup {"user"}
           /\ log[n].state \in {"streaming", "complete", "error"}
           /\ log[n].hops \in 0..(MaxHops + MaxMessages)
    /\ Len(log) <= MaxMessages /\ Len(depth) = Len(log)
    /\ todo \subseteq (1..Len(log)) \X Agent \X BOOLEAN
    /\ \A a \in Agent : queue[a] \in Seq(1..Len(log))
    /\ stream \in [Agent -> {"none", "live", "dead"}]
    /\ inbox \in [Agent -> SUBSET (1..Len(log))]
    /\ loop = [a \in Agent |-> IF turns[a] = {} THEN "idle" ELSE "working"]
    /\ \A a \in Agent : turns[a] \subseteq
                          (1..Len(log)) \X {"driving", "closing", "failed"}
    /\ shown \subseteq Agent \X (1..Len(log)) \X (1..Len(log))

\* An agent's gateway session never has two prompts at once.
OneTurn == \A a \in acp : Cardinality(turns[a]) <= 1

\* A message reads "streaming" only while a final or an error reply can
\* still settle it: the session knows it by its trace id, and over ACP the
\* turn that writes it is going on.  Chunks that come late, race or have no
\* trace id, traces that cannot be written and restarts leave others behind.
StreamingIsOwned ==
    \A n \in DOMAIN log :
        log[n].state = "streaming" /\ n \notin stuck =>
            \E a \in Agent, m \in Id :
                /\ <<a, m, n>> \in shown
                /\ a \in acp => <<m, "driving">> \in turns[a]

\* "Hop cap (max_hops) stops agent-authored chains unless overridden by
\* mention" holds of the chains whose count came through: a reply nobody
\* forced is at most max_hops replies away from the user.  Where the code
\* loses the count (an ACP turn, a restart, a second final reply, one
\* without a trace id) nothing stops the chain.
HopCap == \A n \in DOMAIN log \ uncounted :
              <<n, "reply">> \notin pressed => depth[n] <= MaxHops

\* A message keeps its author, and one that does not stream any more is never
\* rewritten, by repeated replies, late chunks, failures or restarts.
RowsStable ==
    \A n \in DOMAIN log :
        /\ n \in DOMAIN log' /\ log'[n].author = log[n].author
        /\ log[n].state # "streaming" => log'[n] = log[n]

HistoryStable == [][RowsStable]_vars

\* Whatever waits for an agent gets its turn or is sent to the bridge, also
\* behind a turn that fails and across a reconnect.
QueueDrains == \A a \in Agent : queue[a] # <<>> ~> queue[a] = <<>>
=============================================================================
