-------------------------- MODULE AgentChatProofs --------------------------
(***************************************************************************)
(* Theorems about the chat, for any number of agents and messages and any  *)
(* hop cap.                                                                *)
(***************************************************************************)
EXTENDS AgentChat, SequenceTheorems, FiniteSetTheorems, TLAPS

Row == [author : Agent \cup {"user"},
        state : {"streaming", "complete", "error"}, hops : Nat]
Phase == {"driving", "closing", "failed"}
Rows == 1..Len(log)
New == Len(log) + 1

LogOK == /\ log \in Seq(Row) /\ depth \in Seq(Nat)
         /\ Len(depth) = Len(log) /\ Len(log) <= MaxMessages
         /\ \A n \in Rows : log[n].hops < n

\* Whatever is routed, queued, answered, driven or shown is a row of the log.
RefsOK == /\ acp \subseteq Agent
          /\ todo \subseteq Rows \X Agent \X BOOLEAN
          /\ queue \in [Agent -> Seq(Nat)]
          /\ \A a \in Agent : \A k \in 1..Len(queue[a]) : queue[a][k] \in Rows
          /\ stream \in [Agent -> {"none", "live", "dead"}]
          /\ inbox \in [Agent -> SUBSET Rows]
          /\ hopsOf \in [Agent -> SUBSET (Rows \X Nat)]
          /\ loop \in [Agent -> {"idle", "working"}]
          /\ turns \in [Agent -> SUBSET (Rows \X Phase)]
          /\ shown \subseteq Agent \X Rows \X Rows

\* The state of the loop says whether a turn is going on, and there is one.
Single == \A a \in Agent :
             /\ loop[a] = "idle" <=> turns[a] = {}
             /\ \A s, t \in turns[a] : s = t

\* A placeholder is a streaming row of its agent, the only one of its trace.
Placeholder ==
    /\ \A t \in shown : /\ log[t[3]].state = "streaming"
                        /\ log[t[3]].author = t[1]
    /\ \A s, t \in shown : s[1] = t[1] /\ s[2] = t[2] => s[3] = t[3]
    /\ \A s, t \in shown : s[3] = t[3] => s[2] = t[2]

\* Over ACP the turn of a placeholder is going on.
Driven == \A t \in shown : t[1] \in acp /\ t[3] \notin stuck =>
             <<t[2], "driving">> \in turns[t[1]]

\* A row that streams is somebody's placeholder.
Streams == \A n \in Rows : log[n].state = "streaming" /\ n \notin stuck =>
             \E t \in shown : t[3] = n

\* The count that a message carries is the length of its chain, and the
\* bridge remembers the count of the answer.
Counted ==
    /\ \A n \in Rows \ uncounted : depth[n] <= log[n].hops
    /\ \A n \in Rows \ uncounted :
         <<n, "reply">> \notin pressed => log[n].hops <= MaxHops
    /\ \A a \in Agent : \A p \in hopsOf[a] :
         /\ p[2] = log[p[1]].hops + 1
         /\ <<p[1], a>> \notin pressed => p[2] <= MaxHops

CInv == /\ LogOK /\ RefsOK /\ Single /\ Placeholder /\ Driven /\ Streams
        /\ Counted

----------------------------------------------------------------------------
(* The log *)

LEMMA SayExtends ==
  ASSUME LogOK, NEW author \in Agent \cup {"user"},
         NEW state \in {"streaming", "complete", "error"},
         NEW hops \in Nat, hops <= Len(log), NEW far \in Nat,
         Say(author, state, hops, far)
  PROVE  /\ LogOK' /\ Len(log') = New /\ New \notin Rows
         /\ Rows' = Rows \cup {New}
         /\ \A n \in Rows : log'[n] = log[n] /\ depth'[n] = depth[n]
         /\ log'[New].state = state /\ log'[New].author = author
         /\ log'[New].hops = hops /\ depth'[New] = far
<1> DEFINE row == [author |-> author, state |-> state, hops |-> hops]
<1>1. /\ row \in Row /\ row.hops = hops /\ row.state = state
      /\ row.author = author
      /\ log' = Append(log, row) /\ depth' = Append(depth, far)
      /\ Len(log) < MaxMessages /\ MaxMessages \in Nat
  BY ChatAssumption DEF Say, Row
<1> HIDE DEF row
<1>2. /\ log' \in Seq(Row) /\ Len(log') = Len(log) + 1
      /\ \A n \in Rows : log'[n] = log[n]
      /\ log'[Len(log) + 1] = row
  BY <1>1 DEF LogOK, Rows
<1>3. /\ depth' \in Seq(Nat) /\ Len(depth') = Len(log) + 1
      /\ \A n \in Rows : depth'[n] = depth[n]
      /\ depth'[Len(log) + 1] = far
  BY <1>1 DEF LogOK, Rows
<1>4. \A n \in 1..(Len(log) + 1) : log'[n].hops < n
  <2>1. Len(log) \in Nat
    BY DEF LogOK
  <2>2. log'[Len(log) + 1].hops <= Len(log)
    BY <1>1, <1>2
  <2> QED
    BY <1>1, <1>2, <2>1, <2>2 DEF LogOK, Rows
<1>5. Len(log) \in Nat
  BY DEF LogOK
<1>6. Rows' = Rows \cup {New} /\ New \notin Rows
  BY <1>2, <1>5 DEF Rows, New
<1>7. LogOK'
  BY <1>1, <1>2, <1>3, <1>4, <1>5 DEF LogOK, Rows
<1> QED
  BY <1>1, <1>2, <1>3, <1>6, <1>7 DEF New

LEMMA SettleKeeps ==
  ASSUME LogOK, NEW k \in Rows, NEW s \in {"complete", "error"},
         Settle(k, s), UNCHANGED depth
  PROVE  /\ LogOK' /\ Rows' = Rows
         /\ \A n \in Rows : /\ log'[n].hops = log[n].hops
                            /\ log'[n].author = log[n].author
         /\ \A n \in Rows : n # k => log'[n] = log[n]
         /\ log'[k].state = s
<1>1. log' = [log EXCEPT ![k] = [log[k] EXCEPT !.state = s]]
  BY DEF Settle
<1>2. \A n \in Rows : log[n] \in Row
  BY DEF LogOK, Rows
<1>3. [log[k] EXCEPT !.state = s] \in Row
  BY <1>2 DEF Row
<1>4. log' \in Seq(Row) /\ Len(log') = Len(log)
  BY <1>1, <1>3 DEF LogOK, Rows
<1>5. /\ \A n \in Rows : n # k => log'[n] = log[n]
      /\ log'[k] = [log[k] EXCEPT !.state = s]
  BY <1>1 DEF LogOK, Rows
<1>6. /\ log'[k].state = s
      /\ log'[k].hops = log[k].hops /\ log'[k].author = log[k].author
  BY <1>2, <1>5 DEF Row
<1>7. \A n \in Rows : /\ log'[n].hops = log[n].hops
                      /\ log'[n].author = log[n].author
  BY <1>5, <1>6
<1>8. LogOK' /\ Rows' = Rows
  BY <1>4, <1>7 DEF LogOK, Rows
<1> QED
  BY <1>5, <1>6, <1>7, <1>8

\* What the bridge remembers of a message it has not answered.
LEMMA HopsValue ==
  ASSUME LogOK, Counted, NEW a \in Agent, NEW m \in Rows
  PROVE  /\ Hops(a, m) \in Nat /\ Hops(a, m) <= Len(log)
         /\ (\E p \in hopsOf[a] : p[1] = m) =>
              /\ Hops(a, m) = log[m].hops + 1
              /\ <<m, a>> \notin pressed => Hops(a, m) <= MaxHops
<1>1. CASE \E p \in hopsOf[a] : p[1] = m
  <2> DEFINE q == CHOOSE p \in hopsOf[a] : p[1] = m
  <2>1. q \in hopsOf[a] /\ q[1] = m
    BY <1>1
  <2>2. Hops(a, m) = q[2]
    BY <1>1 DEF Hops
  <2> HIDE DEF q
  <2>3. /\ q[2] = log[m].hops + 1
        /\ <<m, a>> \notin pressed => q[2] <= MaxHops
    BY <2>1 DEF Counted
  <2>4. log[m].hops \in Nat /\ log[m].hops < m /\ m \in Nat /\ m <= Len(log)
    <3>1. log[m] \in Row /\ log[m].hops < m /\ m \in Nat /\ m <= Len(log)
      BY DEF LogOK, Rows
    <3> QED
      BY <3>1 DEF Row
  <2> QED
    BY <2>2, <2>3, <2>4, Len(log) \in Nat DEF LogOK
<1>2. CASE ~ \E p \in hopsOf[a] : p[1] = m
  BY <1>2 DEF Hops, LogOK
<1> QED
  BY <1>1, <1>2

----------------------------------------------------------------------------
(* What replies do *)

\* A reply that leaves the log alone may forget its placeholder.
Kept(a, m) ==
    /\ UNCHANGED <<log, depth, todo, uncounted, pressed>>
    /\ stuck \subseteq stuck'
    /\ \/ UNCHANGED shown
       \/ shown' = PopPending(a, m) /\ Pending(a, m) \subseteq stuck'
    /\ UNCHANGED hopsOf \/ PopHops(a, m)

\* It may settle the placeholder,
Settled(a, m) ==
    /\ \E n \in Pending(a, m), s \in {"complete", "error"} : Settle(n, s)
    /\ shown' = PopPending(a, m)
    /\ UNCHANGED <<depth, todo, stuck, uncounted, pressed>>
    /\ UNCHANGED hopsOf \/ PopHops(a, m)

\* open one,
Opened(a, m) == /\ Open(a, m) /\ Pending(a, m) \subseteq stuck'
                /\ stuck \subseteq stuck'

\* or be a message of its own.
Posted(a, m) ==
    /\ \E s \in {"streaming", "complete"} :
          /\ Answer(a, m, s) \/ Stray(a, m, s)
          /\ s = "streaming" => New \in stuck'
    /\ UNCHANGED shown /\ stuck \subseteq stuck'
    /\ UNCHANGED hopsOf \/ PopHops(a, m)
    /\ UNCHANGED todo \/ Dispatch(a)

Moved(a, m) == Kept(a, m) \/ Settled(a, m) \/ Opened(a, m) \/ Posted(a, m)

LEMMA PendingFacts ==
  ASSUME LogOK, RefsOK, NEW a \in Agent, NEW m \in Rows
  PROVE  /\ Pending(a, m) \subseteq Rows /\ PopPending(a, m) \subseteq shown
         /\ \A n : n \in Pending(a, m) <=> <<a, m, n>> \in shown
         /\ \A t \in shown : t \in PopPending(a, m) <=> t[1] # a \/ t[2] # m
         /\ \A t \in shown :
               t \notin PopPending(a, m) => t[3] \in Pending(a, m)
         /\ Pending(a, m) = {} => PopPending(a, m) = shown
<1>1. \A t \in shown : /\ t = <<t[1], t[2], t[3]>> /\ t[1] \in Agent
                       /\ t[2] \in Rows /\ t[3] \in Rows
  BY DEF RefsOK
<1>2. DOMAIN log = Rows
  BY DEF LogOK, Rows
<1>3. \A t \in shown : t \in PopPending(a, m) <=> t[1] # a \/ t[2] # m
  BY DEF PopPending
<1>4. \A n : <<a, m, n>> \in shown => n \in Rows
  BY DEF RefsOK
<1>5. \A n : n \in Pending(a, m) <=> <<a, m, n>> \in shown
  BY <1>2, <1>4 DEF Pending
<1>6. \A t \in shown : t \notin PopPending(a, m) => t[3] \in Pending(a, m)
  BY <1>1, <1>3, <1>5
<1> QED
  BY <1>2, <1>3, <1>5, <1>6 DEF Pending, PopPending

LEMMA RepliesMove ==
  ASSUME LogOK, RefsOK, NEW a \in Agent, NEW m \in Rows,
         \/ DeltaReply(a, m) \/ RacingDelta(a, m) \/ FinalReply(a, m)
         \/ ErrorReply(a, m) \/ UntracedReply(a, m)
  PROVE  Moved(a, m)
<1> USE DEF histVars
<1>0. Pending(a, m) = {} => PopPending(a, m) = shown
  BY PendingFacts
<1>1. CASE DeltaReply(a, m) \/ RacingDelta(a, m)
  BY <1>1 DEF DeltaReply, RacingDelta, Opened, Moved
<1>2. CASE FinalReply(a, m)
  <2>1. CASE \E n \in Pending(a, m) : Settle(n, "complete") /\ PopHops(a, m)
               /\ UNCHANGED <<depth, todo, histVars>>
    BY <1>2, <2>1 DEF FinalReply, Settled, Moved
  <2>2. CASE /\ Pending(a, m) = {} /\ Answer(a, m, "complete") /\ Dispatch(a)
             /\ PopHops(a, m) /\ UNCHANGED stuck
    <3>1. UNCHANGED shown
      BY <1>0, <1>2, <2>2 DEF FinalReply
    <3> QED
      BY <2>2, <3>1 DEF Posted, Moved
  <2>3. CASE /\ stuck' = stuck \cup Pending(a, m)
             /\ UNCHANGED hopsOf \/ PopHops(a, m)
             /\ UNCHANGED <<log, depth, todo, uncounted, pressed>>
    BY <1>2, <2>3 DEF FinalReply, Kept, Moved
  <2> QED
    BY <1>2, <2>1, <2>2, <2>3 DEF FinalReply
<1>3. CASE ErrorReply(a, m)
  <2>1. CASE \E n \in Pending(a, m) : Settle(n, "error") /\ UNCHANGED stuck
    BY <1>3, <2>1 DEF ErrorReply, Settled, Moved
  <2>2. CASE UNCHANGED log /\ stuck' = stuck \cup Pending(a, m)
    BY <1>3, <2>2 DEF ErrorReply, Kept, Moved
  <2> QED
    BY <1>3, <2>1, <2>2 DEF ErrorReply
<1>4. CASE UntracedReply(a, m)
  BY <1>4 DEF UntracedReply, Posted, Moved, New
<1> QED
  BY <1>1, <1>2, <1>3, <1>4

\* The turns in which an ACP agent replies.
Replying(a, m) == \/ Delta(a, m) \/ Final(a, m) \/ Refusal(a, m)
                  \/ TurnFails(a, m) \/ LateDelta(a, m)

LEMMA TurnsMove ==
  ASSUME LogOK, RefsOK, NEW a \in acp, NEW m \in Id, Replying(a, m)
  PROVE  /\ a \in Agent /\ m \in Rows /\ Moved(a, m)
         /\ UNCHANGED <<queue, stream, inbox, acp, loop>>
<1> USE DEF acpVars, histVars
<1>1. a \in Agent /\ m \in Rows
  BY DEF Replying, Delta, Final, Refusal, TurnFails, LateDelta, At, RefsOK
<1>2. CASE Delta(a, m) \/ Final(a, m) \/ Refusal(a, m)
  <2>1. DeltaReply(a, m) \/ FinalReply(a, m) \/ ErrorReply(a, m)
    BY <1>2 DEF Delta, Final, Refusal
  <2>2. UNCHANGED <<queue, stream, inbox, acp, loop>>
    BY <1>2 DEF Delta, Final, Refusal
  <2> QED
    BY <1>1, <2>1, <2>2, RepliesMove
<1>3. CASE TurnFails(a, m)
  <2>1. CASE ErrorReply(a, m)
    BY <1>1, <1>3, <2>1, RepliesMove DEF TurnFails
  <2>2. CASE /\ stuck' = stuck \cup Pending(a, m)
             /\ UNCHANGED <<log, depth, todo, hopsOf, shown, uncounted, pressed>>
    BY <1>1, <1>3, <2>2 DEF TurnFails, Kept, Moved
  <2> QED
    BY <1>3, <2>1, <2>2 DEF TurnFails
<1>4. CASE LateDelta(a, m)
  <2>1. /\ stuck' = stuck \cup {New}
        /\ UNCHANGED <<queue, stream, inbox, acp, loop>>
    BY <1>4 DEF LateDelta, New
  <2>2. CASE Pending(a, m) = {} /\ Open(a, m)
    BY <1>1, <2>1, <2>2 DEF Opened, Moved
  <2>3. CASE Stray(a, m, "streaming") /\ UNCHANGED <<todo, hopsOf, shown>>
    BY <1>1, <2>1, <2>3 DEF Posted, Moved
  <2> QED
    BY <1>4, <2>2, <2>3 DEF LateDelta
<1> QED
  BY <1>2, <1>3, <1>4 DEF Replying

\* The steps that leave the log alone.
Quiet == /\ UNCHANGED <<log, depth, shown, stuck, uncounted>>
         /\ UNCHANGED <<hopsOf, pressed>> \/ \E t \in todo : Enqueue(t[1], t[2], t[3])

LEMMA StepKinds ==
  ASSUME LogOK, RefsOK, [Next]_vars
  PROVE  \/ UserSays \/ Restart \/ Quiet
         \/ \E a \in Agent, m \in Rows : Moved(a, m)
<1> USE DEF bridgeVars, acpVars, histVars
<1>1. CASE Route
  <2>1. PICK t \in todo : \/ Skip(t[1], t[2], t[3]) \/ Enqueue(t[1], t[2], t[3])
                          \/ HandleMessage(t[1], t[2], t[3])
    BY <1>1 DEF Route
  <2>2. CASE Skip(t[1], t[2], t[3])
    BY <2>2 DEF Skip, Quiet
  <2>3. CASE Enqueue(t[1], t[2], t[3])
    BY <2>3 DEF Enqueue, Accept, Quiet
  <2>4. CASE HandleMessage(t[1], t[2], t[3])
    BY <2>4 DEF HandleMessage, Accept, Bridged, Quiet
  <2> QED
    BY <2>1, <2>2, <2>3, <2>4
<1>2. ASSUME NEW a \in Bridged, Subscribe(a) \/ Disconnect(a) \/ Yield(a)
      PROVE  Quiet
  BY <1>2 DEF Subscribe, Disconnect, Yield, Quiet
<1>3. ASSUME NEW a \in Bridged, NEW m \in Id, Reply(a, m)
      PROVE  a \in Agent /\ m \in Rows /\ Moved(a, m)
  <2>1. a \in Agent /\ m \in Rows
    BY <1>3 DEF Reply, Bridged, RefsOK
  <2>2. \/ DeltaReply(a, m) \/ RacingDelta(a, m) \/ FinalReply(a, m)
        \/ ErrorReply(a, m) \/ UntracedReply(a, m)
    BY <1>3 DEF Reply
  <2> QED
    BY <2>1, <2>2, RepliesMove
<1>4. ASSUME NEW a \in acp, NEW m \in Id, SafePoint(a, m)
      PROVE  Quiet
  BY <1>4 DEF SafePoint, Quiet
<1>5. CASE \E a \in acp : Turn(a)
  <2>1. PICK a \in acp, m \in Id : Replying(a, m) \/ SafePoint(a, m)
    BY <1>5 DEF Turn, Replying
  <2> QED
    BY <1>4, <2>1, TurnsMove
<1>6. CASE \E a \in Bridged : \/ Subscribe(a) \/ Disconnect(a) \/ Yield(a)
                             \/ \E m \in Id : Reply(a, m)
  BY <1>2, <1>3, <1>6
<1>7. CASE UNCHANGED vars
  BY <1>7 DEF vars, Quiet
<1> QED
  BY <1>1, <1>5, <1>6, <1>7 DEF Next

\* A message of an agent is a new row.
LEMMA AgentSays ==
  ASSUME LogOK, RefsOK, Counted, NEW a \in Agent, NEW m \in Rows,
         NEW s \in {"streaming", "complete"}, Answer(a, m, s) \/ Stray(a, m, s)
  PROVE  /\ LogOK' /\ Rows' = Rows \cup {New} /\ New \notin Rows
         /\ Len(log') = New
         /\ \A n \in Rows : log'[n] = log[n] /\ depth'[n] = depth[n]
         /\ log'[New].state = s /\ log'[New].author = a
         /\ depth'[New] = depth[m] + 1
         /\ Answer(a, m, s) => log'[New].hops = Hops(a, m)
<1>1. depth[m] + 1 \in Nat
  BY DEF LogOK, Rows
<1>2. Len(log) \in Nat /\ 0 <= Len(log)
  BY DEF LogOK
<1>3. Hops(a, m) \in Nat /\ Hops(a, m) <= Len(log)
  BY HopsValue
<1>4. CASE Say(a, s, Hops(a, m), depth[m] + 1)
  BY <1>1, <1>3, <1>4, SayExtends
<1>5. CASE Stray(a, m, s) /\ ~ Answer(a, m, s)
  <2>1. Say(a, s, 0, depth[m] + 1)
    BY <1>5 DEF Stray
  <2> QED
    BY <1>1, <1>2, <1>5, <2>1, SayExtends
<1> QED
  BY <1>4, <1>5 DEF Answer

\* The log only grows, and rows keep their authors and their counts.
LEMMA LogStep ==
  ASSUME LogOK, RefsOK, Counted, [Next]_vars
  PROVE  /\ LogOK' /\ Rows \subseteq Rows'
         /\ \A n \in Rows : /\ log'[n].hops = log[n].hops
                            /\ log'[n].author = log[n].author
                            /\ depth'[n] = depth[n]
<1>1. CASE UNCHANGED <<log, depth>>
  BY <1>1 DEF LogOK, Rows
<1>2. CASE UserSays
  <2>1. Say("user", "complete", 0, 0)
    BY <1>2 DEF UserSays
  <2>2. Len(log) \in Nat /\ 0 <= Len(log)
    BY DEF LogOK
  <2> QED
    BY <2>1, <2>2, SayExtends
<1>3. ASSUME NEW a \in Agent, NEW m \in Rows, Settled(a, m)
      PROVE  /\ LogOK' /\ Rows \subseteq Rows'
             /\ \A n \in Rows : /\ log'[n].hops = log[n].hops
                                /\ log'[n].author = log[n].author
                                /\ depth'[n] = depth[n]
  <2>1. PICK n \in Pending(a, m), s \in {"complete", "error"} : Settle(n, s)
    BY <1>3 DEF Settled
  <2>2. n \in Rows /\ UNCHANGED depth
    BY <1>3, PendingFacts DEF Settled
  <2> QED
    BY <2>1, <2>2, SettleKeeps
<1>4. ASSUME NEW a \in Agent, NEW m \in Rows, Opened(a, m) \/ Posted(a, m)
      PROVE  /\ LogOK' /\ Rows \subseteq Rows'
             /\ \A n \in Rows : /\ log'[n].hops = log[n].hops
                                /\ log'[n].author = log[n].author
                                /\ depth'[n] = depth[n]
  <2>1. PICK s \in {"streaming", "complete"} : Answer(a, m, s) \/ Stray(a, m, s)
    BY <1>4 DEF Opened, Posted, Open
  <2> QED
    BY <2>1, AgentSays
<1> QED
  BY <1>1, <1>2, <1>3, <1>4, StepKinds DEF Restart, Quiet, Moved, Kept

----------------------------------------------------------------------------
(* References and turns *)

LEMMA DispatchType ==
  ASSUME NEW R, NEW author, Len(log) + 1 \in R,
         todo \subseteq R \X Agent \X BOOLEAN, Dispatch(author)
  PROVE  todo' \subseteq R \X Agent \X BOOLEAN
<1>1. \A a \in Agent, f \in BOOLEAN :
        <<Len(log) + 1, a, f>> \in R \X Agent \X BOOLEAN
  OBVIOUS
<1>2. CASE todo' = todo \cup {<<Len(log) + 1, a, FALSE>> :
                                a \in Agent \ {author}}
  BY <1>1, <1>2
<1>3. ASSUME NEW a \in Agent \ {author},
             todo' = todo \cup {<<Len(log) + 1, a, TRUE>>}
      PROVE  todo' \subseteq R \X Agent \X BOOLEAN
  BY <1>1, <1>3
<1> QED
  BY <1>2, <1>3 DEF Dispatch

LEMMA AppendType ==
  ASSUME NEW q \in [Agent -> Seq(Nat)], NEW R, NEW b \in Agent,
         NEW m \in Nat, m \in R,
         \A a \in Agent : \A k \in 1..Len(q[a]) : q[a][k] \in R
  PROVE  LET new == [q EXCEPT ![b] = Append(@, m)] IN
           /\ new \in [Agent -> Seq(Nat)]
           /\ \A a \in Agent : \A k \in 1..Len(new[a]) : new[a][k] \in R
OBVIOUS

\* References stay good when the log grows.
LEMMA Monotone ==
  ASSUME RefsOK, Rows \subseteq Rows'
  PROVE  /\ todo \subseteq Rows' \X Agent \X BOOLEAN
         /\ \A a \in Agent : \A k \in 1..Len(queue[a]) : queue[a][k] \in Rows'
         /\ inbox \in [Agent -> SUBSET Rows']
         /\ hopsOf \in [Agent -> SUBSET (Rows' \X Nat)]
         /\ turns \in [Agent -> SUBSET (Rows' \X Phase)]
         /\ shown \subseteq Agent \X Rows' \X Rows'
<1>1. /\ todo \subseteq Rows' \X Agent \X BOOLEAN
      /\ inbox \in [Agent -> SUBSET Rows']
      /\ shown \subseteq Agent \X Rows' \X Rows'
  BY DEF RefsOK
<1>2. hopsOf \in [Agent -> SUBSET (Rows' \X Nat)]
  BY DEF RefsOK
<1>3. turns \in [Agent -> SUBSET (Rows' \X Phase)]
  BY DEF RefsOK
<1> QED
  BY <1>1, <1>2, <1>3 DEF RefsOK

\* What a reply hands on, forgets or shows is a row.
LEMMA MovedRefs ==
  ASSUME LogOK, RefsOK, Counted, NEW a \in Agent, NEW m \in Rows, Moved(a, m),
         Rows \subseteq Rows'
  PROVE  /\ todo' \subseteq Rows' \X Agent \X BOOLEAN
         /\ hopsOf' \in [Agent -> SUBSET (Rows' \X Nat)]
         /\ shown' \subseteq Agent \X Rows' \X Rows'
<1>1. /\ todo \subseteq Rows' \X Agent \X BOOLEAN
      /\ hopsOf \in [Agent -> SUBSET (Rows' \X Nat)]
      /\ shown \subseteq Agent \X Rows' \X Rows'
  BY Monotone
<1>2. UNCHANGED hopsOf \/ PopHops(a, m)
  BY DEF Moved, Kept, Settled, Opened, Open, Posted
<1>3. hopsOf' \in [Agent -> SUBSET (Rows' \X Nat)]
  BY <1>1, <1>2 DEF PopHops
<1>4. PopPending(a, m) \subseteq shown
  BY PendingFacts
<1>5. CASE Kept(a, m) \/ Settled(a, m)
  BY <1>1, <1>3, <1>4, <1>5 DEF Kept, Settled
<1>6. CASE Opened(a, m)
  <2>1. New \in Rows'
    BY <1>6, AgentSays DEF Opened, Open
  <2>2. UNCHANGED todo /\ shown' = PopPending(a, m) \cup {<<a, m, New>>}
    BY <1>6 DEF Opened, Open, New
  <2> QED
    BY <1>1, <1>3, <1>4, <2>1, <2>2
<1>7. CASE Posted(a, m)
  <2>1. New \in Rows'
    BY <1>7, AgentSays DEF Posted
  <2>2. todo' \subseteq Rows' \X Agent \X BOOLEAN
    BY <1>1, <1>7, <2>1, DispatchType DEF Posted, New
  <2> QED
    BY <1>1, <1>3, <1>7, <2>2 DEF Posted
<1> QED
  BY <1>5, <1>6, <1>7 DEF Moved

\* Every reference stays a reference to a row.
LEMMA RefsStep ==
  ASSUME LogOK, RefsOK, Counted, [Next]_vars
  PROVE  RefsOK'
<1> USE DEF bridgeVars, acpVars, histVars
<1>r. /\ Rows \subseteq Rows' /\ acp \subseteq Agent
      /\ todo \subseteq Rows' \X Agent \X BOOLEAN
      /\ queue \in [Agent -> Seq(Nat)]
      /\ \A a \in Agent : \A k \in 1..Len(queue[a]) : queue[a][k] \in Rows'
      /\ stream \in [Agent -> {"none", "live", "dead"}]
      /\ inbox \in [Agent -> SUBSET Rows']
      /\ hopsOf \in [Agent -> SUBSET (Rows' \X Nat)]
      /\ loop \in [Agent -> {"idle", "working"}]
      /\ turns \in [Agent -> SUBSET (Rows' \X Phase)]
      /\ shown \subseteq Agent \X Rows' \X Rows'
  BY LogStep, Monotone DEF RefsOK
<1>1. CASE UserSays
  <2>1. UNCHANGED <<queue, shown, bridgeVars, acpVars>>
    BY <1>1 DEF UserSays
  <2>2. Len(log) + 1 \in Rows'
    <3>1. Len(log) \in Nat /\ Len(log') = Len(log) + 1
      BY <1>1 DEF UserSays, Say, LogOK
    <3> QED
      BY <3>1 DEF Rows
  <2>3. todo' \subseteq Rows' \X Agent \X BOOLEAN
    BY <1>1, <1>r, <2>2, DispatchType DEF UserSays
  <2> QED
    BY <1>r, <2>1, <2>3 DEF RefsOK
<1>2. ASSUME NEW t \in todo, Skip(t[1], t[2], t[3])
      PROVE  RefsOK'
  <2>1. /\ todo' \subseteq todo
        /\ UNCHANGED <<queue, shown, bridgeVars, acpVars>>
    BY <1>2 DEF Skip
  <2> QED
    BY <1>r, <2>1 DEF RefsOK
<1>3. ASSUME NEW t \in todo, Enqueue(t[1], t[2], t[3])
      PROVE  RefsOK'
  <2>1. PICK m \in Rows, b \in Agent, f \in BOOLEAN : t = <<m, b, f>>
    BY DEF RefsOK
  <2>2. /\ todo' \subseteq todo
        /\ hopsOf' = [hopsOf EXCEPT ![b] = {p \in @ : p[1] # m}
                                              \cup {<<m, log[m].hops + 1>>}]
        /\ queue' = [queue EXCEPT ![b] = Append(@, m)]
        /\ UNCHANGED <<stream, inbox, shown, acpVars>>
    BY <1>3, <2>1 DEF Enqueue, Accept
  <2>3. m \in Rows' /\ m \in Nat /\ log[m].hops + 1 \in Nat
    <3>1. log[m] \in Row /\ m \in Nat
      BY DEF LogOK, Rows
    <3> QED
      BY <1>r, <3>1 DEF Row
  <2>4. hopsOf' \in [Agent -> SUBSET (Rows' \X Nat)]
    BY <1>r, <2>2, <2>3
  <2>5. /\ queue' \in [Agent -> Seq(Nat)]
        /\ \A a \in Agent : \A k \in 1..Len(queue'[a]) : queue'[a][k] \in Rows'
    BY <1>r, <2>2, <2>3, AppendType
  <2> QED
    BY <1>r, <2>2, <2>4, <2>5 DEF RefsOK
<1>4. ASSUME NEW t \in todo, HandleMessage(t[1], t[2], t[3])
      PROVE  RefsOK'
  <2>1. PICK m \in Rows, b \in Agent, f \in BOOLEAN : t = <<m, b, f>>
    BY DEF RefsOK
  <2>2. /\ todo' \subseteq todo
        /\ UNCHANGED <<stream, inbox, hopsOf, acp, shown>>
    BY <1>4 DEF HandleMessage, Accept
  <2>3. m \in Rows' /\ m \in Nat
    <3>1. m \in Nat
      BY DEF Rows
    <3> QED
      BY <1>r, <3>1
  <2>4. CASE /\ loop' = [loop EXCEPT ![b] = "working"]
             /\ turns' = [turns EXCEPT ![b] = @ \cup {<<m, "driving">>}]
             /\ UNCHANGED queue
    <3>1. turns' \in [Agent -> SUBSET (Rows' \X Phase)]
      BY <1>r, <2>3, <2>4 DEF Phase
    <3> QED
      BY <1>r, <2>2, <2>4, <3>1 DEF RefsOK
  <2>5. CASE /\ queue' = [queue EXCEPT ![b] = Append(@, m)]
             /\ UNCHANGED <<loop, turns>>
    <3>1. /\ queue' \in [Agent -> Seq(Nat)]
          /\ \A a \in Agent : \A k \in 1..Len(queue'[a]) : queue'[a][k] \in Rows'
      BY <1>r, <2>3, <2>5
    <3> QED
      BY <1>r, <2>2, <2>5, <3>1 DEF RefsOK
  <2> QED
    BY <1>4, <2>1, <2>4, <2>5 DEF HandleMessage
<1>5. CASE Restart
  <2>1. /\ todo' = {} /\ queue' = [a \in Agent |-> <<>>]
        /\ stream' = [a \in Agent |-> "none"]
        /\ hopsOf' = [a \in Agent |-> {}]
        /\ loop' = [a \in Agent |-> "idle"]
        /\ turns' = [a \in Agent |-> {}]
        /\ shown' = {} /\ UNCHANGED <<acp, inbox>>
    BY <1>5 DEF Restart
  <2>2. /\ queue' \in [Agent -> Seq(Nat)]
        /\ \A a \in Agent : Len(queue'[a]) = 0
    BY <2>1
  <2> QED
    BY <1>r, <2>1, <2>2 DEF RefsOK
<1>6. ASSUME NEW a \in Bridged, Subscribe(a) \/ Disconnect(a)
      PROVE  RefsOK'
  <2>1. /\ \/ stream' = [stream EXCEPT ![a] = "live"]
           \/ stream' = [stream EXCEPT ![a] = "dead"]
        /\ UNCHANGED <<todo, queue, inbox, hopsOf, shown, acpVars>>
    BY <1>6 DEF Subscribe, Disconnect
  <2> QED
    BY <1>r, <2>1 DEF RefsOK
<1>7. ASSUME NEW a \in Bridged, Yield(a)
      PROVE  RefsOK'
  <2>1. /\ queue[a] # <<>> /\ a \in Agent
        /\ queue' = [queue EXCEPT ![a] = Tail(@)]
        /\ UNCHANGED <<todo, hopsOf, shown, acpVars>>
    BY <1>7 DEF Yield, Bridged
  <2>2. /\ Head(queue[a]) \in Rows' /\ Tail(queue[a]) \in Seq(Nat)
        /\ \A k \in 1..Len(Tail(queue[a])) : Tail(queue[a])[k] \in Rows'
    BY <1>r, <2>1
  <2>3. /\ queue' \in [Agent -> Seq(Nat)]
        /\ \A b \in Agent : \A k \in 1..Len(queue'[b]) : queue'[b][k] \in Rows'
    BY <1>r, <2>1, <2>2
  <2>4. /\ inbox' \in [Agent -> SUBSET Rows']
        /\ stream' \in [Agent -> {"none", "live", "dead"}]
    <3>1. CASE /\ inbox' = [inbox EXCEPT ![a] = @ \cup {Head(queue[a])}]
               /\ UNCHANGED stream
      BY <1>r, <2>1, <2>2, <3>1
    <3>2. CASE stream' = [stream EXCEPT ![a] = "none"] /\ UNCHANGED inbox
      BY <1>r, <3>2
    <3> QED
      BY <1>7, <3>1, <3>2 DEF Yield
  <2> QED
    BY <1>r, <2>1, <2>3, <2>4 DEF RefsOK
<1>8. ASSUME NEW a \in Bridged, NEW m \in Id, Reply(a, m)
      PROVE  RefsOK'
  <2>1. a \in Agent /\ m \in Rows /\ UNCHANGED <<queue, stream, inbox, acpVars>>
    BY <1>8 DEF Reply, Bridged, RefsOK
  <2>2. Moved(a, m)
    BY <1>8, <2>1, RepliesMove DEF Reply
  <2> QED
    BY <1>r, <2>1, <2>2, MovedRefs DEF RefsOK
<1>9. ASSUME NEW a \in acp, NEW m \in Id, Replying(a, m)
      PROVE  RefsOK'
  <2>1. /\ a \in Agent /\ m \in Rows /\ Moved(a, m)
        /\ UNCHANGED <<queue, stream, inbox, acp, loop>>
    BY <1>9, TurnsMove
  <2>2. \/ UNCHANGED turns
        \/ \E u \in Phase : turns' = [turns EXCEPT ![a] =
                               (@ \ {<<m, "driving">>}) \cup {<<m, u>>}]
    <3>1. CASE Final(a, m) \/ TurnFails(a, m)
      BY <3>1 DEF Final, TurnFails, At, Phase
    <3>2. CASE Delta(a, m) \/ Refusal(a, m) \/ LateDelta(a, m)
      BY <3>2 DEF Delta, Refusal, LateDelta
    <3> QED
      BY <1>9, <3>1, <3>2 DEF Replying
  <2>3. turns' \in [Agent -> SUBSET (Rows' \X Phase)]
    <3>1. ASSUME NEW u \in Phase,
                 turns' = [turns EXCEPT ![a] =
                             (@ \ {<<m, "driving">>}) \cup {<<m, u>>}]
          PROVE  turns' \in [Agent -> SUBSET (Rows' \X Phase)]
      <4>1. <<m, u>> \in Rows' \X Phase
        BY <1>r, <2>1, <3>1
      <4> QED
        BY <1>r, <2>1, <3>1, <4>1
    <3> QED
      BY <1>r, <2>2, <3>1
  <2> QED
    BY <1>r, <2>1, <2>3, MovedRefs DEF RefsOK
<1>10. ASSUME NEW a \in acp, NEW m \in Id, SafePoint(a, m)
       PROVE  RefsOK'
  <2> DEFINE rest == {s \in turns[a] : s[1] # m}
  <2>1. a \in Agent /\ UNCHANGED <<todo, bridgeVars, acp, shown>>
    BY <1>10 DEF SafePoint, RefsOK
  <2>2. CASE /\ turns' = [turns EXCEPT ![a] = rest] /\ UNCHANGED queue
             /\ loop' = [loop EXCEPT ![a] = "idle"]
    BY <1>r, <2>1, <2>2 DEF RefsOK
  <2>3. CASE /\ queue[a] # <<>>
             /\ turns' = [turns EXCEPT ![a] =
                            rest \cup {<<Head(queue[a]), "driving">>}]
             /\ queue' = [queue EXCEPT ![a] = Tail(@)] /\ UNCHANGED loop
    <3>1. /\ Head(queue[a]) \in Rows' /\ Tail(queue[a]) \in Seq(Nat)
          /\ \A k \in 1..Len(Tail(queue[a])) : Tail(queue[a])[k] \in Rows'
      BY <1>r, <2>1, <2>3
    <3>2. /\ queue' \in [Agent -> Seq(Nat)]
          /\ \A b \in Agent : \A k \in 1..Len(queue'[b]) : queue'[b][k] \in Rows'
      BY <1>r, <2>1, <2>3, <3>1
    <3>3. turns' \in [Agent -> SUBSET (Rows' \X Phase)]
      BY <1>r, <2>1, <2>3, <3>1 DEF Phase
    <3> QED
      BY <1>r, <2>1, <2>3, <3>2, <3>3 DEF RefsOK
  <2> QED
    BY <1>10, <2>2, <2>3 DEF SafePoint
<1>11. CASE UNCHANGED vars
  <2>1. UNCHANGED <<todo, queue, shown, bridgeVars, acpVars>>
    BY <1>11 DEF vars
  <2> QED
    BY <1>r, <2>1 DEF RefsOK
<1> QED
  BY <1>1, <1>2, <1>3, <1>4, <1>5, <1>6, <1>7, <1>8, <1>9, <1>10, <1>11
     DEF Next, Route, Turn, Replying

\* A loop starts a turn when it has none.
LEMMA SingleStep ==
  ASSUME RefsOK, Single, [Next]_vars
  PROVE  Single'
<1> USE DEF bridgeVars, acpVars, histVars
<1>1. CASE UNCHANGED <<loop, turns>>
  BY <1>1 DEF Single
<1>2. ASSUME NEW t \in todo, HandleMessage(t[1], t[2], t[3])
      PROVE  Single'
  <2>1. PICK m \in Rows, b \in Agent, f \in BOOLEAN : t = <<m, b, f>>
    BY DEF RefsOK
  <2>2. CASE /\ loop[b] = "idle"
             /\ loop' = [loop EXCEPT ![b] = "working"]
             /\ turns' = [turns EXCEPT ![b] = @ \cup {<<m, "driving">>}]
    <3>1. turns[b] = {}
      BY <2>2 DEF Single
    <3>2. /\ loop'[b] = "working" /\ turns'[b] = {<<m, "driving">>}
          /\ \A c \in Agent \ {b} : loop'[c] = loop[c] /\ turns'[c] = turns[c]
      BY <2>2, <3>1 DEF RefsOK
    <3>3. turns'[b] # {} /\ \A s, u \in turns'[b] : s = u
      BY <3>2
    <3> QED
      BY <3>2, <3>3 DEF Single
  <2> QED
    BY <1>1, <1>2, <2>1, <2>2 DEF HandleMessage
<1>3. CASE Restart
  BY <1>3 DEF Restart, Single
<1>4. ASSUME NEW a \in acp, NEW m \in Id, NEW u, At(a, m, "driving", u),
             UNCHANGED loop
      PROVE  Single'
  <2>1. /\ a \in Agent /\ <<m, "driving">> \in turns[a]
        /\ turns' = [turns EXCEPT ![a] = (@ \ {<<m, "driving">>})
                                            \cup {<<m, u>>}]
    BY <1>4 DEF At, RefsOK
  <2>2. turns[a] = {<<m, "driving">>}
    BY <2>1 DEF Single
  <2>3. /\ turns'[a] = {<<m, u>>}
        /\ \A c \in Agent \ {a} : turns'[c] = turns[c]
    BY <2>1, <2>2 DEF RefsOK
  <2>4. turns'[a] # {} /\ \A s, t \in turns'[a] : s = t
    BY <2>3
  <2>5. loop[a] # "idle"
    BY <2>1, <2>2 DEF Single
  <2> QED
    BY <1>4, <2>1, <2>3, <2>4, <2>5 DEF Single
<1>5. ASSUME NEW a \in acp, NEW m \in Id, SafePoint(a, m)
      PROVE  Single'
  <2> DEFINE rest == {s \in turns[a] : s[1] # m}
  <2>1. a \in Agent
    BY <1>5 DEF RefsOK
  <2>2. PICK u \in {"closing", "failed"} : <<m, u>> \in turns[a]
    BY <1>5 DEF SafePoint
  <2>3. turns[a] = {<<m, u>>} /\ rest = {}
    BY <2>1, <2>2 DEF Single
  <2>4. CASE /\ turns' = [turns EXCEPT ![a] = rest]
             /\ loop' = [loop EXCEPT ![a] = "idle"]
    <3>1. /\ turns'[a] = {} /\ loop'[a] = "idle"
          /\ \A c \in Agent \ {a} : turns'[c] = turns[c] /\ loop'[c] = loop[c]
      BY <2>1, <2>3, <2>4 DEF RefsOK
    <3> QED
      BY <3>1 DEF Single
  <2>5. CASE /\ turns' = [turns EXCEPT ![a] =
                            rest \cup {<<Head(queue[a]), "driving">>}]
             /\ UNCHANGED loop
    <3>1. /\ turns'[a] = {<<Head(queue[a]), "driving">>}
          /\ \A c \in Agent \ {a} : turns'[c] = turns[c]
      BY <2>1, <2>3, <2>5 DEF RefsOK
    <3>2. turns'[a] # {} /\ \A s, t \in turns'[a] : s = t
      BY <3>1
    <3>3. loop[a] # "idle"
      BY <2>1, <2>3 DEF Single
    <3> QED
      BY <2>1, <2>5, <3>1, <3>2, <3>3 DEF Single
  <2> QED
    BY <1>5, <2>4, <2>5 DEF SafePoint
<1>6. CASE Route
  BY <1>1, <1>2, <1>6 DEF Route, Skip, Enqueue, Accept
<1>7. CASE \E a \in Bridged : \/ Subscribe(a) \/ Disconnect(a) \/ Yield(a)
                             \/ \E m \in Id : Reply(a, m)
  BY <1>1, <1>7 DEF Subscribe, Disconnect, Yield, Reply
<1>8. ASSUME NEW a \in acp, Turn(a)
      PROVE  Single'
  <2>1. PICK m \in Id : \/ Delta(a, m) \/ Refusal(a, m) \/ LateDelta(a, m)
                        \/ Final(a, m) \/ TurnFails(a, m) \/ SafePoint(a, m)
    BY <1>8 DEF Turn
  <2>2. CASE Delta(a, m) \/ Refusal(a, m) \/ LateDelta(a, m)
    BY <1>1, <2>2 DEF Delta, Refusal, LateDelta
  <2>3. CASE Final(a, m) \/ TurnFails(a, m)
    BY <1>4, <2>3 DEF Final, TurnFails
  <2> QED
    BY <1>5, <2>1, <2>2, <2>3
<1> QED
  BY <1>1, <1>3, <1>6, <1>7, <1>8 DEF Next, UserSays, vars

----------------------------------------------------------------------------
(* Placeholders *)

\* A placeholder stays one of its agent, and is its trace's only one.
LEMMA PlaceholderStep ==
  ASSUME LogOK, RefsOK, Counted, Placeholder, [Next]_vars
  PROVE  Placeholder'
<1>0. \A t \in shown : /\ t = <<t[1], t[2], t[3]>> /\ t[1] \in Agent
                       /\ t[2] \in Rows /\ t[3] \in Rows
  BY DEF RefsOK
<1>1. CASE shown' \subseteq shown /\ \A n \in Rows : log'[n] = log[n]
  BY <1>0, <1>1 DEF Placeholder
<1>2. CASE UserSays
  <2>1. Say("user", "complete", 0, 0) /\ UNCHANGED shown
    BY <1>2 DEF UserSays
  <2>2. Len(log) \in Nat /\ 0 <= Len(log)
    BY DEF LogOK
  <2>3. \A n \in Rows : log'[n] = log[n]
    BY <2>1, <2>2, SayExtends
  <2> QED
    BY <1>1, <2>1, <2>3
<1>3. ASSUME NEW a \in Agent, NEW m \in Rows, Settled(a, m)
      PROVE  Placeholder'
  <2>1. PICK k \in Pending(a, m), s \in {"complete", "error"} : Settle(k, s)
    BY <1>3 DEF Settled
  <2>2. /\ k \in Rows /\ <<a, m, k>> \in shown /\ UNCHANGED depth
        /\ shown' = PopPending(a, m) /\ PopPending(a, m) \subseteq shown
        /\ \A t \in shown' : t[1] # a \/ t[2] # m
    BY <1>3, PendingFacts DEF Settled
  <2>3. \A n \in Rows : n # k => log'[n] = log[n]
    BY <2>1, <2>2, SettleKeeps
  <2>4. ASSUME NEW t \in shown', t[3] = k
        PROVE  FALSE
    <3>1. t \in shown
      BY <2>2
    <3>2. t[2] = m
      BY <2>2, <2>4, <3>1 DEF Placeholder
    <3>3. log[k].author = a /\ log[k].author = t[1]
      BY <2>2, <2>4, <3>1 DEF Placeholder
    <3> QED
      BY <2>2, <2>4, <3>2, <3>3
  <2>5. \A t \in shown' : t \in shown /\ t[3] \in Rows /\ log'[t[3]] = log[t[3]]
    BY <1>0, <2>2, <2>3, <2>4
  <2> QED
    BY <2>5 DEF Placeholder
<1>4. ASSUME NEW a \in Agent, NEW m \in Rows, Opened(a, m)
      PROVE  Placeholder'
  <2>1. Answer(a, m, "streaming") /\ shown' = PopPending(a, m) \cup {<<a, m, New>>}
    BY <1>4 DEF Opened, Open, New
  <2>2. /\ New \notin Rows /\ \A n \in Rows : log'[n] = log[n]
        /\ log'[New].state = "streaming" /\ log'[New].author = a
    BY <2>1, AgentSays
  <2>3. \A t \in PopPending(a, m) : t \in shown /\ (t[1] # a \/ t[2] # m)
    BY PendingFacts
  <2>5. \A t \in shown' : log'[t[3]].state = "streaming" /\ log'[t[3]].author = t[1]
    BY <1>0, <2>1, <2>2, <2>3 DEF Placeholder
  <2>6. ASSUME NEW s \in shown', NEW t \in shown'
        PROVE  /\ s[1] = t[1] /\ s[2] = t[2] => s[3] = t[3]
               /\ s[3] = t[3] => s[2] = t[2]
    <3>1. CASE s \in PopPending(a, m) /\ t \in PopPending(a, m)
      BY <2>3, <3>1 DEF Placeholder
    <3>2. CASE s = <<a, m, New>> /\ t = <<a, m, New>>
      BY <3>2
    <3>3. CASE s = <<a, m, New>> /\ t \in PopPending(a, m)
      BY <1>0, <2>2, <2>3, <3>3
    <3>4. CASE t = <<a, m, New>> /\ s \in PopPending(a, m)
      BY <1>0, <2>2, <2>3, <3>4
    <3> QED
      BY <2>1, <3>1, <3>2, <3>3, <3>4
  <2>7. /\ \A s, t \in shown' : s[1] = t[1] /\ s[2] = t[2] => s[3] = t[3]
        /\ \A s, t \in shown' : s[3] = t[3] => s[2] = t[2]
    BY <2>6
  <2> QED
    BY <2>5, <2>7 DEF Placeholder
<1>5. ASSUME NEW a \in Agent, NEW m \in Rows, Kept(a, m) \/ Posted(a, m)
      PROVE  Placeholder'
  <2>1. shown' \subseteq shown
    BY <1>5, PendingFacts DEF Kept, Posted
  <2>2. \A n \in Rows : log'[n] = log[n]
    BY <1>5, AgentSays DEF Kept, Posted
  <2> QED
    BY <1>1, <2>1, <2>2
<1>6. CASE Restart \/ Quiet
  BY <1>1, <1>6 DEF Restart, Quiet
<1> QED
  BY <1>2, <1>3, <1>4, <1>5, <1>6, StepKinds DEF Moved

\* A row streams while it is a placeholder.
LEMMA StreamsStep ==
  ASSUME LogOK, RefsOK, Counted, Placeholder, Streams, [Next]_vars
  PROVE  Streams'
<1>0. \A t \in shown : /\ t = <<t[1], t[2], t[3]>> /\ t[1] \in Agent
                       /\ t[2] \in Rows /\ t[3] \in Rows
  BY DEF RefsOK
<1>1. ASSUME \A n \in Rows' \ Rows : log'[n].state = "streaming" =>
                n \in stuck' \/ \E t \in shown' : t[3] = n,
             \A n \in Rows : log'[n].state = "streaming" =>
                log[n].state = "streaming",
             stuck \subseteq stuck',
             \A t \in shown : \/ t \in shown' \/ t[3] \in stuck'
                              \/ log'[t[3]].state # "streaming"
      PROVE  Streams'
  BY <1>1 DEF Streams
<1>2. CASE UserSays
  <2>1. Say("user", "complete", 0, 0) /\ UNCHANGED <<shown, stuck>>
    BY <1>2 DEF UserSays, histVars
  <2>2. Len(log) \in Nat /\ 0 <= Len(log)
    BY DEF LogOK
  <2>3. /\ Rows' = Rows \cup {New} /\ log'[New].state = "complete"
        /\ \A n \in Rows : log'[n] = log[n]
    BY <2>1, <2>2, SayExtends
  <2> QED
    BY <1>1, <2>1, <2>3
<1>3. ASSUME NEW a \in Agent, NEW m \in Rows, Settled(a, m)
      PROVE  Streams'
  <2>1. PICK k \in Pending(a, m), s \in {"complete", "error"} : Settle(k, s)
    BY <1>3 DEF Settled
  <2>2. /\ k \in Rows /\ <<a, m, k>> \in shown /\ UNCHANGED <<depth, stuck>>
        /\ shown' = PopPending(a, m)
        /\ \A t \in shown : t \in shown' <=> t[1] # a \/ t[2] # m
    BY <1>3, PendingFacts DEF Settled
  <2>3. /\ Rows' = Rows /\ log'[k].state = s
        /\ \A n \in Rows : n # k => log'[n] = log[n]
    BY <2>1, <2>2, SettleKeeps
  <2>4. \A t \in shown : t \notin shown' => t[3] = k
    BY <2>2 DEF Placeholder
  <2>5. \A n \in Rows : log'[n].state = "streaming" => log[n].state = "streaming"
    BY <2>3
  <2> QED
    BY <1>1, <2>2, <2>3, <2>4, <2>5
<1>4. ASSUME NEW a \in Agent, NEW m \in Rows, Opened(a, m)
      PROVE  Streams'
  <2>1. /\ Answer(a, m, "streaming") /\ stuck \subseteq stuck'
        /\ shown' = PopPending(a, m) \cup {<<a, m, New>>}
        /\ Pending(a, m) \subseteq stuck'
    BY <1>4 DEF Opened, Open, New
  <2>2. Rows' = Rows \cup {New} /\ \A n \in Rows : log'[n] = log[n]
    BY <2>1, AgentSays
  <2>3. \A t \in shown : t \in PopPending(a, m) \/ t[3] \in Pending(a, m)
    BY PendingFacts
  <2>4. \A t \in shown : t \in shown' \/ t[3] \in stuck'
    BY <2>1, <2>3
  <2>5. \E t \in shown' : t[3] = New
    <3>1. <<a, m, New>> \in shown' /\ <<a, m, New>>[3] = New
      BY <2>1
    <3> QED
      BY <3>1
  <2> QED
    BY <1>1, <2>1, <2>2, <2>4, <2>5
<1>5. ASSUME NEW a \in Agent, NEW m \in Rows, Posted(a, m)
      PROVE  Streams'
  <2>1. PICK s \in {"streaming", "complete"} :
               /\ Answer(a, m, s) \/ Stray(a, m, s)
               /\ s = "streaming" => New \in stuck'
    BY <1>5 DEF Posted
  <2>2. /\ Rows' = Rows \cup {New} /\ \A n \in Rows : log'[n] = log[n]
        /\ log'[New].state = s
    BY <2>1, AgentSays
  <2> QED
    BY <1>1, <1>5, <2>1, <2>2 DEF Posted
<1>6. ASSUME NEW a \in Agent, NEW m \in Rows, Kept(a, m)
      PROVE  Streams'
  <2>1. \A t \in shown : t \in PopPending(a, m) \/ t[3] \in Pending(a, m)
    BY PendingFacts
  <2>2. \A t \in shown : t \in shown' \/ t[3] \in stuck'
    BY <1>6, <2>1 DEF Kept
  <2> QED
    BY <1>1, <1>6, <2>2 DEF Kept, Rows
<1>7. CASE Restart
  BY <1>1, <1>7 DEF Restart, Rows
<1>8. CASE Quiet
  BY <1>1, <1>8 DEF Quiet, Rows
<1> QED
  BY <1>2, <1>3, <1>4, <1>5, <1>6, <1>7, <1>8, StepKinds DEF Moved

\* A turn that goes on to its end takes its placeholder with it.
LEMMA DrivenStep ==
  ASSUME LogOK, RefsOK, Single, Driven, [Next]_vars
  PROVE  Driven'
<1> USE DEF bridgeVars, acpVars, histVars
<1>0. /\ \A t \in shown : /\ t = <<t[1], t[2], t[3]>> /\ t[1] \in Agent
                          /\ t[2] \in Rows /\ t[3] \in Rows
      /\ acp \subseteq Agent /\ turns \in [Agent -> SUBSET (Rows \X Phase)]
  BY DEF RefsOK
<1>1. ASSUME UNCHANGED acp, shown' \subseteq shown, stuck \subseteq stuck',
             \A a \in Agent : turns[a] \subseteq turns'[a]
      PROVE  Driven'
  BY <1>0, <1>1 DEF Driven
<1>2. CASE UserSays
  BY <1>1, <1>2 DEF UserSays
<1>3. CASE Restart
  BY <1>3 DEF Restart, Driven
<1>4. ASSUME NEW t \in todo, Skip(t[1], t[2], t[3]) \/ Enqueue(t[1], t[2], t[3])
      PROVE  Driven'
  BY <1>1, <1>4 DEF Skip, Enqueue, Accept
<1>5. ASSUME NEW t \in todo, HandleMessage(t[1], t[2], t[3])
      PROVE  Driven'
  <2>1. UNCHANGED <<acp, shown, stuck>>
    BY <1>5 DEF HandleMessage, Accept
  <2>2. \A a \in Agent : turns[a] \subseteq turns'[a]
    BY <1>0, <1>5 DEF HandleMessage
  <2> QED
    BY <1>1, <2>1, <2>2
<1>6. ASSUME NEW a \in Bridged, Subscribe(a) \/ Disconnect(a) \/ Yield(a)
      PROVE  Driven'
  BY <1>1, <1>6 DEF Subscribe, Disconnect, Yield
<1>7. ASSUME NEW a \in Agent, NEW m \in Rows, Moved(a, m)
      PROVE  /\ stuck \subseteq stuck'
             /\ \A t \in shown' : \/ t \in shown \/ t = <<a, m, New>>
  <2>1. PopPending(a, m) \subseteq shown
    BY PendingFacts
  <2> QED
    BY <1>7, <2>1 DEF Moved, Kept, Settled, Opened, Open, Posted, New
<1>8. ASSUME NEW a \in Bridged, NEW m \in Id, Reply(a, m)
      PROVE  Driven'
  <2>1. /\ a \in Agent /\ a \notin acp /\ m \in Rows
        /\ UNCHANGED <<acp, turns>>
    BY <1>8 DEF Reply, Bridged, RefsOK
  <2>2. Moved(a, m)
    BY <1>8, <2>1, RepliesMove DEF Reply
  <2>3. stuck \subseteq stuck' /\ \A t \in shown' : t \in shown \/ t = <<a, m, New>>
    BY <1>7, <2>1, <2>2
  <2> QED
    BY <2>1, <2>3 DEF Driven
<1>9. ASSUME NEW a \in acp, NEW m \in Id, Delta(a, m) \/ Refusal(a, m)
      PROVE  Driven'
  <2>1. /\ a \in Agent /\ m \in Rows /\ Moved(a, m) /\ UNCHANGED <<acp, turns>>
    BY <1>9, TurnsMove DEF Replying, Delta, Refusal
  <2>2. stuck \subseteq stuck' /\ \A t \in shown' : t \in shown \/ t = <<a, m, New>>
    BY <1>7, <2>1
  <2>3. CASE Delta(a, m)
    BY <2>1, <2>2, <2>3 DEF Driven, Delta
  <2>4. CASE Refusal(a, m)
    <3>1. shown' \subseteq shown
      BY <2>1, <2>4, PendingFacts DEF Refusal, ErrorReply
    <3> QED
      BY <1>1, <2>1, <2>2, <3>1
  <2> QED
    BY <1>9, <2>3, <2>4
<1>10. ASSUME NEW a \in acp, NEW m \in Id, LateDelta(a, m)
       PROVE  Driven'
  <2>1. /\ a \in Agent /\ m \in Rows /\ Moved(a, m) /\ UNCHANGED <<acp, turns>>
    BY <1>10, TurnsMove DEF Replying, LateDelta
  <2>2. stuck \subseteq stuck' /\ \A t \in shown' : t \in shown \/ t = <<a, m, New>>
    BY <1>7, <2>1
  <2>3. New \in stuck'
    BY <1>10 DEF LateDelta, New
  <2> QED
    BY <2>1, <2>2, <2>3 DEF Driven
<1>11. ASSUME NEW a \in acp, NEW m \in Id, Final(a, m) \/ TurnFails(a, m)
       PROVE  Driven'
  <2>1. /\ a \in Agent /\ m \in Rows /\ Moved(a, m) /\ UNCHANGED acp
    BY <1>11, TurnsMove DEF Replying
  <2>2. stuck \subseteq stuck'
    BY <1>7, <2>1
  <2>3. PICK u : At(a, m, "driving", u)
    BY <1>11 DEF Final, TurnFails
  <2>4. \A c \in Agent : \A t \in turns[c] :
          c # a \/ t[1] # m => t \in turns'[c]
    BY <1>0, <2>1, <2>3 DEF At
  <2>5. ASSUME NEW t \in shown', t[1] = a, t[2] = m
        PROVE  t[3] \in stuck'
    <3>1. CASE shown' = PopPending(a, m)
      BY <2>1, <2>5, <3>1, PendingFacts
    <3>2. CASE UNCHANGED shown /\ stuck' = stuck \cup Pending(a, m)
      <4>1. <<a, m, t[3]>> \in shown
        BY <1>0, <2>5, <3>2
      <4> QED
        BY <2>1, <3>2, <4>1, PendingFacts
    <3> QED
      BY <1>11, <3>1, <3>2 DEF Final, TurnFails, FinalReply, ErrorReply
  <2>6. shown' \subseteq shown
    BY <1>11, <2>1, PendingFacts DEF Final, TurnFails, FinalReply, ErrorReply
  <2>7. ASSUME NEW t \in shown', t[1] \in acp', t[3] \notin stuck'
        PROVE  <<t[2], "driving">> \in turns'[t[1]]
    <3>1. t \in shown /\ t[1] \in acp /\ t[3] \notin stuck /\ t[1] \in Agent
      BY <1>0, <2>1, <2>2, <2>6, <2>7
    <3>2. <<t[2], "driving">> \in turns[t[1]] /\ (t[1] # a \/ t[2] # m)
      BY <2>5, <2>7, <3>1 DEF Driven
    <3> QED
      BY <2>4, <3>1, <3>2
  <2> QED
    BY <2>7 DEF Driven
<1>12. ASSUME NEW a \in acp, NEW m \in Id, SafePoint(a, m)
       PROVE  Driven'
  <2>1. a \in Agent /\ UNCHANGED <<acp, shown, stuck>>
    BY <1>0, <1>12 DEF SafePoint
  <2>2. PICK u \in {"closing", "failed"} : <<m, u>> \in turns[a]
    BY <1>12 DEF SafePoint
  <2>3. \A n : <<n, "driving">> \notin turns[a]
    BY <2>1, <2>2 DEF Single
  <2>4. \A c \in Agent : c # a => turns'[c] = turns[c]
    BY <1>0, <1>12, <2>1 DEF SafePoint
  <2> QED
    BY <1>0, <2>1, <2>3, <2>4 DEF Driven
<1>13. CASE UNCHANGED vars
  BY <1>1, <1>13 DEF vars
<1> QED
  BY <1>2, <1>3, <1>4, <1>5, <1>6, <1>8, <1>9, <1>10, <1>11, <1>12, <1>13
     DEF Next, Route, Turn

----------------------------------------------------------------------------
(* Hops *)

\* The counts survive as long as the rows they are about, what is added to
\* hopsOf is right, and no forced delivery is forgotten.
LEMMA KeepCounted ==
  ASSUME RefsOK, Counted,
         \A n \in Rows : log'[n].hops = log[n].hops /\ depth'[n] = depth[n],
         uncounted \subseteq uncounted', pressed \subseteq pressed',
         \A n \in Rows' \ Rows : n \notin uncounted' =>
           /\ depth'[n] <= log'[n].hops
           /\ <<n, "reply">> \notin pressed' => log'[n].hops <= MaxHops,
         \A a \in Agent : \A p \in hopsOf'[a] :
           \/ p \in hopsOf[a]
           \/ /\ p[1] \in Rows /\ p[2] = log[p[1]].hops + 1
              /\ <<p[1], a>> \notin pressed' => p[2] <= MaxHops
  PROVE  Counted'
<1>1. \A a \in Agent : \A p \in hopsOf[a] : p[1] \in Rows
  BY DEF RefsOK
<1>2. \A n \in Rows' \ uncounted' :
         /\ depth'[n] <= log'[n].hops
         /\ <<n, "reply">> \notin pressed' => log'[n].hops <= MaxHops
  BY DEF Counted
<1>3. \A a \in Agent : \A p \in hopsOf'[a] :
         /\ p[2] = log'[p[1]].hops + 1
         /\ <<p[1], a>> \notin pressed' => p[2] <= MaxHops
  BY <1>1 DEF Counted
<1> QED
  BY <1>2, <1>3 DEF Counted

\* A reply with a count carries one hop more than what it answers.
LEMMA AnswerCounts ==
  ASSUME LogOK, RefsOK, Counted, NEW a \in Agent, NEW m \in Rows,
         NEW s \in {"streaming", "complete"}, Answer(a, m, s) \/ Stray(a, m, s)
  PROVE  /\ uncounted \subseteq uncounted' /\ pressed \subseteq pressed'
         /\ New \notin uncounted' =>
              /\ depth'[New] <= log'[New].hops
              /\ <<New, "reply">> \notin pressed' => log'[New].hops <= MaxHops
<1>1. CASE Stray(a, m, s)
  BY <1>1 DEF Stray, New
<1>2. CASE Answer(a, m, s)
  <2>1. /\ uncounted' = IF m \in uncounted \/ \A p \in hopsOf[a] : p[1] # m
                        THEN uncounted \cup {New} ELSE uncounted
        /\ pressed' = IF <<m, a>> \in pressed
                      THEN pressed \cup {<<New, "reply">>} ELSE pressed
    BY <1>2 DEF Answer, New
  <2>2. log'[New].hops = Hops(a, m) /\ depth'[New] = depth[m] + 1
    BY <1>2, AgentSays
  <2> SUFFICES ASSUME New \notin uncounted'
               PROVE  /\ depth[m] + 1 <= Hops(a, m)
                      /\ \/ <<New, "reply">> \in pressed'
                         \/ Hops(a, m) <= MaxHops
    BY <2>1, <2>2
  <2>3. m \notin uncounted /\ \E p \in hopsOf[a] : p[1] = m
    BY <2>1
  <2>4. /\ Hops(a, m) = log[m].hops + 1
        /\ <<m, a>> \notin pressed => Hops(a, m) <= MaxHops
    BY <2>3, HopsValue
  <2>5. depth[m] <= log[m].hops
    BY <2>3 DEF Counted
  <2>6. log[m].hops \in Nat /\ depth[m] \in Nat
    <3>1. log[m] \in Row /\ depth[m] \in Nat
      BY DEF LogOK, Rows
    <3> QED
      BY <3>1 DEF Row
  <2>7. depth[m] + 1 <= Hops(a, m)
    BY <2>4, <2>5, <2>6
  <2> QED
    BY <2>1, <2>4, <2>7
<1> QED
  BY <1>1, <1>2

LEMMA CountedStep ==
  ASSUME LogOK, RefsOK, Counted, [Next]_vars
  PROVE  Counted'
<1> USE DEF bridgeVars, acpVars, histVars
<1>m. /\ \A n \in Rows : log'[n].hops = log[n].hops /\ depth'[n] = depth[n]
      /\ Rows \subseteq Rows'
  BY LogStep
<1>1. CASE UserSays
  <2>1. Say("user", "complete", 0, 0)
    BY <1>1 DEF UserSays
  <2>2. UNCHANGED <<hopsOf, uncounted, pressed>>
    BY <1>1 DEF UserSays
  <2>3. Len(log) \in Nat /\ 0 <= Len(log)
    BY DEF LogOK
  <2>4. /\ Rows' = Rows \cup {New}
        /\ log'[New].hops = 0 /\ depth'[New] = 0
    BY <2>1, <2>3, SayExtends
  <2>5. 0 <= MaxHops
    BY ChatAssumption
  <2> QED
    BY <1>m, <2>2, <2>4, <2>5, KeepCounted
<1>2. ASSUME NEW t \in todo, Enqueue(t[1], t[2], t[3])
      PROVE  Counted'
  <2>1. PICK m \in Rows, b \in Agent, f \in BOOLEAN : t = <<m, b, f>>
    BY DEF RefsOK
  <2>2. /\ b \in Bridged /\ MayRoute(m, f) /\ UNCHANGED <<log, uncounted>>
        /\ pressed' = IF f THEN pressed \cup {<<m, b>>} ELSE pressed
        /\ hopsOf' = [hopsOf EXCEPT ![b] = {p \in @ : p[1] # m}
                                              \cup {<<m, log[m].hops + 1>>}]
    BY <1>2, <2>1 DEF Enqueue, Accept
  <2>3. Rows' = Rows
    BY <2>2 DEF Rows
  <2>4. pressed \subseteq pressed' /\ (f => <<m, b>> \in pressed')
    BY <2>2
  <2>5. ASSUME NEW a \in Agent, NEW p \in hopsOf'[a]
        PROVE  \/ p \in hopsOf[a]
               \/ /\ p[1] \in Rows /\ p[2] = log[p[1]].hops + 1
                  /\ <<p[1], a>> \notin pressed' => p[2] <= MaxHops
    <3>1. CASE a # b
      BY <2>2, <3>1 DEF RefsOK
    <3>2. CASE a = b /\ p = <<m, log[m].hops + 1>>
      BY <2>2, <2>4, <3>2 DEF MayRoute
    <3> QED
      BY <2>2, <2>5, <3>1, <3>2 DEF RefsOK
  <2> QED
    BY <1>m, <2>2, <2>3, <2>4, <2>5, KeepCounted
<1>3. CASE Quiet /\ UNCHANGED <<hopsOf, pressed>>
  <2>1. UNCHANGED <<log, hopsOf, uncounted, pressed>> /\ Rows' = Rows
    BY <1>3 DEF Quiet, Rows
  <2> QED
    BY <1>m, <2>1, KeepCounted
<1>4. CASE Restart
  <2>1. /\ hopsOf' = [a \in Agent |-> {}]
        /\ UNCHANGED <<log, uncounted, pressed>> /\ Rows' = Rows
    BY <1>4 DEF Restart, Rows
  <2> QED
    BY <1>m, <2>1, KeepCounted
<1>5. ASSUME NEW a \in Agent, NEW m \in Rows, Moved(a, m)
      PROVE  Counted'
  <2>1. UNCHANGED hopsOf \/ PopHops(a, m)
    BY <1>5 DEF Moved, Kept, Settled, Opened, Open, Posted
  <2>2. \A b \in Agent : \A p \in hopsOf'[b] : p \in hopsOf[b]
    BY <2>1 DEF PopHops, RefsOK
  <2>3. CASE Kept(a, m) \/ Settled(a, m)
    <3>1. UNCHANGED <<uncounted, pressed>>
      BY <2>3 DEF Kept, Settled
    <3>2. Rows' = Rows
      <4>1. CASE Kept(a, m)
        BY <4>1 DEF Kept, Rows
      <4>2. CASE Settled(a, m)
        <5>1. PICK n \in Pending(a, m), s \in {"complete", "error"} :
                     Settle(n, s)
          BY <4>2 DEF Settled
        <5>2. n \in Rows /\ UNCHANGED depth
          BY <4>2, PendingFacts DEF Settled
        <5> QED
          BY <5>1, <5>2, SettleKeeps
      <4> QED
        BY <2>3, <4>1, <4>2
    <3> QED
      BY <1>m, <2>2, <3>1, <3>2, KeepCounted
  <2>4. CASE Opened(a, m) \/ Posted(a, m)
    <3>1. PICK s \in {"streaming", "complete"} :
                 Answer(a, m, s) \/ Stray(a, m, s)
      BY <2>4 DEF Opened, Posted, Open
    <3>2. Rows' = Rows \cup {New}
      BY <3>1, AgentSays
    <3>3. /\ uncounted \subseteq uncounted' /\ pressed \subseteq pressed'
          /\ New \notin uncounted' =>
               /\ depth'[New] <= log'[New].hops
               /\ <<New, "reply">> \notin pressed' => log'[New].hops <= MaxHops
      BY <3>1, AnswerCounts
    <3> QED
      BY <1>m, <2>2, <3>2, <3>3, KeepCounted
  <2> QED
    BY <1>5, <2>3, <2>4 DEF Moved
<1> QED
  BY <1>1, <1>2, <1>3, <1>4, <1>5, StepKinds DEF Quiet

----------------------------------------------------------------------------
(* The theorems *)

LEMMA InitialState ==
  ASSUME Init
  PROVE  CInv
<1> USE ChatAssumption DEF Init
<1>1. LogOK /\ Rows = {}
  BY DEF LogOK, Rows
<1>2. RefsOK
  BY <1>1 DEF RefsOK
<1>3. Single
  BY DEF Single
<1>4. Placeholder /\ Driven
  BY DEF Placeholder, Driven
<1>5. Streams /\ Counted
  BY <1>1 DEF Streams, Counted
<1> QED
  BY <1>1, <1>2, <1>3, <1>4, <1>5 DEF CInv

LEMMA ChatInvariant == Spec => []CInv
<1>1. Init => CInv
  BY InitialState
<1>2. CInv /\ [Next]_vars => CInv'
  BY LogStep, RefsStep, SingleStep, PlaceholderStep, DrivenStep, StreamsStep,
     CountedStep DEF CInv
<1> QED
  BY <1>1, <1>2, PTL DEF Spec

\* Whatever is routed, queued, answered, driven or shown is a row of the log,
\* and a loop says "working" exactly while it has a turn.
THEOREM ChatTypeCorrect == Spec => []TypeOK
<1>1. CInv => TypeOK
  <2> SUFFICES ASSUME CInv PROVE TypeOK
    OBVIOUS
  <2>1. Len(log) \in Nat /\ DOMAIN log = 1..Len(log) /\ Rows = 1..Len(log)
    BY DEF CInv, LogOK, Rows
  <2>2. ASSUME NEW n \in DOMAIN log
        PROVE  /\ log[n].author \in Agent \cup {"user"}
               /\ log[n].state \in {"streaming", "complete", "error"}
               /\ log[n].hops \in 0..(MaxHops + MaxMessages)
    <3>1. log[n] \in Row /\ log[n].hops < n /\ n \in Nat /\ n <= MaxMessages
      BY <2>1, ChatAssumption DEF CInv, LogOK, Rows
    <3>2. log[n].hops \in Nat
      BY <3>1 DEF Row
    <3>3. log[n].hops \in 0..(MaxHops + MaxMessages)
      BY <3>1, <3>2, ChatAssumption
    <3> QED
      BY <3>1, <3>3 DEF Row
  <2>3. ASSUME NEW a \in Agent
        PROVE  queue[a] \in Seq(1..Len(log))
    <3>1. /\ queue[a] \in Seq(Nat)
          /\ \A k \in 1..Len(queue[a]) : queue[a][k] \in 1..Len(log)
      BY <2>1 DEF CInv, RefsOK
    <3> QED
      BY <3>1
  <2>4. loop = [a \in Agent |-> IF turns[a] = {} THEN "idle" ELSE "working"]
    <3>1. loop \in [Agent -> {"idle", "working"}]
      BY DEF CInv, RefsOK
    <3>2. \A a \in Agent : loop[a] = IF turns[a] = {} THEN "idle" ELSE "working"
      BY <3>1 DEF CInv, Single
    <3> QED
      BY <3>1, <3>2
  <2>5. \A a \in Agent : turns[a] \subseteq (1..Len(log)) \X Phase
    BY <2>1 DEF CInv, RefsOK
  <2> QED
    BY <2>1, <2>2, <2>3, <2>4, <2>5 DEF TypeOK, CInv, RefsOK, LogOK, Phase
<1> QED
  BY <1>1, ChatInvariant, PTL

\* An agent's gateway session never has two prompts at once, whatever arrives
\* while a turn runs, fails or drains its queue.
THEOREM OneTurnAtATime == Spec => []OneTurn
<1>1. CInv => OneTurn
  <2> SUFFICES ASSUME CInv, NEW a \in acp
               PROVE  Cardinality(turns[a]) <= 1
    BY DEF OneTurn
  <2>1. \A s, t \in turns[a] : s = t
    BY DEF CInv, Single, RefsOK
  <2>2. CASE turns[a] = {}
    BY <2>2, FS_EmptySet
  <2>3. ASSUME NEW s \in turns[a]
        PROVE  Cardinality(turns[a]) <= 1
    <3>1. turns[a] = {s}
      BY <2>1, <2>3
    <3>2. Cardinality({s}) = 1
      BY FS_Singleton
    <3> QED
      BY <3>1, <3>2
  <2> QED
    BY <2>2, <2>3
<1> QED
  BY <1>1, ChatInvariant, PTL

\* A message reads "streaming" only while a final or an error reply can still
\* settle it, whatever bridges repeat, race or break off and turns fail; what
\* late and untraced chunks, unwritten traces and restarts leave is excepted.
THEOREM StreamsAreOwned == Spec => []StreamingIsOwned
<1>1. CInv => StreamingIsOwned
  <2> SUFFICES ASSUME CInv, NEW n \in DOMAIN log,
                      log[n].state = "streaming", n \notin stuck
               PROVE  \E a \in Agent, m \in Id :
                         /\ <<a, m, n>> \in shown
                         /\ a \in acp => <<m, "driving">> \in turns[a]
    BY DEF StreamingIsOwned
  <2>1. n \in Rows /\ Rows \subseteq Id
    BY ChatAssumption DEF CInv, LogOK, Rows, Id
  <2>2. PICK t \in shown : t[3] = n
    BY <2>1 DEF CInv, Streams
  <2>3. t = <<t[1], t[2], n>> /\ t[1] \in Agent /\ t[2] \in Id
    BY <2>1, <2>2 DEF CInv, RefsOK
  <2>4. t[1] \in acp => <<t[2], "driving">> \in turns[t[1]]
    BY <2>2 DEF CInv, Driven
  <2> QED
    BY <2>3, <2>4
<1> QED
  BY <1>1, ChatInvariant, PTL

\* "Hop cap (max_hops) stops agent-authored chains": for every max_hops, a
\* reply nobody forced, on a chain whose count came through, is at most
\* max_hops replies from the user, also after deltas, errors and repeats.
THEOREM ChainsAreCapped == Spec => []HopCap
<1>1. CInv => HopCap
  <2> SUFFICES ASSUME CInv, NEW n \in DOMAIN log \ uncounted,
                      <<n, "reply">> \notin pressed
               PROVE  depth[n] <= MaxHops
    BY DEF HopCap
  <2>1. n \in Rows /\ depth[n] \in Nat /\ log[n] \in Row
    BY DEF CInv, LogOK, Rows
  <2>2. depth[n] <= log[n].hops /\ log[n].hops <= MaxHops
    BY <2>1 DEF CInv, Counted
  <2>3. log[n].hops \in Nat /\ MaxHops \in Nat
    BY <2>1, ChatAssumption DEF Row
  <2> QED
    BY <2>1, <2>2, <2>3
<1> QED
  BY <1>1, ChatInvariant, PTL

\* A step settles only a row that streams.
LEMMA RowsStep ==
  ASSUME LogOK, RefsOK, Counted, Placeholder, [Next]_vars
  PROVE  RowsStable
<1>1. /\ DOMAIN log = Rows /\ LogOK' /\ Rows \subseteq Rows'
      /\ \A n \in Rows : log'[n].author = log[n].author
  BY LogStep DEF LogOK, Rows
<1>2. DOMAIN log' = Rows'
  BY <1>1 DEF LogOK, Rows
<1>3. ASSUME \A n \in Rows : log[n].state # "streaming" => log'[n] = log[n]
      PROVE  RowsStable
  BY <1>1, <1>2, <1>3 DEF RowsStable
<1>4. CASE UserSays
  <2>1. Say("user", "complete", 0, 0)
    BY <1>4 DEF UserSays
  <2>2. Len(log) \in Nat /\ 0 <= Len(log)
    BY DEF LogOK
  <2> QED
    BY <1>3, <2>1, <2>2, SayExtends
<1>5. ASSUME NEW a \in Agent, NEW m \in Rows, Settled(a, m)
      PROVE  RowsStable
  <2>1. PICK k \in Pending(a, m), s \in {"complete", "error"} : Settle(k, s)
    BY <1>5 DEF Settled
  <2>2. k \in Rows /\ <<a, m, k>> \in shown /\ UNCHANGED depth
    BY <1>5, PendingFacts DEF Settled
  <2>3. log[k].state = "streaming"
    BY <2>2 DEF Placeholder
  <2> QED
    BY <1>3, <2>1, <2>2, <2>3, SettleKeeps
<1>6. ASSUME NEW a \in Agent, NEW m \in Rows, Opened(a, m) \/ Posted(a, m)
      PROVE  RowsStable
  <2>1. PICK s \in {"streaming", "complete"} : Answer(a, m, s) \/ Stray(a, m, s)
    BY <1>6 DEF Opened, Posted, Open
  <2> QED
    BY <1>3, <2>1, AgentSays
<1>7. CASE UNCHANGED log
  BY <1>3, <1>7
<1> QED
  BY <1>4, <1>5, <1>6, <1>7, StepKinds DEF Moved, Kept, Quiet, Restart

\* What a reader has seen as complete or as an error is never rewritten, and
\* no agent writes into another's message: the placeholder that a final or
\* an error reply settles is the agent's own and still streams, whatever is
\* repeated, races, comes late or is cut off by a restart.
THEOREM MessagesAreFinal == Spec => HistoryStable
<1>1. CInv /\ [Next]_vars => [RowsStable]_vars
  BY RowsStep DEF CInv
<1> QED
  BY <1>1, ChatInvariant, PTL DEF Spec, HistoryStable
=============================================================================
