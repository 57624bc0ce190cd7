-------------------------- MODULE OnboardingProofs --------------------------
(***************************************************************************)
(* Onboarding is safe for any number of invites, redeemers, admins,        *)
(* requests and identities, whatever transitions of identities admins make *)
(* and whenever they make them.                                            *)
(***************************************************************************)
EXTENDS Onboarding, FiniteSetTheorems, TLAPS

Standing == {"active", "suspended", "revoked"}

\* An approval that has registered its row and not activated it, one that has
\* an active identity, and either.
Unsettled == {"activate", "undo", "delete"}
Passed    == {"commit", "grant", "decide"}
Targeted  == Unsettled \cup Passed

Shapes == /\ handle = [r \in Request |-> handle[r]]
          /\ name = [x \in Identity |-> name[x]]

Types ==
    /\ invite \in [Invite -> {"pending", "claimed", "redeemed", "revoked",
                              "expired"}]
    /\ kind \in [Invite -> Kinds]
    /\ req \in [Request -> {"absent", "pending", "accepted", "refused"}]
    /\ of \in [Request -> Invite \cup {None}]
    /\ cid \in [Request -> Identity \cup {None}]
    /\ by \in [Request -> {None, "admin", "invite"}]
    /\ ident \in [Identity -> {"absent", "pending", "active", "suspended",
                               "revoked", "rejected"}]
    /\ grants \subseteq Identity \X Request
    /\ undo \in [Identity -> {None, "pending", "suspended", "rejected"}]
    /\ pc \in [Process -> Approving \cup {"idle", "read", "claimed", "mark",
                                          "failed"}]
    /\ on \in [Process -> Request \cup {None}]
    /\ tgt \in [Process -> Identity \cup {None}]
    /\ cleanup \subseteq Request /\ stale \subseteq over

\* Where a process is says what it works on.
Places ==
    \A p \in Process :
        /\ pc[p] \in Approving \cup {"failed", "mark"} => on[p] \in Request
        /\ tgt[p] \in Identity <=> pc[p] \in Targeted
        /\ p \in Admin => pc[p] \in Approving \cup {"idle"}

\* A transaction is left open only by a handler that will roll it back, and
\* nothing has been revoked in it.
OpenWrites ==
    /\ Undone # {} => Dangling
    /\ \A x \in Identity : undo[x] # None => ident[x] # "revoked"

\* What is decided has an identity.
Decided ==
    \A r \in Request : cid[r] \in Identity <=> req[r] = "accepted"

\* The index keeps active handles apart.
Unique == \A x, y \in Identity :
             ident[x] = "active" /\ ident[y] = "active" /\ name[x] = name[y]
                 => x = y

\* The request of an approval is open, accepted by another approval, or
\* refused under its hands.
Open == \A p \in Process : pc[p] \in Approving =>
            /\ req[on[p]] # "absent"
            /\ req[on[p]] = "refused" => handle[on[p]] \in excused

\* The row of an approval is its own until it is activated: nobody else
\* registers it or deletes it.
Rows ==
    /\ \A p \in Process : pc[p] \in Unsettled =>
         name[tgt[p]] = handle[on[p]] /\ ident[tgt[p]] # "absent"
    /\ \A p, q \in Process :
         pc[p] \in Unsettled /\ pc[q] \in Unsettled /\ tgt[p] = tgt[q]
             => p = q

\* What an approval knows of its identity, if the handle is not excused ...
Target ==
    \A p \in Process : handle[on[p]] \notin excused =>
        /\ pc[p] \in Targeted => name[tgt[p]] = handle[on[p]]
        /\ pc[p] \in Unsettled => ident[tgt[p]] = "pending"
        /\ pc[p] \in Passed => ident[tgt[p]] = "active"

\* ... and what an accepted request does.
Accepted ==
    \A r \in Request : req[r] = "accepted" /\ handle[r] \notin excused =>
        name[cid[r]] = handle[r] /\ ident[cid[r]] = "active"

\* Every identity belongs to a request, or to an approval of its handle.
Owned ==
    \A x \in Identity \ DOMAIN Agents :
        ident[x] \in {"pending", "active"} /\ name[x] \notin excused =>
            \/ \E r \in Request : cid[r] = x
            \/ \E p \in Process : /\ tgt[p] = x /\ pc[p] \in Approving
                                  /\ handle[on[p]] = name[x]

\* What an approval and an accepted request know of an identity that nothing
\* has come between.
Usable ==
    /\ \A p \in Process :
         /\ pc[p] \in Unsettled =>
              ident[tgt[p]] = "pending" \/ tgt[p] \in disturbed
         /\ pc[p] \in Passed =>
              ident[tgt[p]] \in Standing \/ tgt[p] \in disturbed
         /\ pc[p] = "decide" => <<tgt[p], on[p]>> \in grants
    /\ \A r \in Request : req[r] = "accepted" =>
         /\ <<cid[r], r>> \in grants
         /\ ident[cid[r]] \in Standing \/ cid[r] \in disturbed

AInv == /\ Shapes /\ Types /\ Places /\ Decided /\ Unique /\ Open
        /\ Rows /\ Target /\ Accepted /\ Owned /\ Usable

\* Admins keep to the transitions.
LEMMA LifecycleSteps ==
  ASSUME NEW x \in Identity, NEW s, SetStatus(x, s)
  PROVE  /\ ident[x] \notin {"absent", "revoked"}
         /\ s \in {"pending", "active", "suspended", "revoked", "rejected"}
         /\ ident[x] \in {"active", "suspended"} => s \in Standing
<1>1. <<ident[x], s>> \in Transition
  BY OnboardingAssumption DEF SetStatus
<1> QED
  BY <1>1 DEF Transition, Standing

\* What leaving an approval does to the process.
LEMMA Leaving ==
  ASSUME Types, Places, NEW p \in Process, NEW l \in {"failed", "mark"},
         Leave(p, l), pc[p] \in Approving
  PROVE  /\ pc' \in [Process -> Approving \cup {"idle", "read", "claimed",
                                                "mark", "failed"}]
         /\ on' \in [Process -> Request \cup {None}]
         /\ tgt' \in [Process -> Identity \cup {None}]
         /\ Places'
         /\ \A q \in Process : q # p => /\ pc'[q] = pc[q] /\ on'[q] = on[q]
                                        /\ tgt'[q] = tgt[q]
         /\ pc'[p] = (IF p \in Redeemer THEN l ELSE "idle")
         /\ p \in Redeemer => on'[p] = on[p]
         /\ pc'[p] \notin Approving
<1> USE OnboardingAssumption
<1> USE DEF Types, Process, Approving, Targeted, Unsettled, Passed
<1>1. tgt' = [tgt EXCEPT ![p] = None]
  BY DEF Leave
<1>2. CASE p \in Redeemer
  <2>1. pc' = [pc EXCEPT ![p] = l] /\ on' = on
    BY <1>2 DEF Leave, To
  <2> QED
    BY <1>1, <1>2, <2>1 DEF Places
<1>3. CASE p \in Admin
  <2>1. pc' = [pc EXCEPT ![p] = "idle"] /\ on' = [on EXCEPT ![p] = None]
    BY <1>3 DEF Leave, Idle, To
  <2> QED
    BY <1>1, <1>3, <2>1 DEF Places
<1> QED
  BY <1>2, <1>3

\* What going on with an approval does to it.
LEMMA GoingOn ==
  ASSUME Types, NEW p \in Process, NEW l \in Approving, To(p, l)
  PROVE  /\ pc' \in [Process -> Approving \cup {"idle", "read", "claimed",
                                                "mark", "failed"}]
         /\ pc'[p] = l
         /\ \A q \in Process : q # p => pc'[q] = pc[q]
BY DEF Types, To

\* What a rollback leaves.
LEMMA RolledBack ==
  ASSUME Types
  PROVE  /\ Restored \in [Identity -> {"absent", "pending", "active",
                                       "suspended", "revoked", "rejected"}]
         /\ NothingOpen \in [Identity -> {None, "pending", "suspended",
                                          "rejected"}]
         /\ \A x \in Identity : /\ x \notin Undone => Restored[x] = ident[x]
                                /\ x \in Undone =>
                                     Restored[x] \notin {"absent", "active"}
                                /\ NothingOpen[x] = None
BY OnboardingAssumption DEF Types, Restored, NothingOpen, Undone, None

----------------------------------------------------------------------------
(* The statements that leave identities and their approvals alone *)

Bookkeeping ==
    \/ \E i \in Invite : ReadExpired(i) \/ WriteExpired(i) \/ RevokeInvite(i)
    \/ \E p \in Redeemer : Redeem(p)
    \/ \E r \in Request : \/ RefuseFailed(r) \/ DenyAuthRequest(r)
                          \/ \E h \in Claims : CreateAuthRequest(r, h)
                          \/ \E a \in Admin : ApproveAuthRequest(a, r)
    \/ UNCHANGED vars

Lifecycles == \E x \in Identity, s \in {t[2] : t \in Lifecycle} :
                  SetStatus(x, s)

Quiet ==
    /\ UNCHANGED <<ident, name, undo, grants, tgt, cid, disturbed>>
    /\ excused \subseteq excused'
    /\ \A q \in Process : pc[q] \in Targeted \/ pc'[q] \in Targeted =>
          pc'[q] = pc[q] /\ on'[q] = on[q]
    /\ \A r \in Request : req[r] # "absent" => handle'[r] = handle[r]
    /\ \A r \in Request : req'[r] = "accepted" <=> req[r] = "accepted"
    /\ handle = [r \in Request |-> handle[r]] =>
          handle' = [r \in Request |-> handle'[r]]

LEMMA NextSplit ==
  ASSUME [Next]_vars
  PROVE  \/ Bookkeeping \/ (\E p \in Process : Approve(p)) \/ Lifecycles
         \/ Crash
BY DEF Next, Bookkeeping, Lifecycles

\* A new request: what it does to the columns.
LEMMA Creating ==
  ASSUME Types, NEW r \in Request, NEW i \in Invite \cup {None}, NEW h,
         Create(r, i, h)
  PROVE  /\ req' \in [Request -> {"absent", "pending", "accepted", "refused"}]
         /\ of' \in [Request -> Invite \cup {None}]
         /\ req[r] = "absent" /\ req'[r] = "pending" /\ of'[r] = i
         /\ \A s \in Request : s # r => /\ req'[s] = req[s] /\ of'[s] = of[s]
         /\ \A s \in Request : req[s] # "absent" => handle'[s] = handle[s]
         /\ handle = [s \in Request |-> handle[s]] =>
              handle' = [s \in Request |-> handle'[s]]
         /\ UNCHANGED <<cid, by, cleanup>>
<1>1. /\ req[r] = "absent" /\ req' = [req EXCEPT ![r] = "pending"]
      /\ of' = [of EXCEPT ![r] = i] /\ handle' = [handle EXCEPT ![r] = h]
      /\ UNCHANGED <<cid, by, cleanup>>
  BY DEF Create
<1>2. \A s \in Request : req[s] # "absent" => handle'[s] = handle[s]
  BY <1>1
<1>3. handle = [s \in Request |-> handle[s]] =>
         handle' = [s \in Request |-> handle'[s]]
  BY <1>1
<1> QED
  BY <1>1, <1>2, <1>3 DEF Types

LEMMA BookkeepingIsQuiet ==
  ASSUME Types, Places, Bookkeeping
  PROVE  Quiet
<1> USE OnboardingAssumption
<1> USE DEF inviteVars, requestVars, agentVars, procVars, histVars, Quiet,
        Targeted, Unsettled, Passed
<1>0. /\ \A p \in Redeemer : p \in Process /\ Link[p] \in Invite
      /\ \A a \in Admin : a \in Process
      /\ pc = [q \in Process |-> pc[q]] /\ on = [q \in Process |-> on[q]]
  BY DEF Process, Types
<1>1. ASSUME NEW i \in Invite,
             ReadExpired(i) \/ WriteExpired(i) \/ RevokeInvite(i)
      PROVE  Quiet
  BY <1>1 DEF ReadExpired, WriteExpired, RevokeInvite
<1>2. ASSUME NEW p \in Redeemer, ReadInvite(p) PROVE Quiet
  BY <1>0, <1>2 DEF ReadInvite, To
<1>3. ASSUME NEW p \in Redeemer, ClaimInvite(p) PROVE Quiet
  <2>1. pc[p] = "read" /\ (To(p, "claimed") \/ To(p, "idle"))
    BY <1>3 DEF ClaimInvite
  <2>2. \A q \in Process : pc[q] \in Targeted \/ pc'[q] \in Targeted =>
          pc'[q] = pc[q]
    BY <1>0, <2>1 DEF To
  <2> QED
    BY <1>3, <2>2 DEF ClaimInvite
<1>4. ASSUME NEW p \in Redeemer, NEW r \in Request, CreateForInvite(p, r)
      PROVE  Quiet
  <2>1. Create(r, Link[p], Deduped)
    BY <1>4 DEF CreateForInvite
  <2>2. /\ req[r] = "absent" /\ req'[r] = "pending"
        /\ \A s \in Request : s # r => req'[s] = req[s]
        /\ \A s \in Request : req[s] # "absent" => handle'[s] = handle[s]
        /\ handle = [s \in Request |-> handle[s]] =>
             handle' = [s \in Request |-> handle'[s]]
        /\ UNCHANGED cid
    BY <1>0, <2>1, Creating
  <2>3. \A q \in Process : pc[q] \in Targeted \/ pc'[q] \in Targeted =>
          pc'[q] = pc[q] /\ on'[q] = on[q]
    BY <1>0, <1>4 DEF CreateForInvite, To
  <2>4. UNCHANGED <<ident, name, undo, grants, tgt, disturbed, excused>>
    BY <1>4 DEF CreateForInvite
  <2> QED
    BY <2>2, <2>3, <2>4
\* A redeemer that is done.
<1>5. ASSUME NEW p \in Redeemer, Idle(p), pc[p] \notin Targeted
      PROVE  \A q \in Process : pc[q] \in Targeted \/ pc'[q] \in Targeted =>
                pc'[q] = pc[q] /\ on'[q] = on[q]
  BY <1>0, <1>5 DEF Idle, To
<1>6. ASSUME NEW p \in Redeemer, CreateFails(p) PROVE Quiet
  <2>1. /\ pc[p] = "claimed" /\ Idle(p)
        /\ UNCHANGED <<ident, name, undo, grants, tgt, disturbed, excused>>
    BY <1>6 DEF CreateFails
  <2>2. CASE UNCHANGED requestVars
    BY <1>5, <2>1, <2>2
  <2>3. ASSUME NEW r \in Request, Create(r, None, Deduped) PROVE Quiet
    <3>1. /\ req[r] = "absent" /\ req'[r] = "pending"
          /\ \A s \in Request : s # r => req'[s] = req[s]
          /\ \A s \in Request : req[s] # "absent" => handle'[s] = handle[s]
          /\ handle = [s \in Request |-> handle[s]] =>
               handle' = [s \in Request |-> handle'[s]]
          /\ UNCHANGED cid
      BY <2>3, Creating
    <3> QED
      BY <1>5, <2>1, <3>1
  <2> QED
    BY <1>6, <2>2, <2>3 DEF CreateFails
<1>7. ASSUME NEW p \in Redeemer,
             MarkRedeemed(p) \/ MarkFails(p) \/ ApproveFailed(p)
      PROVE  Quiet
  <2>1. /\ pc[p] \notin Targeted /\ Idle(p)
        /\ UNCHANGED <<ident, name, undo, grants, tgt, disturbed, excused,
                       req, handle, cid>>
    BY <1>7 DEF MarkRedeemed, MarkFails, ApproveFailed
  <2> QED
    BY <1>5, <2>1
<1>8. ASSUME NEW r \in Request, RefuseFailed(r) PROVE Quiet
  <2>1. \A s \in Request : req'[s] = "accepted" <=> req[s] = "accepted"
    BY <1>8 DEF RefuseFailed, Types
  <2> QED
    BY <1>8, <2>1 DEF RefuseFailed, Excuse
<1>9. ASSUME NEW r \in Request, DenyAuthRequest(r) PROVE Quiet
  <2>1. \A s \in Request : req'[s] = "accepted" <=> req[s] = "accepted"
    BY <1>9 DEF DenyAuthRequest, Types
  <2> QED
    BY <1>9, <2>1 DEF DenyAuthRequest, Excuse
<1>10. ASSUME NEW r \in Request, NEW h \in Claims, CreateAuthRequest(r, h)
       PROVE  Quiet
  <2>1. Create(r, None, h)
    BY <1>10 DEF CreateAuthRequest
  <2>2. /\ req[r] = "absent" /\ req'[r] = "pending"
        /\ \A s \in Request : s # r => req'[s] = req[s]
        /\ \A s \in Request : req[s] # "absent" => handle'[s] = handle[s]
        /\ handle = [s \in Request |-> handle[s]] =>
             handle' = [s \in Request |-> handle'[s]]
        /\ UNCHANGED cid
    BY <2>1, Creating
  <2> QED
    BY <1>10, <2>2 DEF CreateAuthRequest
<1>11. ASSUME NEW a \in Admin, NEW r \in Request, ApproveAuthRequest(a, r)
       PROVE  Quiet
  BY <1>0, <1>11 DEF ApproveAuthRequest, To
<1>12. CASE UNCHANGED vars
  BY <1>12 DEF vars
<1> QED
  BY <1>1, <1>2, <1>3, <1>4, <1>6, <1>7, <1>8, <1>9, <1>10, <1>11, <1>12
  DEF Bookkeeping, Redeem

\* Every statement keeps the types.
LEMMA TypesStep ==
  ASSUME Types, Places, [Next]_vars
  PROVE  Types'
<1> USE OnboardingAssumption
<1> USE DEF inviteVars, requestVars, agentVars, procVars, histVars, Types,
        Process, Approving, Targeted, Unsettled, Passed, Places
<1>1. ASSUME NEW i \in Invite, ReadExpired(i)
      PROVE  Types'
  BY <1>1 DEF ReadExpired
<1>2. ASSUME NEW i \in Invite, WriteExpired(i)
      PROVE  Types'
  BY <1>2 DEF WriteExpired
<1>3. ASSUME NEW i \in Invite, RevokeInvite(i)
      PROVE  Types'
  BY <1>3 DEF RevokeInvite
<1>4. ASSUME NEW p \in Redeemer, ReadInvite(p)
      PROVE  Types'
  BY <1>4 DEF ReadInvite, To
<1>5. ASSUME NEW p \in Redeemer, ClaimInvite(p)
      PROVE  Types'
  <2>1. CASE invite' = [invite EXCEPT ![Link[p]] = "claimed"] /\ To(p, "claimed")
    BY <1>5, <2>1 DEF ClaimInvite, To
  <2>2. CASE To(p, "idle") /\ UNCHANGED invite
    BY <1>5, <2>2 DEF ClaimInvite, To
  <2> QED
    BY <1>5, <2>1, <2>2 DEF ClaimInvite
<1>6. ASSUME NEW p \in Redeemer, NEW r \in Request, CreateForInvite(p, r)
      PROVE  Types'
  BY <1>6 DEF CreateForInvite, Create, To
<1>7. ASSUME NEW p \in Redeemer, CreateFails(p)
      PROVE  Types'
  <2>1. Idle(p) /\ pc[p] = "claimed"
        /\ UNCHANGED <<kind, over, stale, ident, grants, undo, tgt>>
    BY <1>7 DEF CreateFails
  <2>2. invite' \in [Invite -> {"pending", "claimed", "redeemed", "revoked",
                                "expired"}]
    BY <1>7 DEF CreateFails, FromClaimed
  <2>3. /\ pc' = [pc EXCEPT ![p] = "idle"] /\ on' = [on EXCEPT ![p] = None]
    BY <2>1 DEF Idle, To
  <2>4. CASE UNCHANGED requestVars
    BY <2>1, <2>2, <2>3, <2>4
  <2>5. ASSUME NEW r \in Request, Create(r, None, Deduped) PROVE Types'
    <3>1. /\ req' \in [Request -> {"absent", "pending", "accepted", "refused"}]
          /\ of' \in [Request -> Invite \cup {None}]
          /\ UNCHANGED <<cid, by, cleanup>>
      BY <2>5, Creating
    <3> QED
      BY <2>1, <2>2, <2>3, <3>1
  <2> QED
    BY <1>7, <2>4, <2>5 DEF CreateFails
<1>8. ASSUME NEW p \in Redeemer, MarkRedeemed(p)
      PROVE  Types'
  BY <1>8 DEF MarkRedeemed, Idle, To, FromClaimed
<1>9. ASSUME NEW p \in Redeemer, MarkFails(p)
      PROVE  Types'
  BY <1>9 DEF MarkFails, Idle, To
<1>10. ASSUME NEW p \in Redeemer, ApproveFailed(p)
      PROVE  Types'
  BY <1>10 DEF ApproveFailed, Idle, To, FromClaimed
<1>11. ASSUME NEW p \in Process, LookUp(p)
      PROVE  Types'
  <2>1. CASE Fail(p)
    <3>1. /\ pc' \in [Process -> Approving \cup {"idle", "read", "claimed",
                                             "mark", "failed"}]
        /\ on' \in [Process -> Request \cup {None}]
        /\ tgt' \in [Process -> Identity \cup {None}]
      BY <1>11, <2>1, Leaving DEF Fail, LookUp
    <3> QED
      BY <1>11, <3>1 DEF LookUp
  <2>2. CASE To(p, "register") /\ UNCHANGED <<on, tgt>>
    BY <1>11, <2>2 DEF LookUp, To
  <2>3. ASSUME NEW x \in Identity, tgt' = [tgt EXCEPT ![p] = x],
               To(p, "grant"), UNCHANGED on
        PROVE  Types'
    BY <1>11, <2>3 DEF LookUp, To
  <2> QED
    BY <1>11, <2>1, <2>2, <2>3 DEF LookUp, Active
<1>12. ASSUME NEW p \in Process, Activate(p)
      PROVE  Types'
  <2>1. /\ tgt[p] \in Identity /\ ident[tgt[p]] \in {"pending", "suspended",
                                                   "rejected"}
        /\ ident' = [ident EXCEPT ![tgt[p]] = "active"]
        /\ pc[p] = "activate"
    BY <1>12 DEF Activate, Transition
  <2>2. CASE Dangling
    <3>1. /\ undo' = [undo EXCEPT ![tgt[p]] = ident[tgt[p]]]
          /\ pc' = [pc EXCEPT ![p] = "commit"]
      BY <1>12, <2>2 DEF Activate, To
    <3>2. undo' \in [Identity -> {None, "pending", "suspended", "rejected"}]
      BY <2>1, <3>1
    <3> QED
      BY <1>12, <2>1, <3>1, <3>2 DEF Activate
  <2>3. CASE ~ Dangling
    BY <1>12, <2>1, <2>3 DEF Activate, To
  <2> QED
    BY <2>2, <2>3
<1>13. ASSUME NEW p \in Process, HandleTaken(p)
      PROVE  Types'
  BY <1>13 DEF HandleTaken, To
<1>14. ASSUME NEW p \in Process, Grant(p)
      PROVE  Types'
  BY <1>14 DEF Grant, To
<1>15. ASSUME NEW p \in Process, NEW x \in Identity, Register(p, x)
      PROVE  Types'
  BY <1>15 DEF Register, To
<1>16. ASSUME NEW p \in Process, Decide(p)
      PROVE  Types'
  <2>1. PICK l \in {"failed", "mark"} : Leave(p, l)
    BY <1>16 DEF Decide, Fail
  <2>2. pc[p] \in Approving
    BY <1>16 DEF Decide
  <2>3. /\ pc' \in [Process -> Approving \cup {"idle", "read", "claimed",
                                             "mark", "failed"}]
        /\ on' \in [Process -> Request \cup {None}]
        /\ tgt' \in [Process -> Identity \cup {None}]
    BY <2>1, <2>2, Leaving
  <2>4. CASE req[on[p]] = "pending"
    BY <1>16, <2>3, <2>4 DEF Decide
  <2>5. CASE req[on[p]] # "pending"
    BY <1>16, <2>3, <2>5 DEF Decide
  <2> QED
    BY <2>4, <2>5
<1>17. ASSUME NEW p \in Process, Raises(p)
      PROVE  Types'
  <2>1. Leave(p, "failed") /\ pc[p] \in Approving
    BY <1>17 DEF Raises, Fail
  <2>2. /\ pc' \in [Process -> Approving \cup {"idle", "read", "claimed",
                                             "mark", "failed"}]
        /\ on' \in [Process -> Request \cup {None}]
        /\ tgt' \in [Process -> Identity \cup {None}]
    BY <2>1, Leaving
  <2> QED
    BY <1>17, <2>2 DEF Raises
<1>18. ASSUME NEW r \in Request, RefuseFailed(r)
      PROVE  Types'
  BY <1>18 DEF RefuseFailed, Excuse
<1>19. ASSUME NEW r \in Request, DenyAuthRequest(r)
      PROVE  Types'
  BY <1>19 DEF DenyAuthRequest, Excuse
<1>20. ASSUME NEW r \in Request, NEW h \in Claims, CreateAuthRequest(r, h)
      PROVE  Types'
  BY <1>20 DEF CreateAuthRequest, Create
<1>21. ASSUME NEW a \in Admin, NEW r \in Request, ApproveAuthRequest(a, r)
      PROVE  Types'
  BY <1>21 DEF ApproveAuthRequest, To
<1>22. ASSUME NEW x \in Identity, NEW s \in {t[2] : t \in Lifecycle}, SetStatus(x, s)
      PROVE  Types'
  BY <1>22, LifecycleSteps DEF SetStatus, IndexAllows, Active
<1>23. CASE Crash
  BY <1>23, RolledBack DEF Crash
<1>24. CASE UNCHANGED vars
  BY <1>24 DEF vars
<1>25. ASSUME NEW p \in Process, Commit(p)
       PROVE  Types'
  BY <1>25, RolledBack DEF Commit, To
<1>26. ASSUME NEW p \in Process, Rollback(p)
       PROVE  Types'
  BY <1>26, RolledBack DEF Rollback, To
<1>27. ASSUME NEW p \in Process, DeleteRow(p)
       PROVE  Types'
  <2>1. Leave(p, "failed") /\ pc[p] \in Approving /\ tgt[p] \in Identity
    BY <1>27 DEF DeleteRow, Fail
  <2>2. /\ pc' \in [Process -> Approving \cup {"idle", "read", "claimed",
                                               "mark", "failed"}]
        /\ on' \in [Process -> Request \cup {None}]
        /\ tgt' \in [Process -> Identity \cup {None}]
    BY <2>1, Leaving
  <2> QED
    BY <1>27, <2>1, <2>2 DEF DeleteRow
<1> QED
    BY <1>1, <1>2, <1>3, <1>4, <1>5, <1>6, <1>7, <1>8, <1>9, <1>10, <1>11,
     <1>12, <1>13, <1>14, <1>15, <1>16, <1>17, <1>18, <1>19, <1>20, <1>21,
     <1>22, <1>23, <1>24, <1>25, <1>26, <1>27 DEF Next, Redeem, Approve

\* ... and every process in its place.
LEMMA PlacesStep ==
  ASSUME Types, Places, [Next]_vars
  PROVE  Places'
<1> USE OnboardingAssumption
<1> USE DEF inviteVars, requestVars, agentVars, procVars, histVars, Types,
        Process, Approving, Targeted, Unsettled, Passed, Places
<1>1. ASSUME NEW i \in Invite, ReadExpired(i)
      PROVE  Places'
  BY <1>1 DEF ReadExpired
<1>2. ASSUME NEW i \in Invite, WriteExpired(i)
      PROVE  Places'
  BY <1>2 DEF WriteExpired
<1>3. ASSUME NEW i \in Invite, RevokeInvite(i)
      PROVE  Places'
  BY <1>3 DEF RevokeInvite
<1>4. ASSUME NEW p \in Redeemer, ReadInvite(p)
      PROVE  Places'
  BY <1>4 DEF ReadInvite, To
<1>5. ASSUME NEW p \in Redeemer, ClaimInvite(p)
      PROVE  Places'
  <2>1. CASE invite' = [invite EXCEPT ![Link[p]] = "claimed"] /\ To(p, "claimed")
    BY <1>5, <2>1 DEF ClaimInvite, To
  <2>2. CASE To(p, "idle") /\ UNCHANGED invite
    BY <1>5, <2>2 DEF ClaimInvite, To
  <2> QED
    BY <1>5, <2>1, <2>2 DEF ClaimInvite
<1>6. ASSUME NEW p \in Redeemer, NEW r \in Request, CreateForInvite(p, r)
      PROVE  Places'
  BY <1>6 DEF CreateForInvite, Create, To
<1>7. ASSUME NEW p \in Redeemer, CreateFails(p)
      PROVE  Places'
  <2>1. Idle(p) /\ pc[p] = "claimed"
        /\ UNCHANGED <<kind, over, stale, ident, grants, undo, tgt>>
    BY <1>7 DEF CreateFails
  <2>2. invite' \in [Invite -> {"pending", "claimed", "redeemed", "revoked",
                                "expired"}]
    BY <1>7 DEF CreateFails, FromClaimed
  <2>3. /\ pc' = [pc EXCEPT ![p] = "idle"] /\ on' = [on EXCEPT ![p] = None]
    BY <2>1 DEF Idle, To
  <2>4. CASE UNCHANGED requestVars
    BY <2>1, <2>2, <2>3, <2>4
  <2>5. ASSUME NEW r \in Request, Create(r, None, Deduped) PROVE Places'
    <3>1. /\ req' \in [Request -> {"absent", "pending", "accepted", "refused"}]
          /\ of' \in [Request -> Invite \cup {None}]
          /\ UNCHANGED <<cid, by, cleanup>>
      BY <2>5, Creating
    <3> QED
      BY <2>1, <2>2, <2>3, <3>1
  <2> QED
    BY <1>7, <2>4, <2>5 DEF CreateFails
<1>8. ASSUME NEW p \in Redeemer, MarkRedeemed(p)
      PROVE  Places'
  BY <1>8 DEF MarkRedeemed, Idle, To, FromClaimed
<1>9. ASSUME NEW p \in Redeemer, MarkFails(p)
      PROVE  Places'
  BY <1>9 DEF MarkFails, Idle, To
<1>10. ASSUME NEW p \in Redeemer, ApproveFailed(p)
      PROVE  Places'
  BY <1>10 DEF ApproveFailed, Idle, To, FromClaimed
<1>11. ASSUME NEW p \in Process, LookUp(p)
      PROVE  Places'
  <2>1. CASE Fail(p)
    <3>1. Places'
      BY <1>11, <2>1, Leaving DEF Fail, LookUp
    <3> QED
      BY <1>11, <3>1 DEF LookUp
  <2>2. CASE To(p, "register") /\ UNCHANGED <<on, tgt>>
    BY <1>11, <2>2 DEF LookUp, To
  <2>3. ASSUME NEW x \in Identity, tgt' = [tgt EXCEPT ![p] = x],
               To(p, "grant"), UNCHANGED on
        PROVE  Places'
    BY <1>11, <2>3 DEF LookUp, To
  <2> QED
    BY <1>11, <2>1, <2>2, <2>3 DEF LookUp, Active
<1>12. ASSUME NEW p \in Process, Activate(p)
      PROVE  Places'
  <2>1. /\ tgt[p] \in Identity /\ ident[tgt[p]] \in {"pending", "suspended",
                                                   "rejected"}
        /\ ident' = [ident EXCEPT ![tgt[p]] = "active"]
        /\ pc[p] = "activate"
    BY <1>12 DEF Activate, Transition
  <2>2. CASE Dangling
    <3>1. /\ undo' = [undo EXCEPT ![tgt[p]] = ident[tgt[p]]]
          /\ pc' = [pc EXCEPT ![p] = "commit"]
      BY <1>12, <2>2 DEF Activate, To
    <3>2. undo' \in [Identity -> {None, "pending", "suspended", "rejected"}]
      BY <2>1, <3>1
    <3> QED
      BY <1>12, <2>1, <3>1, <3>2 DEF Activate
  <2>3. CASE ~ Dangling
    BY <1>12, <2>1, <2>3 DEF Activate, To
  <2> QED
    BY <2>2, <2>3
<1>13. ASSUME NEW p \in Process, HandleTaken(p)
      PROVE  Places'
  BY <1>13 DEF HandleTaken, To
<1>14. ASSUME NEW p \in Process, Grant(p)
      PROVE  Places'
  BY <1>14 DEF Grant, To
<1>15. ASSUME NEW p \in Process, NEW x \in Identity, Register(p, x)
      PROVE  Places'
  BY <1>15 DEF Register, To
<1>16. ASSUME NEW p \in Process, Decide(p)
      PROVE  Places'
  <2>1. PICK l \in {"failed", "mark"} : Leave(p, l)
    BY <1>16 DEF Decide, Fail
  <2>2. pc[p] \in Approving
    BY <1>16 DEF Decide
  <2>3. Places'
    BY <2>1, <2>2, Leaving
  <2>4. CASE req[on[p]] = "pending"
    BY <1>16, <2>3, <2>4 DEF Decide
  <2>5. CASE req[on[p]] # "pending"
    BY <1>16, <2>3, <2>5 DEF Decide
  <2> QED
    BY <2>4, <2>5
<1>17. ASSUME NEW p \in Process, Raises(p)
      PROVE  Places'
  <2>1. Leave(p, "failed") /\ pc[p] \in Approving
    BY <1>17 DEF Raises, Fail
  <2>2. Places'
    BY <2>1, Leaving
  <2> QED
    BY <1>17, <2>2 DEF Raises
<1>18. ASSUME NEW r \in Request, RefuseFailed(r)
      PROVE  Places'
  BY <1>18 DEF RefuseFailed, Excuse
<1>19. ASSUME NEW r \in Request, DenyAuthRequest(r)
      PROVE  Places'
  BY <1>19 DEF DenyAuthRequest, Excuse
<1>20. ASSUME NEW r \in Request, NEW h \in Claims, CreateAuthRequest(r, h)
      PROVE  Places'
  BY <1>20 DEF CreateAuthRequest, Create
<1>21. ASSUME NEW a \in Admin, NEW r \in Request, ApproveAuthRequest(a, r)
      PROVE  Places'
  BY <1>21 DEF ApproveAuthRequest, To
<1>22. ASSUME NEW x \in Identity, NEW s \in {t[2] : t \in Lifecycle}, SetStatus(x, s)
      PROVE  Places'
  BY <1>22, LifecycleSteps DEF SetStatus, IndexAllows, Active
<1>23. CASE Crash
  BY <1>23, RolledBack DEF Crash
<1>24. CASE UNCHANGED vars
  BY <1>24 DEF vars
<1>25. ASSUME NEW p \in Process, Commit(p)
       PROVE  Places'
  BY <1>25, RolledBack DEF Commit, To
<1>26. ASSUME NEW p \in Process, Rollback(p)
       PROVE  Places'
  BY <1>26, RolledBack DEF Rollback, To
<1>27. ASSUME NEW p \in Process, DeleteRow(p)
       PROVE  Places'
  <2>1. Leave(p, "failed") /\ pc[p] \in Approving /\ tgt[p] \in Identity
    BY <1>27 DEF DeleteRow, Fail
  <2>2. Places'
    BY <2>1, Leaving
  <2> QED
    BY <1>27, <2>1, <2>2 DEF DeleteRow
<1> QED
    BY <1>1, <1>2, <1>3, <1>4, <1>5, <1>6, <1>7, <1>8, <1>9, <1>10, <1>11,
     <1>12, <1>13, <1>14, <1>15, <1>16, <1>17, <1>18, <1>19, <1>20, <1>21,
     <1>22, <1>23, <1>24, <1>25, <1>26, <1>27 DEF Next, Redeem, Approve

\* What a statement of an approval leaves alone: the other processes, the
\* invites and the columns of requests but for the decision.
LEMMA ApproveFrame ==
  ASSUME Types, Places, NEW p \in Process, Approve(p)
  PROVE  /\ \A q \in Process : q # p => /\ pc'[q] = pc[q] /\ on'[q] = on[q]
                                        /\ tgt'[q] = tgt[q]
         /\ pc[p] \in Approving
         /\ \/ pc'[p] \in Approving /\ on'[p] = on[p]
            \/ pc'[p] \notin Approving
         /\ UNCHANGED <<kind, invite, over, stale, of, handle, cleanup, burned,
                        back>>
         /\ excused \subseteq excused' /\ disturbed \subseteq disturbed'
         /\ grants \subseteq grants'
<1> USE DEF inviteVars, requestVars, agentVars, procVars, histVars, Approving
<1> DEFINE Kept == /\ UNCHANGED <<kind, invite, over, stale, of, handle,
                                  cleanup, burned, back>>
                   /\ excused \subseteq excused'
                   /\ disturbed \subseteq disturbed'
                   /\ grants \subseteq grants' /\ pc[p] \in Approving
           Others == \A q \in Process : q # p =>
                        /\ pc'[q] = pc[q] /\ on'[q] = on[q] /\ tgt'[q] = tgt[q]
           Goes == Others /\ pc'[p] \in Approving /\ on'[p] = on[p]
           Quits == Others /\ pc'[p] \notin Approving
<1>0. tgt = [q \in Process |-> tgt[q]]
  BY DEF Types
<1>1. ASSUME NEW l \in Approving, To(p, l), UNCHANGED <<on, tgt>> PROVE Goes
  BY <1>1, GoingOn
<1>2. ASSUME NEW l \in Approving, To(p, l), UNCHANGED on, NEW x,
             tgt' = [tgt EXCEPT ![p] = x]
      PROVE  Goes
  BY <1>0, <1>2, GoingOn
<1>3. ASSUME NEW l \in {"failed", "mark"}, Leave(p, l), pc[p] \in Approving
      PROVE  Quits
  BY <1>3, Leaving
<1>4. CASE LookUp(p)
  <2>1. Kept
    BY <1>4 DEF LookUp
  <2>2. CASE Fail(p)
    BY <2>1, <2>2, <1>3 DEF Fail
  <2>3. CASE To(p, "register") /\ UNCHANGED <<on, tgt>>
    BY <2>1, <2>3, <1>1
  <2>4. ASSUME NEW x, tgt' = [tgt EXCEPT ![p] = x], To(p, "grant"),
               UNCHANGED on
        PROVE  Kept /\ Goes
    BY <2>1, <2>4, <1>2
  <2> QED
    BY <1>4, <2>1, <2>2, <2>3, <2>4 DEF LookUp
<1>5. CASE Activate(p)
  <2>1. Kept /\ UNCHANGED <<on, tgt>>
    BY <1>5 DEF Activate
  <2>2. \E l \in Approving : To(p, l)
    BY <1>5 DEF Activate
  <2> QED
    BY <2>1, <2>2, <1>1
<1>6. CASE Commit(p) \/ Grant(p) \/ HandleTaken(p) \/ Rollback(p)
  <2>1. Kept /\ UNCHANGED <<on, tgt>>
    BY <1>6 DEF Commit, Grant, HandleTaken, Rollback
  <2>2. \E l \in Approving : To(p, l)
    BY <1>6 DEF Commit, Grant, HandleTaken, Rollback
  <2> QED
    BY <2>1, <2>2, <1>1
<1>7. ASSUME NEW x \in Identity, Register(p, x) PROVE Kept /\ Goes
  <2>1. Kept /\ UNCHANGED on /\ tgt' = [tgt EXCEPT ![p] = x]
        /\ To(p, "activate")
    BY <1>7 DEF Register
  <2> QED
    BY <2>1, <1>2
<1>8. CASE DeleteRow(p) \/ Raises(p)
  <2>1. Kept /\ Fail(p)
    BY <1>8 DEF DeleteRow, Raises
  <2> QED
    BY <2>1, <1>3 DEF Fail
<1>9. CASE Decide(p)
  <2>1. Kept
    BY <1>9 DEF Decide
  <2>2. \E l \in {"failed", "mark"} : Leave(p, l)
    BY <1>9 DEF Decide, Fail
  <2> QED
    BY <2>1, <2>2, <1>3
<1> QED
  BY <1>4, <1>5, <1>6, <1>7, <1>8, <1>9 DEF Approve

\* Handles stay columns of their tables.
LEMMA ShapesStep ==
  ASSUME Types, Places, Shapes, [Next]_vars
  PROVE  Shapes'
<1> USE DEF Shapes, requestVars, agentVars
<1>1. CASE Bookkeeping
  BY <1>1, BookkeepingIsQuiet DEF Quiet
<1>2. ASSUME NEW p \in Process, Approve(p) PROVE Shapes'
  <2>1. UNCHANGED handle
    BY <1>2, ApproveFrame
  <2>2. \/ UNCHANGED name
        \/ \E x, h : name' = [name EXCEPT ![x] = h]
    BY <1>2 DEF Approve, LookUp, Activate, Commit, Grant, Register,
       HandleTaken, Rollback, DeleteRow, Decide, Raises
  <2> QED
    BY <2>1, <2>2
<1>3. CASE Lifecycles \/ Crash
  BY <1>3 DEF Lifecycles, SetStatus, Crash
<1> QED
  BY <1>1, <1>2, <1>3, NextSplit

\* A transaction that is left open ends with its rollback.
LEMMA OpenWritesStep ==
  ASSUME Types, Places, OpenWrites, [Next]_vars
  PROVE  OpenWrites'
<1> USE DEF OpenWrites, agentVars
<1>1. CASE Bookkeeping
  <2>1. /\ UNCHANGED <<undo, ident>>
        /\ \A q \in Process : pc[q] = "undo" => pc'[q] = "undo"
    BY <1>1, BookkeepingIsQuiet DEF Quiet, Targeted, Unsettled
  <2> QED
    BY <2>1 DEF Undone, Dangling
<1>2. ASSUME NEW p \in Process, Approve(p) PROVE OpenWrites'
  <2>1. \A q \in Process : q # p => pc'[q] = pc[q]
    BY <1>2, ApproveFrame
  <2>2. CASE Rollback(p) \/ Commit(p)
    <3>1. undo' = NothingOpen
      BY <2>2 DEF Rollback, Commit
    <3> QED
      BY <3>1, RolledBack DEF Undone
  <2>3. CASE Activate(p)
    <3>1. /\ pc[p] = "activate" /\ ident' = [ident EXCEPT ![tgt[p]] = "active"]
      BY <2>3 DEF Activate
    <3>2. CASE Dangling
      <4>1. undo' = [undo EXCEPT ![tgt[p]] = ident[tgt[p]]]
        BY <2>3, <3>2 DEF Activate
      <4>2. Dangling'
        BY <2>1, <3>1, <3>2 DEF Dangling
      <4>3. \A x \in Identity : undo'[x] # None => ident'[x] # "revoked"
        BY <3>1, <4>1 DEF Types
      <4> QED
        BY <4>2, <4>3
    <3>3. CASE ~ Dangling
      <4>1. undo' = undo
        BY <2>3, <3>3 DEF Activate
      <4> QED
        BY <3>3, <4>1 DEF Undone
    <3> QED
      BY <3>2, <3>3
  <2>4. CASE /\ UNCHANGED undo /\ pc[p] # "undo"
             /\ \A x \in Identity : ident'[x] = "revoked" => ident[x] = "revoked"
    <3>1. Dangling => Dangling'
      BY <2>1, <2>4 DEF Dangling
    <3> QED
      BY <2>4, <3>1 DEF Undone
  <2>5. CASE \/ LookUp(p) \/ Grant(p) \/ HandleTaken(p) \/ Decide(p)
             \/ Raises(p)
    BY <2>4, <2>5 DEF LookUp, Grant, HandleTaken, Decide, Raises
  <2>6. ASSUME NEW x \in Identity, Register(p, x) PROVE OpenWrites'
    BY <2>4, <2>6 DEF Register, Types
  <2>7. CASE DeleteRow(p)
    BY <2>4, <2>7 DEF DeleteRow, Types
  <2> QED
    BY <1>2, <2>2, <2>3, <2>5, <2>6, <2>7 DEF Approve
<1>3. CASE Lifecycles
  <2>1. Undone = {} /\ UNCHANGED undo
    BY <1>3 DEF Lifecycles, SetStatus
  <2> QED
    BY <2>1 DEF Undone
<1>4. CASE Crash
  <2>1. undo' = NothingOpen
    BY <1>4 DEF Crash
  <2> QED
    BY <2>1, RolledBack DEF Undone
<1> QED
  BY <1>1, <1>2, <1>3, <1>4, NextSplit

\* A decision and its identity are written together.
LEMMA DecidedStep ==
  ASSUME Types, Places, Decided, [Next]_vars
  PROVE  Decided'
<1> USE OnboardingAssumption DEF Decided, requestVars
<1>1. CASE Bookkeeping
  BY <1>1, BookkeepingIsQuiet DEF Quiet
<1>2. ASSUME NEW p \in Process, Approve(p) PROVE Decided'
  <2>1. CASE Decide(p) /\ req[on[p]] = "pending"
    <3>1. /\ on[p] \in Request /\ tgt[p] \in Identity
      BY <2>1 DEF Decide, Places, Approving, Targeted, Passed
    <3>2. /\ req' = [req EXCEPT ![on[p]] = "accepted"]
          /\ cid' = [cid EXCEPT ![on[p]] = tgt[p]]
      BY <2>1 DEF Decide
    <3> QED
      BY <3>1, <3>2 DEF Types
  <2>2. CASE UNCHANGED <<req, cid>>
    BY <2>2
  <2> QED
    BY <1>2, <2>1, <2>2 DEF Approve, LookUp, Activate, Commit, Grant, Register,
       HandleTaken, Rollback, DeleteRow, Decide, Raises
<1>3. CASE Lifecycles \/ Crash
  BY <1>3 DEF Lifecycles, SetStatus, Crash
<1> QED
  BY <1>1, <1>2, <1>3, NextSplit

\* The index lets nobody in who would be the second.
LEMMA UniqueStep ==
  ASSUME Shapes, Types, Places, Unique, [Next]_vars
  PROVE  Unique'
<1> USE DEF Unique, requestVars, agentVars
<1>1. ASSUME NEW x \in Identity, NEW s, IndexAllows(x, s), UNCHANGED name,
             ident' = [ident EXCEPT ![x] = s]
      PROVE  Unique'
  <2>1. s = "active" => \A y \in Identity :
                           ident[y] = "active" /\ name[y] = name[x] => y = x
    BY <1>1 DEF IndexAllows, Active
  <2> QED
    BY <1>1, <2>1 DEF Types
\* Rows that are not active do no harm.
<1>2. ASSUME \A x \in Identity : ident'[x] = "active" =>
                ident[x] = "active" /\ name'[x] = name[x]
      PROVE  Unique'
  BY <1>2
<1>3. CASE Bookkeeping
  BY <1>2, <1>3, BookkeepingIsQuiet DEF Quiet
<1>4. ASSUME NEW p \in Process, Approve(p) PROVE Unique'
  <2>1. pc[p] \in {"activate", "delete"} => tgt[p] \in Identity
    BY DEF Places, Targeted, Unsettled
  <2>2. CASE Activate(p)
    BY <1>1, <2>1, <2>2 DEF Activate
  <2>3. CASE Rollback(p)
    BY <1>2, <2>3, RolledBack DEF Rollback
  <2>4. CASE DeleteRow(p)
    <3>1. CASE UNCHANGED <<ident, name>>
      BY <1>2, <3>1
    <3>2. CASE /\ ident' = [ident EXCEPT ![tgt[p]] = "absent"]
               /\ name' = [name EXCEPT ![tgt[p]] = None]
      BY <1>2, <2>1, <2>4, <3>2 DEF Types, Shapes, DeleteRow
    <3> QED
      BY <2>4, <3>1, <3>2 DEF DeleteRow
  <2>5. ASSUME NEW x \in Identity, Register(p, x) PROVE Unique'
    BY <1>2, <2>5 DEF Register, Types, Shapes
  <2>6. CASE UNCHANGED <<ident, name>>
    BY <1>2, <2>6
  <2> QED
    BY <1>4, <2>2, <2>3, <2>4, <2>5, <2>6 DEF Approve, LookUp, Commit, Grant,
       HandleTaken, Decide, Raises
<1>5. CASE Lifecycles
  BY <1>1, <1>5 DEF Lifecycles, SetStatus
<1>6. CASE Crash
  BY <1>2, <1>6, RolledBack DEF Crash
<1> QED
  BY <1>3, <1>4, <1>5, <1>6, NextSplit

\* A refusal that meets an approval is noted.
LEMMA OpenStep ==
  ASSUME Types, Places, Open, [Next]_vars
  PROVE  Open'
<1> USE OnboardingAssumption DEF Open, inviteVars, requestVars, agentVars,
        procVars, histVars
<1>0. /\ \A p \in Redeemer : p \in Process /\ Link[p] \in Invite
      /\ \A a \in Admin : a \in Process
      /\ pc = [q \in Process |-> pc[q]] /\ on = [q \in Process |-> on[q]]
      /\ \A q \in Process : pc[q] \in Approving => on[q] \in Request
  BY DEF Process, Types, Places
\* Nobody begins with an approval.
<1>1. ASSUME excused \subseteq excused',
             \A q \in Process : pc'[q] \in Approving =>
                pc[q] \in Approving /\ on'[q] = on[q],
             \A r \in Request : req[r] # "absent" =>
                req'[r] # "absent" /\ handle'[r] = handle[r],
             \A q \in Process : pc[q] \in Approving =>
                \/ req'[on[q]] = "refused" => req[on[q]] = "refused"
                \/ handle[on[q]] \in excused'
      PROVE  Open'
  BY <1>0, <1>1
<1>2. ASSUME Quiet, \A q \in Process : pc'[q] \in Approving =>
                       pc[q] \in Approving /\ on'[q] = on[q],
             UNCHANGED req
      PROVE  Open'
  BY <1>1, <1>2 DEF Quiet
<1>3. ASSUME NEW p \in Redeemer, Idle(p)
      PROVE  \A q \in Process : pc'[q] \in Approving =>
                pc[q] \in Approving /\ on'[q] = on[q]
  BY <1>0, <1>3 DEF Idle, To, Approving
<1>4. CASE Bookkeeping
  <2>0. Quiet
    BY <1>4, BookkeepingIsQuiet
  <2>1. ASSUME NEW i \in Invite,
               ReadExpired(i) \/ WriteExpired(i) \/ RevokeInvite(i)
        PROVE  Open'
    BY <1>2, <2>0, <2>1 DEF ReadExpired, WriteExpired, RevokeInvite
  <2>2. ASSUME NEW p \in Redeemer, ReadInvite(p) \/ ClaimInvite(p)
        PROVE  Open'
    <3>1. To(p, "read") \/ To(p, "claimed") \/ To(p, "idle")
      BY <2>2 DEF ReadInvite, ClaimInvite
    <3>2. \A q \in Process : pc'[q] \in Approving => pc[q] \in Approving
      BY <1>0, <3>1 DEF To, Approving
    <3> QED
      BY <1>2, <2>0, <2>2, <3>2 DEF ReadInvite, ClaimInvite
  <2>3. ASSUME NEW p \in Redeemer, NEW r \in Request, CreateForInvite(p, r)
        PROVE  Open'
    <3>1. Create(r, Link[p], Deduped) /\ on' = [on EXCEPT ![p] = r]
          /\ UNCHANGED excused
      BY <2>3 DEF CreateForInvite
    <3>2. /\ req[r] = "absent" /\ req'[r] = "pending"
          /\ \A s \in Request : s # r => req'[s] = req[s]
      BY <1>0, <3>1, Creating
    <3>3. \A q \in Process : q # p => pc'[q] = pc[q] /\ on'[q] = on[q]
      BY <1>0, <2>3 DEF CreateForInvite, To
    <3>4. on'[p] = r
      BY <1>0, <3>1
    <3> QED
      BY <1>0, <2>0, <3>1, <3>2, <3>3, <3>4 DEF Quiet
  <2>4. ASSUME NEW p \in Redeemer, CreateFails(p) PROVE Open'
    <3>1. Idle(p)
      BY <2>4 DEF CreateFails
    <3>2. CASE UNCHANGED requestVars
      BY <1>2, <1>3, <2>0, <3>1, <3>2
    <3>3. ASSUME NEW r \in Request, Create(r, None, Deduped) PROVE Open'
      <4>1. /\ req[r] = "absent" /\ req'[r] = "pending"
            /\ \A s \in Request : s # r => req'[s] = req[s]
        BY <3>3, Creating
      <4>2. \A q \in Process : pc[q] \in Approving => req'[on[q]] = req[on[q]]
        BY <1>0, <4>1
      <4> QED
        BY <1>0, <1>1, <1>3, <2>0, <3>1, <4>1, <4>2 DEF Quiet
    <3> QED
      BY <2>4, <3>2, <3>3 DEF CreateFails
  <2>5. ASSUME NEW p \in Redeemer,
               MarkRedeemed(p) \/ MarkFails(p) \/ ApproveFailed(p)
        PROVE  Open'
    BY <1>2, <1>3, <2>0, <2>5 DEF MarkRedeemed, MarkFails, ApproveFailed
  <2>6. ASSUME NEW r \in Request, RefuseFailed(r) \/ DenyAuthRequest(r)
        PROVE  Open'
    <3>1. /\ \A s \in Request : req[s] # "absent" => req'[s] # "absent"
          /\ \A s \in Request : s # r => req'[s] = req[s]
          /\ UNCHANGED <<pc, on>> /\ Excuse(r)
      BY <2>6 DEF RefuseFailed, DenyAuthRequest, Types
    <3>2. \A q \in Process : on[q] = r => handle[on[q]] \in excused'
      BY <3>1 DEF Excuse
    <3> QED
      BY <1>0, <1>1, <2>0, <3>1, <3>2 DEF Quiet
  <2>7. ASSUME NEW r \in Request, NEW h \in Claims, CreateAuthRequest(r, h)
        PROVE  Open'
    <3>1. Create(r, None, h) /\ UNCHANGED <<pc, on>>
      BY <2>7 DEF CreateAuthRequest
    <3>2. /\ req[r] = "absent" /\ req'[r] = "pending"
          /\ \A s \in Request : s # r => req'[s] = req[s]
      BY <3>1, Creating
    <3>3. \A q \in Process : pc[q] \in Approving => req'[on[q]] = req[on[q]]
      BY <1>0, <3>2
    <3> QED
      BY <1>0, <1>1, <2>0, <3>1, <3>2, <3>3 DEF Quiet
  <2>8. ASSUME NEW a \in Admin, NEW r \in Request, ApproveAuthRequest(a, r)
        PROVE  Open'
    <3>1. /\ req[r] = "pending" /\ UNCHANGED <<req, handle, excused>>
          /\ on' = [on EXCEPT ![a] = r] /\ pc' = [pc EXCEPT ![a] = "look"]
      BY <2>8 DEF ApproveAuthRequest, To
    <3>2. on'[a] = r /\ \A q \in Process : q # a => /\ pc'[q] = pc[q]
                                                    /\ on'[q] = on[q]
      BY <1>0, <3>1
    <3> QED
      BY <1>0, <3>1, <3>2
  <2>9. CASE UNCHANGED vars
    BY <2>9 DEF vars
  <2> QED
    BY <1>4, <2>1, <2>2, <2>3, <2>4, <2>5, <2>6, <2>7, <2>8, <2>9
    DEF Bookkeeping, Redeem
<1>5. ASSUME NEW p \in Process, Approve(p) PROVE Open'
  <2>1. /\ \A q \in Process : pc'[q] \in Approving =>
              pc[q] \in Approving /\ on'[q] = on[q]
        /\ UNCHANGED handle /\ excused \subseteq excused'
    BY <1>5, ApproveFrame
  <2>2. CASE UNCHANGED req
    BY <1>1, <2>1, <2>2
  <2>3. CASE req' = [req EXCEPT ![on[p]] = "accepted"]
    BY <1>1, <2>1, <2>3 DEF Types
  <2> QED
    BY <1>5, <2>2, <2>3 DEF Approve, LookUp, Activate, Commit, Grant, Register,
       HandleTaken, Rollback, DeleteRow, Decide, Raises
<1>6. CASE Lifecycles
  BY <1>1, <1>6 DEF Lifecycles, SetStatus
<1>7. CASE Crash
  <2>1. \A q \in Process : pc'[q] \notin Approving
    BY <1>7 DEF Crash, Approving
  <2> QED
    BY <2>1
<1> QED
  BY <1>4, <1>5, <1>6, <1>7, NextSplit

\* A row that nobody has activated is registered and deleted by one approval.
LEMMA RowsStep ==
  ASSUME Shapes, Types, Places, Open, Rows, [Next]_vars
  PROVE  Rows'
<1> USE DEF Rows, agentVars
<1>0. /\ \A q \in Process : pc[q] \in Unsettled =>
            tgt[q] \in Identity /\ on[q] \in Request /\ req[on[q]] # "absent"
      /\ Unsettled \subseteq Approving /\ Unsettled \subseteq Targeted
  BY DEF Places, Open, Unsettled, Targeted, Approving
\* Nobody registers.
<1>1. ASSUME \A q \in Process : pc'[q] \in Unsettled =>
                /\ pc[q] \in Unsettled /\ on'[q] = on[q] /\ tgt'[q] = tgt[q]
                /\ handle'[on[q]] = handle[on[q]]
                /\ name'[tgt[q]] = name[tgt[q]] /\ ident'[tgt[q]] # "absent"
      PROVE  Rows'
  BY <1>1
<1>2. CASE Bookkeeping
  <2>1. Quiet
    BY <1>2, BookkeepingIsQuiet
  <2> QED
    BY <1>0, <1>1, <2>1 DEF Quiet
<1>3. ASSUME NEW p \in Process, Approve(p) PROVE Rows'
  <2>1. /\ \A q \in Process : q # p => /\ pc'[q] = pc[q] /\ on'[q] = on[q]
                                       /\ tgt'[q] = tgt[q]
        /\ pc'[p] \in Approving => on'[p] = on[p]
        /\ UNCHANGED handle
    BY <1>3, ApproveFrame
  <2>2. ASSUME pc'[p] \in Unsettled => pc[p] \in Unsettled /\ tgt'[p] = tgt[p],
               UNCHANGED name,
               \A x \in Identity : ident'[x] = "absent" => ident[x] = "absent"
        PROVE  Rows'
    BY <1>0, <1>1, <2>1, <2>2
  <2>3. ASSUME NEW x \in Identity, Register(p, x) PROVE Rows'
    <3>1. /\ ident[x] = "absent" /\ ident' = [ident EXCEPT ![x] = "pending"]
          /\ name' = [name EXCEPT ![x] = handle[on[p]]]
          /\ tgt' = [tgt EXCEPT ![p] = x] /\ UNCHANGED on
      BY <2>3 DEF Register
    <3>2. /\ tgt'[p] = x /\ name'[x] = handle[on[p]]
          /\ ident'[x] = "pending"
          /\ \A y \in Identity : y # x =>
                name'[y] = name[y] /\ ident'[y] = ident[y]
      BY <3>1 DEF Types, Shapes
    <3>3. \A q \in Process : q # p /\ pc'[q] \in Unsettled =>
             /\ pc[q] \in Unsettled /\ tgt[q] # x /\ tgt[q] \in Identity
      BY <1>0, <2>1, <3>1
    <3> QED
      BY <2>1, <3>1, <3>2, <3>3
  <2>4. CASE Activate(p)
    <3>1. pc'[p] \in {"commit", "grant"}
      BY <2>4 DEF Activate, To, Types
    <3>2. tgt[p] \in Identity
      BY <2>4, <1>0 DEF Activate, Unsettled
    <3> QED
      BY <2>2, <2>4, <3>1, <3>2 DEF Activate, Types, Unsettled
  <2>5. CASE HandleTaken(p)
    BY <2>2, <2>5 DEF HandleTaken, Unsettled
  <2>6. CASE Rollback(p)
    <3>1. \A x \in Identity : ident'[x] = "absent" => ident[x] = "absent"
      BY <2>6, RolledBack DEF Rollback
    <3> QED
      BY <2>2, <2>6, <3>1 DEF Rollback, Unsettled
  <2>7. CASE DeleteRow(p)
    <3>1. /\ pc[p] = "delete" /\ tgt[p] \in Identity
          /\ pc'[p] \notin Approving
      <4>1. pc[p] = "delete" /\ Leave(p, "failed")
        BY <2>7 DEF DeleteRow, Fail
      <4> QED
        BY <4>1, <1>0, Leaving DEF Approving, Unsettled
    <3>2. \A x \in Identity : x # tgt[p] =>
             ident'[x] = ident[x] /\ name'[x] = name[x]
      BY <2>7 DEF DeleteRow, Types, Shapes
    <3>3. \A q \in Process : q # p /\ pc[q] \in Unsettled => tgt[q] # tgt[p]
      BY <3>1 DEF Unsettled
    <3> QED
      BY <1>0, <1>1, <2>1, <3>1, <3>2, <3>3
  <2>8. CASE LookUp(p) \/ Commit(p) \/ Grant(p)
    <3>1. pc'[p] \notin Unsettled
      <4>1. \/ \E l \in {"register", "grant", "decide"} : To(p, l)
            \/ Fail(p) /\ pc[p] = "look"
        BY <2>8 DEF LookUp, Commit, Grant
      <4>2. CASE Fail(p) /\ pc[p] = "look"
        BY <1>0, <4>2, Leaving DEF Fail, Approving
      <4> QED
        BY <4>1, <4>2 DEF To, Types, Unsettled
    <3> QED
      BY <2>2, <2>8, <3>1 DEF LookUp, Commit, Grant
  <2>9. CASE Decide(p) \/ Raises(p)
    <3>1. /\ \E l \in {"failed", "mark"} : Leave(p, l)
          /\ pc[p] \in Approving
      BY <2>9 DEF Decide, Raises, Fail, Approving
    <3>2. pc'[p] \notin Unsettled
      BY <1>0, <3>1, Leaving
    <3> QED
      BY <2>2, <2>9, <3>2 DEF Decide, Raises
  <2> QED
    BY <1>3, <2>3, <2>4, <2>5, <2>6, <2>7, <2>8, <2>9 DEF Approve
<1>4. CASE Lifecycles
  <2>1. PICK x \in Identity, s \in {t[2] : t \in Lifecycle} : SetStatus(x, s)
    BY <1>4 DEF Lifecycles
  <2>2. /\ ident' = [ident EXCEPT ![x] = s] /\ s # "absent"
        /\ UNCHANGED <<name, pc, on, tgt, handle>>
    BY <2>1, LifecycleSteps DEF SetStatus, procVars, requestVars
  <2> QED
    BY <1>0, <1>1, <2>2 DEF Types
<1>5. CASE Crash
  BY <1>5 DEF Crash, Unsettled
<1> QED
  BY <1>2, <1>3, <1>4, <1>5, NextSplit

\* No statement takes the identity of an approval away from it without
\* excusing the handle.
LEMMA TargetStep ==
  ASSUME Shapes, Types, Places, Open, Rows, Target, [Next]_vars
  PROVE  Target'
<1> USE DEF agentVars, Targeted
<1>0. /\ \A q \in Process : pc[q] \in Targeted =>
            tgt[q] \in Identity /\ on[q] \in Request /\ req[on[q]] # "absent"
      /\ Targeted \subseteq Approving /\ Unsettled \cap Passed = {}
  BY DEF Places, Open, Unsettled, Passed, Approving
\* The process knows its identity after the step ...
<1> DEFINE Knows(q) ==
      handle'[on'[q]] \notin excused' =>
        /\ pc'[q] \in Targeted => name'[tgt'[q]] = handle'[on'[q]]
        /\ pc'[q] \in Unsettled => ident'[tgt'[q]] = "pending"
        /\ pc'[q] \in Passed => ident'[tgt'[q]] = "active"
\* ... if it stays where it is and its identity does too.
<1>1. ASSUME NEW q \in Process, excused \subseteq excused',
             pc'[q] \in Targeted =>
                /\ on'[q] = on[q] /\ tgt'[q] = tgt[q]
                /\ handle'[on[q]] = handle[on[q]]
                /\ \/ (pc'[q] \in Unsettled /\ pc[q] \in Unsettled)
                   \/ (pc'[q] \in Passed /\ pc[q] \in Passed)
                /\ handle[on[q]] \notin excused' =>
                     /\ name'[tgt[q]] = name[tgt[q]]
                     /\ ident'[tgt[q]] = ident[tgt[q]]
      PROVE  Knows(q)
  BY <1>0, <1>1 DEF Target
<1>2. ASSUME \A q \in Process : Knows(q) PROVE Target'
  BY <1>2 DEF Target
<1> HIDE DEF Knows
<1>3. CASE Bookkeeping
  <2>1. Quiet
    BY <1>3, BookkeepingIsQuiet
  <2>2. ASSUME NEW q \in Process PROVE Knows(q)
    BY <1>0, <1>1, <2>1 DEF Quiet
  <2> QED
    BY <1>2, <2>2
<1>4. ASSUME NEW p \in Process, Approve(p) PROVE Target'
  <2>1. /\ \A q \in Process : q # p => /\ pc'[q] = pc[q] /\ on'[q] = on[q]
                                       /\ tgt'[q] = tgt[q]
        /\ pc'[p] \in Approving => on'[p] = on[p]
        /\ UNCHANGED handle /\ excused \subseteq excused'
    BY <1>4, ApproveFrame
  \* The others keep what they have.
  <2>2. ASSUME NEW q \in Process, q # p,
               \/ UNCHANGED <<ident, name>>
               \/ \E x \in Identity :
                    /\ \A y \in Identity : y # x =>
                          ident'[y] = ident[y] /\ name'[y] = name[y]
                    /\ pc[q] \in Targeted /\ handle[on[q]] \notin excused'
                         => tgt[q] # x
        PROVE  Knows(q)
    BY <1>0, <1>1, <2>1, <2>2
  <2>3. CASE LookUp(p)
    <3>1. UNCHANGED <<ident, name>> /\ pc[p] = "look"
      BY <2>3 DEF LookUp
    <3>2. Knows(p)
      <4>1. CASE Fail(p)
        BY <1>0, <3>1, <4>1, Leaving
        DEF Fail, Approving, Unsettled, Passed, Knows
      <4>2. CASE To(p, "register")
        BY <4>2 DEF To, Types, Unsettled, Passed, Knows
      <4>3. ASSUME NEW x \in Active(handle[on[p]]),
                   tgt' = [tgt EXCEPT ![p] = x], To(p, "grant"), UNCHANGED on
            PROVE  Knows(p)
        <5>1. ident[x] = "active" /\ name[x] = handle[on[p]] /\ x \in Identity
          BY <4>3 DEF Active
        <5>2. pc'[p] = "grant" /\ tgt'[p] = x
          BY <4>3 DEF To, Types
        <5> QED
          BY <2>1, <3>1, <4>3, <5>1, <5>2 DEF Unsettled, Passed, Knows
      <4> QED
        BY <2>3, <4>1, <4>2, <4>3 DEF LookUp
    <3> QED
      BY <1>2, <2>2, <3>1, <3>2
  <2>4. CASE Activate(p)
    <3> DEFINE x == tgt[p]
    <3>1. /\ pc[p] = "activate" /\ x \in Identity
          /\ ident' = [ident EXCEPT ![x] = "active"]
          /\ UNCHANGED <<name, on, tgt>>
          /\ pc'[p] \in {"commit", "grant"}
      BY <1>0, <2>4 DEF Activate, To, Types, Unsettled
    <3>2. ident'[x] = "active" /\ \A y \in Identity : y # x =>
                                     ident'[y] = ident[y] /\ name'[y] = name[y]
      BY <3>1 DEF Types
    <3>3. Knows(p)
      BY <2>1, <3>1, <3>2 DEF Target, Unsettled, Passed, Knows
    <3>4. \A q \in Process : q # p /\ pc[q] \in Targeted
                              /\ handle[on[q]] \notin excused' => tgt[q] # x
      <4> SUFFICES ASSUME NEW q \in Process, q # p, pc[q] \in Targeted,
                          handle[on[q]] \notin excused, tgt[q] = x
                   PROVE  FALSE
        BY <2>1
      <4>1. pc[q] \in Passed /\ ident[x] = "active" /\ name[x] = handle[on[q]]
        BY <3>1 DEF Rows, Target, Unsettled
      <4>2. name[x] = handle[on[p]]
        BY <3>1 DEF Rows, Unsettled
      <4>3. ident[x] = "pending"
        BY <3>1, <4>1, <4>2 DEF Target, Unsettled
      <4> QED
        BY <4>1, <4>3
    <3> QED
      BY <1>2, <2>2, <3>1, <3>2, <3>3, <3>4
  <2>5. CASE Commit(p) \/ Grant(p) \/ HandleTaken(p)
    <3>1. /\ UNCHANGED <<ident, name, on, tgt>>
          /\ \/ pc[p] \in Passed /\ pc'[p] \in Passed
             \/ pc[p] \in Unsettled /\ pc'[p] \in Unsettled
      BY <2>5 DEF Commit, Grant, HandleTaken, To, Types, Unsettled, Passed
    <3> QED
      BY <1>1, <1>2, <2>1, <2>2, <3>1
  <2>6. ASSUME NEW x \in Identity, Register(p, x) PROVE Target'
    <3>1. /\ ident[x] = "absent" /\ ident' = [ident EXCEPT ![x] = "pending"]
          /\ name' = [name EXCEPT ![x] = handle[on[p]]]
          /\ tgt' = [tgt EXCEPT ![p] = x] /\ UNCHANGED on /\ To(p, "activate")
      BY <2>6 DEF Register
    <3>2. /\ tgt'[p] = x /\ name'[x] = handle[on[p]]
          /\ ident'[x] = "pending" /\ pc'[p] = "activate"
          /\ \A y \in Identity : y # x =>
                name'[y] = name[y] /\ ident'[y] = ident[y]
      BY <3>1 DEF Types, Shapes, To
    <3>3. \A q \in Process : pc[q] \in Targeted
                              /\ handle[on[q]] \notin excused' => tgt[q] # x
      BY <2>1, <3>1 DEF Target
    <3>4. Knows(p)
      BY <2>1, <3>1, <3>2 DEF Unsettled, Passed, Knows
    <3> QED
      BY <1>2, <2>2, <3>2, <3>3, <3>4
  <2>7. CASE Rollback(p)
    <3>1. /\ ident' = Restored /\ UNCHANGED <<name, on, tgt>>
          /\ excused' = excused \cup {name[x] : x \in Undone}
          /\ pc[p] = "undo" /\ pc'[p] = "delete"
      BY <2>7 DEF Rollback, To, Types
    <3>2. ASSUME NEW q \in Process, pc[q] \in Targeted,
                 handle[on[q]] \notin excused'
          PROVE  ident'[tgt[q]] = ident[tgt[q]]
      <4>1. name[tgt[q]] = handle[on[q]] /\ tgt[q] \in Identity
        BY <1>0, <3>1, <3>2 DEF Target
      <4>2. tgt[q] \notin Undone
        BY <3>1, <3>2, <4>1
      <4> QED
        BY <3>1, <4>1, <4>2, RolledBack
    <3>3. ASSUME NEW q \in Process PROVE Knows(q)
      BY <1>1, <2>1, <3>1, <3>2 DEF Unsettled, Passed
    <3> QED
      BY <1>2, <3>3
  <2>8. CASE DeleteRow(p)
    <3> DEFINE x == tgt[p]
    <3>1. pc[p] = "delete" /\ Leave(p, "failed") /\ x \in Identity
      BY <1>0, <2>8 DEF DeleteRow, Fail, Unsettled
    <3>2. pc'[p] \notin Targeted
      BY <1>0, <3>1, Leaving DEF Approving
    <3>3. \A y \in Identity : y # x => ident'[y] = ident[y] /\ name'[y] = name[y]
      BY <2>8 DEF DeleteRow, Types, Shapes
    <3>4. \A q \in Process : q # p /\ pc[q] \in Targeted
                              /\ handle[on[q]] \notin excused' => tgt[q] # x
      <4> SUFFICES ASSUME NEW q \in Process, q # p, pc[q] \in Targeted,
                          handle[on[q]] \notin excused, tgt[q] = x
                   PROVE  FALSE
        BY <2>1
      <4>1. pc[q] \in Passed /\ ident[x] = "active" /\ name[x] = handle[on[q]]
        BY <3>1 DEF Rows, Target, Unsettled
      <4>2. name[x] = handle[on[p]]
        BY <3>1 DEF Rows, Unsettled
      <4>3. ident[x] = "pending"
        BY <3>1, <4>1, <4>2 DEF Target, Unsettled
      <4> QED
        BY <4>1, <4>3
    <3>5. Knows(p)
      BY <3>2 DEF Knows
    <3> HIDE DEF x
    <3> QED
      BY <1>2, <2>2, <3>1, <3>3, <3>4, <3>5
  <2>9. CASE Decide(p) \/ Raises(p)
    <3>1. /\ \E l \in {"failed", "mark"} : Leave(p, l)
          /\ pc[p] \in Approving /\ UNCHANGED <<ident, name>>
      BY <2>9 DEF Decide, Raises, Fail, Approving
    <3>2. pc'[p] \notin Targeted
      BY <1>0, <3>1, Leaving
    <3>3. Knows(p)
      BY <3>2 DEF Knows
    <3> QED
      BY <1>2, <2>2, <3>1, <3>3
  <2> QED
    BY <1>4, <2>3, <2>4, <2>5, <2>6, <2>7, <2>8, <2>9 DEF Approve
<1>5. CASE Lifecycles
  <2>1. PICK x \in Identity, s \in {t[2] : t \in Lifecycle} : SetStatus(x, s)
    BY <1>5 DEF Lifecycles
  <2>2. /\ ident' = [ident EXCEPT ![x] = s]
        /\ excused' = excused \cup {name[x]}
        /\ UNCHANGED <<name, pc, on, tgt, handle>>
    BY <2>1 DEF SetStatus, procVars, requestVars
  <2>3. ASSUME NEW q \in Process PROVE Knows(q)
    <3>1. CASE tgt[q] # x
      BY <1>0, <1>1, <2>2, <3>1 DEF Types
    <3>2. CASE tgt[q] = x
      BY <2>2, <3>2 DEF Target, Knows
    <3> QED
      BY <3>1, <3>2
  <2> QED
    BY <1>2, <2>3
<1>6. CASE Crash
  <2>1. \A q \in Process : pc'[q] = "idle"
    BY <1>6 DEF Crash
  <2> QED
    BY <1>2, <2>1 DEF Unsettled, Passed, Knows
<1> QED
  BY <1>3, <1>4, <1>5, <1>6, NextSplit

\* ... or from an accepted request.
LEMMA AcceptedStep ==
  ASSUME Shapes, Types, Places, Decided, Rows, Target, Accepted, [Next]_vars
  PROVE  Accepted'
<1> USE DEF agentVars, requestVars
<1>0. /\ \A r \in Request : req[r] = "accepted" => cid[r] \in Identity
      /\ \A q \in Process : pc[q] \in Targeted => tgt[q] \in Identity
  BY DEF Decided, Places
<1>1. ASSUME excused \subseteq excused',
             \A r \in Request : req'[r] = "accepted" =>
                req[r] = "accepted" /\ cid'[r] = cid[r] /\ handle'[r] = handle[r],
             \A r \in Request :
                req[r] = "accepted" /\ handle[r] \notin excused' =>
                   name'[cid[r]] = name[cid[r]] /\ ident'[cid[r]] = ident[cid[r]]
      PROVE  Accepted'
  BY <1>1 DEF Accepted
<1>2. CASE Bookkeeping
  <2>1. Quiet
    BY <1>2, BookkeepingIsQuiet
  <2> QED
    BY <1>1, <2>1 DEF Quiet
<1>3. ASSUME NEW p \in Process, Approve(p) PROVE Accepted'
  <2>1. UNCHANGED handle /\ excused \subseteq excused'
    BY <1>3, ApproveFrame
  <2>2. CASE LookUp(p) \/ Commit(p) \/ Grant(p) \/ HandleTaken(p) \/ Raises(p)
    BY <1>1, <2>1, <2>2 DEF LookUp, Commit, Grant, HandleTaken, Raises
  \* One row changes, and it is not the row of an accepted request.
  <2>3. ASSUME NEW x \in Identity, UNCHANGED <<req, cid>>,
               \A y \in Identity : y # x =>
                  ident'[y] = ident[y] /\ name'[y] = name[y],
               \/ ident[x] = "absent"
               \/ pc[p] \in Unsettled /\ tgt[p] = x
        PROVE  Accepted'
    <3>1. ASSUME NEW r \in Request, req[r] = "accepted",
                 handle[r] \notin excused
          PROVE  cid[r] # x
      <4>1. name[cid[r]] = handle[r] /\ ident[cid[r]] = "active"
        BY <3>1 DEF Accepted
      <4>2. pc[p] \in Unsettled /\ tgt[p] = cid[r] =>
                name[cid[r]] = handle[on[p]]
        BY DEF Rows
      <4>3. pc[p] \in Unsettled /\ tgt[p] = cid[r] => ident[cid[r]] = "pending"
        BY <3>1, <4>1, <4>2 DEF Target
      <4> QED
        BY <2>3, <4>1, <4>3
    <3> QED
      BY <1>0, <1>1, <2>1, <2>3, <3>1
  <2>4. CASE Activate(p)
    <3>1. pc[p] \in Unsettled /\ tgt[p] \in Identity
      BY <1>0, <2>4 DEF Activate, Unsettled, Targeted
    <3> QED
      BY <2>3, <2>4, <3>1 DEF Activate, Types
  <2>5. ASSUME NEW x \in Identity, Register(p, x) PROVE Accepted'
    BY <2>3, <2>5 DEF Register, Types, Shapes
  <2>6. CASE Rollback(p)
    <3>1. /\ ident' = Restored /\ UNCHANGED <<name, req, cid>>
          /\ excused' = excused \cup {name[x] : x \in Undone}
      BY <2>6 DEF Rollback
    <3>2. ASSUME NEW r \in Request, req[r] = "accepted",
                 handle[r] \notin excused'
          PROVE  ident'[cid[r]] = ident[cid[r]]
      <4>1. name[cid[r]] = handle[r] /\ cid[r] \in Identity
        BY <1>0, <3>1, <3>2 DEF Accepted
      <4>2. cid[r] \notin Undone
        BY <3>1, <3>2, <4>1
      <4> QED
        BY <3>1, <4>1, <4>2, RolledBack
    <3> QED
      BY <1>1, <2>1, <3>1, <3>2
  <2>7. CASE DeleteRow(p)
    <3>1. pc[p] \in Unsettled /\ tgt[p] \in Identity
      BY <1>0, <2>7 DEF DeleteRow, Unsettled, Targeted
    <3>2. \A y \in Identity : y # tgt[p] =>
             ident'[y] = ident[y] /\ name'[y] = name[y]
      BY <2>7 DEF DeleteRow, Types, Shapes
    <3>3. UNCHANGED <<req, cid>>
      BY <2>7 DEF DeleteRow
    <3> QED
      BY <2>3, <3>1, <3>2, <3>3
  <2>8. CASE Decide(p)
    <3> DEFINE r == on[p]
               x == tgt[p]
    <3>1. /\ pc[p] = "decide" /\ r \in Request /\ x \in Identity
          /\ UNCHANGED <<ident, name, excused>>
      BY <1>0, <2>8 DEF Decide, Places, Approving, Targeted, Passed, histVars
    <3>2. CASE req[r] = "pending"
      <4>1. /\ req' = [req EXCEPT ![r] = "accepted"]
            /\ cid' = [cid EXCEPT ![r] = x]
        BY <2>8, <3>2 DEF Decide
      <4>2. cid'[r] = x /\ \A q \in Request \ {r} : /\ req'[q] = req[q]
                                                    /\ cid'[q] = cid[q]
        BY <3>1, <4>1 DEF Types
      <4>3. handle[r] \notin excused => name[x] = handle[r] /\ ident[x] = "active"
        BY <3>1 DEF Target, Targeted, Passed
      <4> HIDE DEF r, x
      <4> QED
        BY <2>1, <3>1, <4>2, <4>3 DEF Accepted
    <3>3. CASE req[r] # "pending"
      BY <1>1, <2>1, <2>8, <3>1, <3>3 DEF Decide
    <3> QED
      BY <3>2, <3>3
  <2> QED
    BY <1>3, <2>2, <2>4, <2>5, <2>6, <2>7, <2>8 DEF Approve
<1>4. CASE Lifecycles
  <2>1. PICK x \in Identity, s \in {t[2] : t \in Lifecycle} : SetStatus(x, s)
    BY <1>4 DEF Lifecycles
  <2>2. /\ ident' = [ident EXCEPT ![x] = s]
        /\ excused' = excused \cup {name[x]}
        /\ UNCHANGED <<name, req, cid, handle>>
    BY <2>1 DEF SetStatus
  <2>3. \A r \in Request : req[r] = "accepted" /\ handle[r] \notin excused' =>
           cid[r] # x
    BY <2>2 DEF Accepted
  <2> QED
    BY <1>0, <1>1, <2>2, <2>3 DEF Types
<1>5. CASE Crash
  <2>1. /\ ident' = Restored /\ UNCHANGED <<name, req, cid, handle>>
        /\ excused \subseteq excused'
        /\ {name[x] : x \in Undone} \subseteq excused'
    BY <1>5 DEF Crash
  <2>2. ASSUME NEW r \in Request, req[r] = "accepted",
               handle[r] \notin excused'
        PROVE  ident'[cid[r]] = ident[cid[r]]
    <3>1. name[cid[r]] = handle[r] /\ cid[r] \in Identity
      BY <1>0, <2>1, <2>2 DEF Accepted
    <3>2. cid[r] \notin Undone
      BY <2>1, <2>2, <3>1
    <3> QED
      BY <2>1, <3>1, <3>2, RolledBack
  <2> QED
    BY <1>1, <2>1, <2>2
<1> QED
  BY <1>2, <1>3, <1>4, <1>5, NextSplit

\* An identity stays somebody's, if its owner is still there.
LEMMA KeepOwners ==
  ASSUME Owned, excused \subseteq excused',
         \A r \in Request : cid[r] \in Identity => cid'[r] = cid[r],
         \A x \in Identity :
           ident'[x] \in {"pending", "active"} /\ name'[x] \notin excused' =>
             \/ ident[x] \in {"pending", "active"} /\ name'[x] = name[x]
             \/ \E p \in Process : /\ tgt'[p] = x /\ pc'[p] \in Approving
                                   /\ handle'[on'[p]] = name'[x],
         \A p \in Process :
           (/\ tgt[p] \in Identity /\ pc[p] \in Approving
            /\ handle[on[p]] = name[tgt[p]] /\ handle[on[p]] \notin excused') =>
             \/ /\ tgt'[p] = tgt[p] /\ pc'[p] \in Approving
                /\ handle'[on'[p]] = handle[on[p]]
             \/ \E r \in Request : cid'[r] = tgt[p]
             \/ ident'[tgt[p]] \notin {"pending", "active"}
  PROVE  Owned'
<1> SUFFICES ASSUME NEW x \in Identity \ DOMAIN Agents,
                    ident'[x] \in {"pending", "active"}, name'[x] \notin excused'
             PROVE  \/ \E r \in Request : cid'[r] = x
                    \/ \E p \in Process : /\ tgt'[p] = x /\ pc'[p] \in Approving
                                          /\ handle'[on'[p]] = name'[x]
  BY DEF Owned
<1>1. CASE \E p \in Process : /\ tgt'[p] = x /\ pc'[p] \in Approving
                              /\ handle'[on'[p]] = name'[x]
  BY <1>1
<1>2. CASE ident[x] \in {"pending", "active"} /\ name'[x] = name[x]
  <2>1. name[x] \notin excused
    BY <1>2
  <2>2. \/ \E r \in Request : cid[r] = x
        \/ \E p \in Process : /\ tgt[p] = x /\ pc[p] \in Approving
                              /\ handle[on[p]] = name[x]
    BY <1>2, <2>1 DEF Owned
  <2>3. CASE \E r \in Request : cid[r] = x
    BY <2>3
  <2>4. ASSUME NEW p \in Process, tgt[p] = x, pc[p] \in Approving,
               handle[on[p]] = name[x]
        PROVE  \/ \E r \in Request : cid'[r] = x
               \/ \E q \in Process : /\ tgt'[q] = x /\ pc'[q] \in Approving
                                     /\ handle'[on'[q]] = name'[x]
    <3>1. \/ /\ tgt'[p] = tgt[p] /\ pc'[p] \in Approving
             /\ handle'[on'[p]] = handle[on[p]]
          \/ \E r \in Request : cid'[r] = tgt[p]
          \/ ident'[tgt[p]] \notin {"pending", "active"}
      BY <1>2, <2>4
    <3> QED
      BY <1>2, <2>4, <3>1
  <2> QED
    BY <2>2, <2>3, <2>4
<1> QED
  BY <1>1, <1>2

\* Every identity keeps an owner.
LEMMA OwnedStep ==
  ASSUME Shapes, Types, Places, Decided, Unique, Open, Rows, Target, Accepted,
         Owned, [Next]_vars
  PROVE  Owned'
<1> USE DEF agentVars, requestVars
<1>0. /\ \A q \in Process : pc[q] \in Targeted <=> tgt[q] \in Identity
      /\ \A q \in Process : pc[q] \in Approving =>
            on[q] \in Request /\ req[on[q]] # "absent"
      /\ Targeted \subseteq Approving
  BY DEF Places, Open, Targeted, Unsettled, Passed, Approving
<1>1. CASE Bookkeeping
  <2>1. Quiet
    BY <1>1, BookkeepingIsQuiet
  <2>2. \A q \in Process : tgt[q] \in Identity =>
           pc'[q] = pc[q] /\ handle'[on'[q]] = handle[on[q]]
    BY <1>0, <2>1 DEF Quiet
  <2>3. /\ UNCHANGED <<ident, name, tgt, cid>> /\ excused \subseteq excused'
    BY <2>1 DEF Quiet
  <2> QED
    BY <2>2, <2>3, KeepOwners
<1>2. ASSUME NEW p \in Process, Approve(p) PROVE Owned'
  <2>1. /\ \A q \in Process : q # p => /\ pc'[q] = pc[q] /\ on'[q] = on[q]
                                       /\ tgt'[q] = tgt[q]
        /\ pc'[p] \in Approving => on'[p] = on[p]
        /\ UNCHANGED handle /\ excused \subseteq excused'
    BY <1>2, ApproveFrame
  <2>2. CASE LookUp(p)
    <3>1. UNCHANGED <<ident, name, cid>> /\ tgt[p] \notin Identity
      BY <1>0, <2>2 DEF LookUp, Targeted, Unsettled, Passed
    <3> QED
      BY <2>1, <3>1, KeepOwners
  <2>3. CASE Activate(p)
    <3>1. /\ pc[p] = "activate" /\ ident' = [ident EXCEPT ![tgt[p]] = "active"]
          /\ UNCHANGED <<cid, name, on, tgt>> /\ pc'[p] \in {"commit", "grant"}
      BY <2>3 DEF Activate, To, Types
    <3>2. pc'[p] \in Approving /\ name[tgt[p]] = handle[on[p]]
      BY <3>1 DEF Approving, Rows, Unsettled
    <3>3. \A x \in Identity : x # tgt[p] => ident'[x] = ident[x]
      BY <3>1 DEF Types
    <3> QED
      BY <2>1, <3>1, <3>2, <3>3, KeepOwners
  <2>4. CASE Commit(p) \/ Grant(p) \/ HandleTaken(p)
    <3>1. /\ UNCHANGED <<ident, name, on, tgt, cid>> /\ pc'[p] \in Approving
      BY <2>4 DEF Commit, Grant, HandleTaken, To, Types, Approving
    <3> QED
      BY <2>1, <3>1, KeepOwners
  <2>5. ASSUME NEW x \in Identity, Register(p, x) PROVE Owned'
    <3>1. /\ pc[p] = "register" /\ ident' = [ident EXCEPT ![x] = "pending"]
          /\ name' = [name EXCEPT ![x] = handle[on[p]]]
          /\ tgt' = [tgt EXCEPT ![p] = x] /\ To(p, "activate")
          /\ UNCHANGED <<cid, on>>
      BY <2>5 DEF Register
    <3>2. /\ pc'[p] \in Approving /\ tgt'[p] = x /\ name'[x] = handle[on[p]]
          /\ \A y \in Identity : y # x =>
                ident'[y] = ident[y] /\ name'[y] = name[y]
      BY <3>1 DEF Types, Shapes, To, Approving
    <3>3. tgt[p] \notin Identity
      BY <1>0, <3>1 DEF Targeted, Unsettled, Passed
    <3> QED
      BY <2>1, <3>1, <3>2, <3>3, KeepOwners
  <2>6. CASE Rollback(p)
    <3>1. /\ ident' = Restored /\ UNCHANGED <<name, cid, on, tgt>>
          /\ excused' = excused \cup {name[x] : x \in Undone}
          /\ pc'[p] \in Approving
      BY <2>6 DEF Rollback, To, Types, Approving
    <3>2. \A x \in Identity : name'[x] \notin excused' => ident'[x] = ident[x]
      BY <3>1, RolledBack
    <3> QED
      BY <2>1, <3>1, <3>2, KeepOwners
  <2>7. CASE DeleteRow(p)
    <3>1. /\ UNCHANGED cid
          /\ \A y \in Identity : y # tgt[p] =>
                ident'[y] = ident[y] /\ name'[y] = name[y]
          /\ \/ ident'[tgt[p]] = "absent"
             \/ UNCHANGED <<ident, name>> /\ name[tgt[p]] \in excused'
      <4>1. tgt[p] \in Identity
        BY <1>0, <2>7 DEF DeleteRow, Targeted, Unsettled
      <4> QED
        BY <2>7, <4>1 DEF DeleteRow, Types, Shapes
    <3> QED
      BY <2>1, <3>1, KeepOwners
  <2>8. CASE Raises(p)
    <3>1. UNCHANGED <<ident, name, cid>> /\ handle[on[p]] \in excused'
      BY <2>8 DEF Raises
    <3> QED
      BY <2>1, <3>1, KeepOwners
  <2>9. CASE Decide(p)
    <3> DEFINE r == on[p]
               x == tgt[p]
    <3>1. /\ pc[p] = "decide" /\ r \in Request /\ x \in Identity
          /\ req[r] # "absent" /\ UNCHANGED <<ident, name, excused>>
      BY <1>0, <2>9 DEF Decide, Approving, Targeted, Passed, histVars
    <3>2. /\ \A q \in Request : cid[q] \in Identity => cid'[q] = cid[q]
          /\ \/ \E q \in Request : cid'[q] = x
             \/ handle[r] \in excused
      <4>1. CASE req[r] = "pending"
        <5>1. cid' = [cid EXCEPT ![r] = x] /\ cid[r] \notin Identity
          BY <2>9, <3>1, <4>1 DEF Decide, Decided
        <5> QED
          BY <3>1, <5>1 DEF Types
      <4>2. CASE req[r] = "refused"
        BY <2>9, <3>1, <4>2 DEF Decide, Open, Approving
      <4>3. CASE req[r] = "accepted" /\ handle[r] \notin excused
        <5>1. UNCHANGED cid
          BY <2>9, <4>3 DEF Decide
        <5>2. /\ cid[r] \in Identity /\ ident[cid[r]] = "active"
              /\ name[cid[r]] = handle[r]
          BY <3>1, <4>3 DEF Accepted, Decided
        <5>3. ident[x] = "active" /\ name[x] = handle[r]
          BY <3>1, <4>3 DEF Target, Targeted, Passed
        <5>4. x = cid[r]
          BY <3>1, <5>2, <5>3 DEF Unique
        <5> QED
          BY <3>1, <5>1, <5>4
      <4>4. CASE req[r] = "accepted" /\ handle[r] \in excused
        BY <2>9, <4>4 DEF Decide
      <4>5. req[r] \in {"absent", "pending", "accepted", "refused"}
        BY <3>1 DEF Types
      <4> QED
        BY <3>1, <4>1, <4>2, <4>3, <4>4, <4>5
    <3> QED
      BY <2>1, <3>1, <3>2, KeepOwners
  <2> QED
    BY <1>2, <2>2, <2>3, <2>4, <2>5, <2>6, <2>7, <2>8, <2>9 DEF Approve
<1>3. CASE Lifecycles
  <2>1. PICK x \in Identity, s \in {t[2] : t \in Lifecycle} : SetStatus(x, s)
    BY <1>3 DEF Lifecycles
  <2>2. /\ ident' = [ident EXCEPT ![x] = s]
        /\ excused' = excused \cup {name[x]}
        /\ UNCHANGED <<name, cid, handle, pc, on, tgt>>
    BY <2>1 DEF SetStatus, procVars
  <2>3. \A y \in Identity : name[y] \notin excused' => ident'[y] = ident[y]
    BY <2>2 DEF Types
  <2> QED
    BY <2>2, <2>3, KeepOwners
<1>4. CASE Crash
  <2>1. /\ UNCHANGED <<cid, name>> /\ excused \subseteq excused'
        /\ {name[x] : x \in Undone} \subseteq excused' /\ ident' = Restored
        /\ \A p \in Process : pc[p] \in Approving => handle[on[p]] \in excused'
    BY <1>4 DEF Crash
  <2>2. \A x \in Identity : name'[x] \notin excused' => ident'[x] = ident[x]
    BY <2>1, RolledBack
  <2> QED
    BY <2>1, <2>2, KeepOwners
<1> QED
  BY <1>1, <1>2, <1>3, <1>4, NextSplit

\* An identity that was activated for a request stays usable, unless it is
\* disturbed.
LEMMA UsableStep ==
  ASSUME Shapes, Types, Places, Decided, Rows, Usable, [Next]_vars
  PROVE  Usable'
<1> USE DEF agentVars, requestVars, Standing
<1>0. /\ \A q \in Process : pc[q] \in Targeted => tgt[q] \in Identity
      /\ \A r \in Request : req[r] = "accepted" => cid[r] \in Identity
      /\ "decide" \in Passed /\ Passed \subseteq Targeted
      /\ Unsettled \subseteq Targeted /\ Unsettled \cap Passed = {}
      /\ Targeted \subseteq Approving
  BY DEF Places, Decided, Targeted, Unsettled, Passed, Approving
<1> DEFINE Knows(q) ==
             /\ pc'[q] \in Unsettled =>
                  ident'[tgt'[q]] = "pending" \/ tgt'[q] \in disturbed'
             /\ pc'[q] \in Passed =>
                  ident'[tgt'[q]] \in Standing \/ tgt'[q] \in disturbed'
             /\ pc'[q] = "decide" => <<tgt'[q], on'[q]>> \in grants'
           Holds(r) ==
             req'[r] = "accepted" =>
               /\ <<cid'[r], r>> \in grants'
               /\ ident'[cid'[r]] \in Standing \/ cid'[r] \in disturbed'
           \* What a step may do to the identities that stay undisturbed.
           Fair(x) ==
             \/ x \in disturbed' \/ ident'[x] = ident[x]
             \/ ident[x] \in Standing /\ ident'[x] \in Standing
             \/ ident[x] \notin Standing \cup {"pending"}
<1>1. ASSUME NEW q \in Process, Fair(tgt[q]), disturbed \subseteq disturbed',
             grants \subseteq grants',
             pc'[q] \in Targeted =>
                /\ on'[q] = on[q] /\ tgt'[q] = tgt[q] 
                /\ \/ (pc'[q] \in Unsettled /\ pc[q] \in Unsettled)
                   \/ (pc'[q] \in Passed /\ pc[q] \in Passed)
                /\ pc'[q] = "decide" => pc[q] = "decide"
                                          \/ <<tgt[q], on[q]>> \in grants'
      PROVE  Knows(q)
  BY <1>0, <1>1 DEF Usable, Targeted
<1>2. ASSUME NEW r \in Request, req[r] = "accepted" => Fair(cid[r]),
             disturbed \subseteq disturbed', grants \subseteq grants',
             req'[r] = "accepted" => req[r] = "accepted" /\ cid'[r] = cid[r]
      PROVE  Holds(r)
  BY <1>0, <1>2 DEF Usable
<1>3. ASSUME \A q \in Process : Knows(q), \A r \in Request : Holds(r)
      PROVE  Usable'
  BY <1>3 DEF Usable
<1> HIDE DEF Knows, Holds
<1>4. CASE Bookkeeping
  <2>1. Quiet
    BY <1>4, BookkeepingIsQuiet
  <2>2. ASSUME NEW q \in Process PROVE Knows(q)
    BY <1>0, <1>1, <2>1 DEF Quiet, Targeted
  <2>3. ASSUME NEW r \in Request PROVE Holds(r)
    BY <1>2, <2>1 DEF Quiet
  <2> QED
    BY <1>3, <2>2, <2>3
<1>5. ASSUME NEW p \in Process, Approve(p) PROVE Usable'
  <2>1. /\ \A q \in Process : q # p => /\ pc'[q] = pc[q] /\ on'[q] = on[q]
                                       /\ tgt'[q] = tgt[q]
        /\ pc'[p] \in Approving => on'[p] = on[p]
        /\ disturbed \subseteq disturbed' /\ grants \subseteq grants'
    BY <1>5, ApproveFrame
  \* Nobody else minds ...
  <2>2. ASSUME \A x \in Identity : Fair(x), Knows(p), UNCHANGED <<req, cid>>
        PROVE  Usable'
    <3>1. ASSUME NEW q \in Process, q # p PROVE Knows(q)
      <4>1. CASE pc[q] \in Targeted
        BY <1>0, <1>1, <2>1, <2>2, <3>1, <4>1 DEF Targeted
      <4>2. CASE pc[q] \notin Targeted
        BY <1>0, <2>1, <3>1, <4>2 DEF Knows
      <4> QED
        BY <4>1, <4>2
    <3>2. ASSUME NEW r \in Request PROVE Holds(r)
      BY <1>0, <1>2, <2>1, <2>2
    <3> QED
      BY <1>3, <2>2, <3>1, <3>2
  \* ... what happens to a row that has not been activated.
  <2>3. ASSUME NEW x \in Identity, UNCHANGED <<req, cid>>, Knows(p),
               \A y \in Identity : y # x => ident'[y] = ident[y],
               pc[p] \in Unsettled /\ tgt[p] = x
        PROVE  Usable'
    <3>1. ident[x] = "pending" \/ x \in disturbed
      BY <2>3 DEF Usable
    <3>2. ASSUME NEW q \in Process, q # p PROVE Knows(q)
      <4>1. CASE pc[q] \in Unsettled
        <5>1. tgt[q] # x
          BY <2>3, <3>2, <4>1 DEF Rows
        <5> QED
          BY <1>0, <1>1, <2>1, <2>3, <3>2, <4>1, <5>1
      <4>2. CASE pc[q] \in Passed
        <5>1. tgt[q] # x \/ x \in disturbed'
          BY <2>1, <3>1, <4>2 DEF Usable
        <5> QED
          BY <1>0, <1>1, <2>1, <2>3, <3>2, <4>2, <5>1
      <4>3. CASE pc[q] \notin Targeted
        BY <1>0, <2>1, <3>2, <4>3 DEF Knows
      <4> QED
        BY <4>1, <4>2, <4>3 DEF Targeted
    <3>3. ASSUME NEW r \in Request PROVE Holds(r)
      <4>1. req[r] = "accepted" => cid[r] # x \/ x \in disturbed'
        BY <2>1, <3>1 DEF Usable
      <4> QED
        BY <1>0, <1>2, <2>1, <2>3, <4>1
    <3> QED
      BY <1>3, <2>3, <3>2, <3>3
  <2>4. CASE LookUp(p)
    <3>1. UNCHANGED <<ident, disturbed, req, cid>> /\ pc[p] = "look"
      BY <2>4 DEF LookUp, histVars
    <3>2. Knows(p)
      <4>1. CASE Fail(p)
        BY <1>0, <3>1, <4>1, Leaving DEF Fail, Approving, Knows
      <4>2. CASE To(p, "register")
        BY <4>2 DEF To, Types, Unsettled, Passed, Knows
      <4>3. ASSUME NEW x \in Active(handle[on[p]]),
                   tgt' = [tgt EXCEPT ![p] = x], To(p, "grant")
            PROVE  Knows(p)
        <5>1. ident[x] = "active" /\ x \in Identity
          BY <4>3 DEF Active
        <5>2. pc'[p] = "grant" /\ tgt'[p] = x
          BY <4>3 DEF To, Types
        <5> QED
          BY <3>1, <5>1, <5>2 DEF Unsettled, Passed, Knows
      <4> QED
        BY <2>4, <4>1, <4>2, <4>3 DEF LookUp
    <3> QED
      BY <2>2, <3>1, <3>2
  <2>5. CASE Activate(p)
    <3>1. /\ pc[p] = "activate" /\ tgt[p] \in Identity
          /\ ident' = [ident EXCEPT ![tgt[p]] = "active"]
          /\ UNCHANGED <<req, cid, on, tgt>>
          /\ pc'[p] \in {"commit", "grant"}
      BY <1>0, <2>5 DEF Activate, To, Types, Unsettled
    <3>2. /\ ident'[tgt[p]] = "active"
          /\ \A y \in Identity : y # tgt[p] => ident'[y] = ident[y]
      BY <3>1 DEF Types
    <3>3. Knows(p)
      BY <3>1, <3>2 DEF Unsettled, Passed, Knows
    <3> QED
      BY <2>3, <3>1, <3>2, <3>3 DEF Unsettled
  <2>6. CASE Commit(p) \/ Grant(p) \/ HandleTaken(p)
    <3>1. /\ UNCHANGED <<ident, on, tgt, req, cid>>
          /\ \/ (pc[p] \in Passed /\ pc'[p] \in Passed)
             \/ (pc[p] \in Unsettled /\ pc'[p] \in Unsettled)
      BY <2>6 DEF Commit, Grant, HandleTaken, To, Types, Unsettled, Passed
    <3>2. pc'[p] = "decide" => <<tgt[p], on[p]>> \in grants'
      BY <2>6 DEF Commit, Grant, HandleTaken, To, Types
    <3>3. Knows(p)
      BY <1>1, <2>1, <3>1, <3>2
    <3> QED
      BY <2>2, <3>1, <3>3
  <2>7. ASSUME NEW x \in Identity, Register(p, x) PROVE Usable'
    <3>1. /\ ident[x] = "absent" /\ ident' = [ident EXCEPT ![x] = "pending"]
          /\ tgt' = [tgt EXCEPT ![p] = x] /\ To(p, "activate")
          /\ UNCHANGED <<req, cid>>
      BY <2>7 DEF Register
    <3>2. /\ tgt'[p] = x /\ ident'[x] = "pending" /\ pc'[p] = "activate"
          /\ \A y \in Identity : y # x => ident'[y] = ident[y]
      BY <3>1 DEF Types, To
    <3>3. Knows(p)
      BY <3>2 DEF Unsettled, Passed, Knows
    <3> QED
      BY <2>2, <3>1, <3>2, <3>3
  <2>8. CASE Rollback(p)
    <3>1. /\ ident' = Restored /\ UNCHANGED <<req, cid, on, tgt>>
          /\ disturbed' = disturbed \cup Undone
          /\ pc[p] = "undo" /\ pc'[p] = "delete"
      BY <2>8 DEF Rollback, To, Types
    <3>2. \A x \in Identity : Fair(x)
      BY <3>1, RolledBack
    <3>3. Knows(p)
      BY <1>0, <1>1, <2>1, <3>1, <3>2 DEF Unsettled
    <3> QED
      BY <2>2, <3>1, <3>2, <3>3
  <2>9. CASE DeleteRow(p)
    <3>1. pc[p] = "delete" /\ Leave(p, "failed") /\ tgt[p] \in Identity
      BY <1>0, <2>9 DEF DeleteRow, Fail, Unsettled
    <3>2. Knows(p)
      BY <1>0, <3>1, Leaving DEF Approving, Knows
    <3>3. /\ \A y \in Identity : y # tgt[p] => ident'[y] = ident[y]
          /\ UNCHANGED <<req, cid>>
      BY <2>9 DEF DeleteRow, Types
    <3> QED
      BY <2>3, <3>1, <3>2, <3>3 DEF Unsettled
  <2>10. CASE Raises(p)
    <3>1. /\ Leave(p, "failed") /\ pc[p] \in Approving
          /\ UNCHANGED <<ident, req, cid>>
      BY <2>10 DEF Raises, Fail, Approving
    <3>2. Knows(p)
      BY <1>0, <3>1, Leaving DEF Knows
    <3> QED
      BY <2>2, <3>1, <3>2
  <2>11. CASE Decide(p)
    <3> DEFINE r == on[p]
               x == tgt[p]
    <3>1. /\ pc[p] = "decide" /\ r \in Request /\ x \in Identity
          /\ UNCHANGED <<ident, disturbed>>
      BY <1>0, <2>11 DEF Decide, Places, Approving, histVars
    <3>2. Knows(p)
      <4>1. PICK l \in {"failed", "mark"} : Leave(p, l)
        BY <2>11 DEF Decide, Fail
      <4> QED
        BY <1>0, <3>1, <4>1, Leaving DEF Knows
    <3>3. CASE req[r] # "pending"
      BY <2>2, <2>11, <3>1, <3>2, <3>3 DEF Decide
    <3>4. CASE req[r] = "pending"
      <4>1. /\ req' = [req EXCEPT ![r] = "accepted"]
            /\ cid' = [cid EXCEPT ![r] = x]
        BY <2>11, <3>4 DEF Decide
      <4>2. cid'[r] = x /\ \A s \in Request : s # r => /\ req'[s] = req[s]
                                                       /\ cid'[s] = cid[s]
        BY <3>1, <4>1 DEF Types
      <4>3. <<x, r>> \in grants /\ (ident[x] \in Standing \/ x \in disturbed)
        BY <1>0, <3>1 DEF Usable
      <4> HIDE DEF r, x
      <4>4. Holds(r)
        BY <2>1, <3>1, <4>2, <4>3 DEF Holds
      <4>5. ASSUME NEW s \in Request PROVE Holds(s)
        BY <1>2, <2>1, <3>1, <4>2, <4>4
      <4>6. ASSUME NEW q \in Process, q # p PROVE Knows(q)
        BY <1>0, <1>1, <2>1, <3>1, <4>6 DEF Targeted
      <4> QED
        BY <1>3, <3>2, <4>5, <4>6
    <3> QED
      BY <3>3, <3>4
  <2> QED
    BY <1>5, <2>4, <2>5, <2>6, <2>7, <2>8, <2>9, <2>10, <2>11 DEF Approve
<1>6. CASE Lifecycles
  <2>1. PICK x \in Identity, s \in {t[2] : t \in Lifecycle} : SetStatus(x, s)
    BY <1>6 DEF Lifecycles
  <2>2. /\ ident' = [ident EXCEPT ![x] = s]
        /\ disturbed' = IF ident[x] \in {"active", "suspended"} THEN disturbed
                        ELSE disturbed \cup {x}
        /\ UNCHANGED <<pc, on, tgt, req, cid, grants>>
    BY <2>1 DEF SetStatus, procVars
  <2>3. \A y \in Identity : Fair(y)
    BY <2>1, <2>2, LifecycleSteps DEF Types
  <2>4. ASSUME NEW q \in Process PROVE Knows(q)
    <3>1. CASE pc[q] \in Targeted
      BY <1>0, <1>1, <2>2, <2>3, <3>1 DEF Targeted
    <3>2. CASE pc[q] \notin Targeted
      BY <1>0, <2>2, <3>2 DEF Knows
    <3> QED
      BY <3>1, <3>2
  <2>5. ASSUME NEW r \in Request PROVE Holds(r)
    BY <1>0, <1>2, <2>2, <2>3
  <2> QED
    BY <1>3, <2>4, <2>5
<1>7. CASE Crash
  <2>1. /\ ident' = Restored /\ disturbed' = disturbed \cup Undone
        /\ UNCHANGED <<req, cid, grants>>
        /\ \A q \in Process : pc'[q] = "idle"
    BY <1>7 DEF Crash
  <2>2. \A x \in Identity : Fair(x)
    BY <2>1, RolledBack
  <2>3. \A q \in Process : Knows(q)
    BY <2>1 DEF Knows, Unsettled, Passed
  <2>4. ASSUME NEW r \in Request PROVE Holds(r)
    BY <1>0, <1>2, <2>1, <2>2
  <2> QED
    BY <1>3, <2>3, <2>4
<1> QED
  BY <1>4, <1>5, <1>6, <1>7, NextSplit

(***************************************************************************)
(* The theorems                                                            *)
(***************************************************************************)

LEMMA InitialState ==
  ASSUME Init
  PROVE  AInv /\ OpenWrites
<1> USE OnboardingAssumption DEF Init
<1>1. Shapes /\ Types
  BY DEF Shapes, Types
<1>2. Places /\ Decided /\ Unique
  BY DEF Places, Decided, Unique, Targeted, Unsettled, Passed, Approving,
         Process
<1>3. Open /\ Rows /\ Target /\ Accepted /\ Usable
  BY DEF Open, Rows, Target, Accepted, Usable, Targeted, Unsettled, Passed,
         Approving
<1>4. Owned /\ OpenWrites
  BY DEF Owned, OpenWrites, Undone
<1> QED
  BY <1>1, <1>2, <1>3, <1>4 DEF AInv

\* Every state has the types, and a process is where its work says it is: no
\* handler runs without its request, a decided request has an identity, and a
\* transaction is left open only by a handler that is about to end it.
THEOREM OnboardingTypeCorrect == Spec => []TypeOK
<1> DEFINE I == Types /\ Places /\ Decided /\ OpenWrites
<1>1. Init => I
  BY InitialState DEF AInv
<1>2. I /\ [Next]_vars => I'
  BY TypesStep, PlacesStep, DecidedStep, OpenWritesStep
<1>3. I => TypeOK
  BY DEF Types, Places, Decided, OpenWrites, TypeOK
<1> QED
  BY <1>1, <1>2, <1>3, PTL DEF Spec

\* Whatever approvals, redeems, reactivations, rollbacks and crashes race, two
\* agents are never active under one handle: set_status and register meet the
\* partial unique index.
THEOREM HandlesUnique == Spec => []HandleUnique
<1> DEFINE I == Shapes /\ Types /\ Places /\ Unique
<1>1. Init => I
  BY InitialState DEF AInv
<1>2. I /\ [Next]_vars => I'
  BY ShapesStep, TypesStep, PlacesStep, UniqueStep
<1>3. I => HandleUnique
  <2> SUFFICES ASSUME Unique, NEW h \in Handle
               PROVE  Cardinality(Active(h)) <= 1
    BY DEF HandleUnique
  <2>1. CASE Active(h) = {}
    BY <2>1, FS_EmptySet
  <2>2. ASSUME NEW x \in Active(h)
        PROVE  Cardinality(Active(h)) <= 1
    <3>1. Active(h) = {x}
      BY <2>2 DEF Active, Unique
    <3> QED
      BY <3>1, FS_Singleton
  <2> QED
    BY <2>1, <2>2
<1> QED
  BY <1>1, <1>2, <1>3, PTL DEF Spec

\* What approve_request_record establishes, in the order of its statements.
LEMMA ApprovalInvariant == Spec => []AInv
<1>1. Init => AInv
  BY InitialState
<1>2. AInv /\ [Next]_vars => AInv'
  <2> SUFFICES ASSUME AInv, [Next]_vars
               PROVE  AInv'
    OBVIOUS
  <2> USE DEF AInv
  <2>1. Shapes' /\ Types' /\ Places' /\ Decided'
    BY ShapesStep, TypesStep, PlacesStep, DecidedStep
  <2>2. Unique' /\ Open' /\ Rows' /\ Target' /\ Accepted'
    BY UniqueStep, OpenStep, RowsStep, TargetStep, AcceptedStep
  <2>3. Owned' /\ Usable'
    BY OwnedStep, UsableStep
  <2> QED
    BY <2>1, <2>2, <2>3
<1> QED
  BY <1>1, <1>2, PTL DEF Spec

\* A request that reads "accepted" has its grants and an identity that has
\* been active, whatever admins do and whoever else approves: the decision is
\* the approval's last write.  Only an admin's move of the row before the
\* approval activated it and a rollback of the activation by another approval
\* (approve_request_record's on an IntegrityError) can leave it without.
THEOREM AcceptedUsable == Spec => []AcceptedIsUsable
<1>1. AInv => AcceptedIsUsable
  BY DEF AInv, Usable, AcceptedIsUsable, Standing
<1> QED
  BY <1>1, ApprovalInvariant, PTL

\* However many approvals compete for a request or a handle, each identity
\* belongs to an accepted request or to an approval that is still at work,
\* unless an error, a denial, a rollback or an admin came between.
THEOREM IdentitiesOwned == Spec => []NoOrphanIdentity
<1>1. AInv => NoOrphanIdentity
  BY DEF AInv, Owned, NoOrphanIdentity
<1> QED
  BY <1>1, ApprovalInvariant, PTL

(***************************************************************************)
(* Invites: redeem() claims the row before it makes a request, and gives   *)
(* it back only with the request that failed.                              *)
(***************************************************************************)

\* The redeemer has claimed its invite and is not done with it.
Holding(p) == pc[p] \notin {"idle", "read"}

OneHolder == \A p, q \in Redeemer :
                Holding(p) /\ Holding(q) /\ Link[p] = Link[q] => p = q

PendingIsFree == \A p \in Redeemer : Holding(p) => invite[Link[p]] # "pending"

\* The request a redeemer works on is the one it has created, and until it is
\* at its mark nobody has accepted it in the invite's name.
OwnRequest ==
    \A p \in Redeemer : pc[p] \notin {"idle", "read", "claimed"} =>
        /\ on[p] \in Request /\ of[on[p]] = Link[p] /\ req[on[p]] # "absent"
        /\ on[p] \notin back
        /\ pc[p] # "mark" => by[on[p]] # "invite"

\* A request of the invite that its redeem has not given up.
Live(r) == of[r] \in Invite /\ r \notin back

LiveOnce == \A r, s \in Request :
                Live(r) /\ Live(s) /\ of[r] = of[s] => r = s

\* It keeps the invite from being claimed again.
LiveTaken ==
    \A r \in Request : Live(r) =>
        /\ invite[of[r]] # "pending"
        /\ \A p \in Redeemer : Link[p] = of[r] => pc[p] # "claimed"

\* What was given up was not accepted in the invite's name.
GivenUp ==
    /\ \A r \in Request : req[r] = "absent" => r \notin back /\ by[r] # "invite"
    /\ \A r \in Request \cap back : by[r] # "invite"

InviteInv == /\ OneHolder /\ PendingIsFree /\ OwnRequest /\ LiveOnce
             /\ LiveTaken /\ GivenUp /\ ClaimIsTemporary

\* Steps of others: no redeemer moves, an invite can only be closed, no
\* request is accepted in the name of an invite.
LEMMA InvitesKept ==
  ASSUME InviteInv, burned' = burned, back' = back,
         \A q \in Redeemer : pc'[q] = pc[q] /\ on'[q] = on[q],
         \A i \in Invite : invite'[i] \in {invite[i], "expired", "revoked"},
         \A r \in Request : \/ of'[r] = of[r]
                            \/ req[r] = "absent" /\ of'[r] = None,
         \A r \in Request : req[r] # "absent" => req'[r] # "absent",
         \A r \in Request : by'[r] = "invite" => by[r] = "invite"
  PROVE  InviteInv'
<1> USE OnboardingAssumption DEF InviteInv
<1>0. \A q \in Redeemer : Link[q] \in Invite
  OBVIOUS
<1>1. OneHolder'
  BY DEF OneHolder, Holding
<1>2. PendingIsFree'
  BY <1>0 DEF PendingIsFree, Holding
<1>3. OwnRequest'
  BY DEF OwnRequest
<1>a. \A r \in Request : Live(r)' => Live(r) /\ of'[r] = of[r]
  BY DEF Live
<1>4. LiveOnce'
  BY <1>a DEF LiveOnce
<1>5. LiveTaken'
  <2> SUFFICES ASSUME NEW r \in Request, Live(r)'
               PROVE  /\ invite'[of'[r]] # "pending"
                      /\ \A p \in Redeemer : Link[p] = of'[r]
                                                => pc'[p] # "claimed"
    BY DEF LiveTaken
  <2>1. Live(r) /\ of'[r] = of[r] /\ of[r] \in Invite
    BY <1>a DEF Live
  <2> QED
    BY <2>1 DEF LiveTaken
<1>6. GivenUp'
  BY DEF GivenUp
<1>7. ClaimIsTemporary'
  BY DEF ClaimIsTemporary
<1> QED
  BY <1>1, <1>2, <1>3, <1>4, <1>5, <1>6, <1>7

\* An approval goes on or fails; what it has claimed stays claimed.
LEMMA InvitesMove ==
  ASSUME InviteInv, NEW p \in Redeemer,
         UNCHANGED <<invite, burned, back, of, by, req>>,
         pc[p] \in Approving, pc'[p] \in Approving \cup {"failed"},
         \A q \in Redeemer : on'[q] = on[q] /\ (q # p => pc'[q] = pc[q])
  PROVE  InviteInv'
<1> USE DEF InviteInv, Approving
<1>a. \A q \in Redeemer : Holding(q)' = Holding(q)
  BY DEF Holding
<1>b. \A r \in Request : Live(r)' = Live(r)
  BY DEF Live
<1>1. OneHolder' /\ PendingIsFree'
  BY <1>a DEF OneHolder, PendingIsFree
<1>2. OwnRequest'
  BY DEF OwnRequest
<1>3. LiveOnce' /\ GivenUp'
  BY <1>b DEF LiveOnce, GivenUp
<1>4. LiveTaken'
  BY <1>b DEF LiveTaken
<1>5. ClaimIsTemporary'
  BY DEF ClaimIsTemporary
<1> QED
  BY <1>1, <1>2, <1>3, <1>4, <1>5

\* A redeemer begins, finds the invite taken, or is done with it.  Only one
\* that has no request yet gives it back so.
LEMMA InvitesRest ==
  ASSUME InviteInv, NEW p \in Redeemer, UNCHANGED <<by, back>>,
         \A r \in Request : \/ of'[r] = of[r]
                            \/ req[r] = "absent" /\ of'[r] = None,
         \A r \in Request : req[r] # "absent" => req'[r] # "absent",
         burned \subseteq burned', pc'[p] \in {"idle", "read"},
         \A q \in Redeemer : q # p => pc'[q] = pc[q] /\ on'[q] = on[q],
         \A i \in Invite : i # Link[p] => invite'[i] = invite[i],
         \/ invite'[Link[p]] \in {invite[Link[p]], "redeemed"}
         \/ invite'[Link[p]] = "pending" /\ pc[p] = "claimed",
         invite'[Link[p]] = "claimed" /\ Holding(p) => Link[p] \in burned'
  PROVE  InviteInv'
<1> USE OnboardingAssumption DEF InviteInv
<1>0. \A q \in Redeemer : Link[q] \in Invite
  OBVIOUS
<1>a. \A q \in Redeemer : Holding(q)' => q # p /\ Holding(q)
  BY DEF Holding
<1>b. \A r \in Request : Live(r)' => Live(r) /\ of'[r] = of[r]
  BY DEF Live
<1>1. OneHolder'
  BY <1>a DEF OneHolder
<1>2. PendingIsFree'
  <2> SUFFICES ASSUME NEW q \in Redeemer, Holding(q)'
               PROVE  invite'[Link[q]] # "pending"
    BY DEF PendingIsFree
  <2>1. q # p /\ Holding(q) /\ invite[Link[q]] # "pending"
    BY <1>a DEF PendingIsFree
  <2>2. CASE Link[q] = Link[p]
    BY <2>1, <2>2 DEF OneHolder, Holding
  <2>3. CASE Link[q] # Link[p]
    BY <1>0, <2>1, <2>3
  <2> QED
    BY <2>2, <2>3
<1>3. OwnRequest'
  BY DEF OwnRequest
<1>4. LiveOnce' /\ GivenUp'
  BY <1>b DEF LiveOnce, GivenUp
<1>5. LiveTaken'
  <2> SUFFICES ASSUME NEW r \in Request, Live(r)'
               PROVE  /\ invite'[of'[r]] # "pending"
                      /\ \A q \in Redeemer : Link[q] = of'[r]
                                                => pc'[q] # "claimed"
    BY DEF LiveTaken
  <2>1. Live(r) /\ of'[r] = of[r] /\ of[r] \in Invite
    BY <1>b DEF Live
  <2>2. invite[of[r]] # "pending" /\ (of[r] = Link[p] => pc[p] # "claimed")
    BY <2>1 DEF LiveTaken
  <2>3. invite'[of[r]] # "pending"
    BY <2>1, <2>2
  <2> QED
    BY <2>1, <2>3 DEF LiveTaken
<1>6. ClaimIsTemporary'
  <2> SUFFICES ASSUME NEW i \in Invite \ burned', invite'[i] = "claimed"
               PROVE  \E q \in Redeemer : Link[q] = i /\ Holding(q)'
    BY DEF ClaimIsTemporary, Holding
  <2>1. i \in Invite \ burned /\ invite[i] = "claimed"
    OBVIOUS
  <2>2. PICK q \in Redeemer : Link[q] = i /\ Holding(q)
    BY <2>1 DEF ClaimIsTemporary, Holding
  <2>3. q # p
    BY <2>2
  <2> QED
    BY <2>2, <2>3 DEF Holding
<1> QED
  BY <1>1, <1>2, <1>3, <1>4, <1>5, <1>6

\* A failed redeem gives up its request with the invite.
LEMMA InvitesGiveBack ==
  ASSUME Types, InviteInv, NEW p \in Redeemer, ApproveFailed(p)
  PROVE  InviteInv'
<1> USE OnboardingAssumption DEF InviteInv
<1> DEFINE i == Link[p]
<1>0. p \in Process /\ \A q \in Redeemer : Link[q] \in Invite /\ q \in Process
  BY DEF Process
<1>1. /\ pc[p] = "failed" /\ back' = back \cup {on[p]}
      /\ UNCHANGED <<of, by, req, burned>>
  BY DEF ApproveFailed
<1>2. /\ pc'[p] = "idle"
      /\ \A q \in Redeemer : q # p => pc'[q] = pc[q] /\ on'[q] = on[q]
  BY <1>0 DEF ApproveFailed, Idle, To, Types
<1>3. /\ invite'[i] # "claimed"
      /\ \A j \in Invite : j # i => invite'[j] = invite[j]
  BY <1>0 DEF ApproveFailed, FromClaimed, Types
<1>4. /\ Holding(p) /\ on[p] \in Request /\ of[on[p]] = i /\ on[p] \notin back
      /\ req[on[p]] # "absent" /\ by[on[p]] # "invite"
  BY <1>1 DEF Holding, OwnRequest
<1> HIDE DEF i
<1>5. \A q \in Redeemer : Holding(q)' => /\ q # p /\ Holding(q)
                                         /\ Link[q] # i
  BY <1>2, <1>4 DEF Holding, OneHolder, i
<1>6. \A r \in Request : Live(r)' => Live(r) /\ of[r] # i
  <2> SUFFICES ASSUME NEW r \in Request, Live(r)', of[r] = i PROVE FALSE
    BY <1>1 DEF Live
  <2>1. Live(r) /\ r # on[p]
    BY <1>1 DEF Live
  <2>2. Live(on[p])
    BY <1>0, <1>4 DEF Live, i
  <2> QED
    BY <1>4, <2>1, <2>2 DEF LiveOnce
<1>7. OneHolder' /\ PendingIsFree'
  BY <1>0, <1>3, <1>5 DEF OneHolder, PendingIsFree
<1>8. OwnRequest'
  <2> SUFFICES ASSUME NEW q \in Redeemer,
                      pc'[q] \notin {"idle", "read", "claimed"}
               PROVE  /\ on'[q] \in Request /\ of'[on'[q]] = Link[q]
                      /\ req'[on'[q]] # "absent" /\ on'[q] \notin back'
                      /\ pc'[q] # "mark" => by'[on'[q]] # "invite"
    BY DEF OwnRequest
  <2>1. q # p /\ Link[q] # i
    BY <1>5 DEF Holding
  <2> QED
    BY <1>1, <1>2, <1>4, <2>1 DEF OwnRequest
<1>9. LiveOnce' /\ GivenUp'
  BY <1>1, <1>4, <1>6 DEF LiveOnce, GivenUp
<1>10. LiveTaken'
  <2> SUFFICES ASSUME NEW r \in Request, Live(r)'
               PROVE  /\ invite'[of[r]] # "pending"
                      /\ \A q \in Redeemer : Link[q] = of[r]
                                                => pc'[q] # "claimed"
    BY <1>1 DEF LiveTaken
  <2>1. Live(r) /\ of[r] # i /\ of[r] \in Invite
    BY <1>6 DEF Live
  <2> QED
    BY <1>2, <1>3, <2>1 DEF LiveTaken
<1>11. ClaimIsTemporary'
  <2> SUFFICES ASSUME NEW j \in Invite \ burned, invite'[j] = "claimed"
               PROVE  \E q \in Redeemer : Link[q] = j /\ Holding(q)'
    BY <1>1 DEF ClaimIsTemporary, Holding
  <2>1. j # i /\ invite[j] = "claimed"
    BY <1>3
  <2>2. PICK q \in Redeemer : Link[q] = j /\ Holding(q)
    BY <2>1 DEF ClaimIsTemporary, Holding
  <2> QED
    BY <1>2, <2>1, <2>2 DEF Holding, i
<1> QED
  BY <1>7, <1>8, <1>9, <1>10, <1>11

\* The claim is a conditional update: it makes the only holder.
LEMMA InvitesClaim ==
  ASSUME Types, InviteInv, NEW p \in Redeemer, pc[p] = "read",
         invite[Link[p]] = "pending",
         invite' = [invite EXCEPT ![Link[p]] = "claimed"], To(p, "claimed"),
         UNCHANGED <<of, by, req, on, burned, back>>
  PROVE  InviteInv'
<1> USE OnboardingAssumption DEF InviteInv
<1>0. \A q \in Redeemer : Link[q] \in Invite
  OBVIOUS
<1>a. /\ pc'[p] = "claimed"
      /\ \A q \in Redeemer : q # p => pc'[q] = pc[q]
      /\ invite'[Link[p]] = "claimed"
      /\ \A i \in Invite : i # Link[p] => invite'[i] = invite[i]
  BY <1>0 DEF Types, To, Process
<1>b. \A q \in Redeemer : Link[q] = Link[p] => ~ Holding(q)
  BY DEF PendingIsFree
<1>c. \A r \in Request : Live(r)' => Live(r) /\ of[r] # Link[p]
  BY DEF Live, LiveTaken
<1>1. OneHolder'
  BY <1>a, <1>b DEF OneHolder, Holding
<1>2. PendingIsFree'
  BY <1>0, <1>a DEF PendingIsFree, Holding
<1>3. OwnRequest'
  BY <1>a DEF OwnRequest
<1>4. LiveOnce' /\ GivenUp'
  BY <1>c DEF LiveOnce, GivenUp
<1>5. LiveTaken'
  <2> SUFFICES ASSUME NEW r \in Request, Live(r)'
               PROVE  /\ invite'[of[r]] # "pending"
                      /\ \A q \in Redeemer : Link[q] = of[r]
                                                => pc'[q] # "claimed"
    BY DEF LiveTaken
  <2>1. Live(r) /\ of[r] # Link[p] /\ of[r] \in Invite
    BY <1>c DEF Live
  <2> QED
    BY <1>a, <2>1 DEF LiveTaken
<1>6. ClaimIsTemporary'
  BY <1>a DEF ClaimIsTemporary
<1> QED
  BY <1>1, <1>2, <1>3, <1>4, <1>5, <1>6

\* The holder makes the request of its claim.
LEMMA InvitesCreate ==
  ASSUME Types, InviteInv, NEW p \in Redeemer, NEW r \in Request,
         CreateForInvite(p, r)
  PROVE  InviteInv'
<1> USE OnboardingAssumption DEF InviteInv
<1> DEFINE l == IF kind[Link[p]].auto THEN "look" ELSE "mark"
<1>0. p \in Process /\ \A q \in Redeemer : Link[q] \in Invite /\ q \in Process
  BY DEF Process
<1>a. /\ pc[p] = "claimed" /\ UNCHANGED <<invite, burned, back>>
  BY DEF CreateForInvite, inviteVars, histVars
<1>b. /\ pc'[p] = l /\ on'[p] = r
      /\ \A q \in Redeemer : q # p => pc'[q] = pc[q] /\ on'[q] = on[q]
  <2>1. pc' = [pc EXCEPT ![p] = l] /\ on' = [on EXCEPT ![p] = r]
    BY DEF CreateForInvite, To
  <2> QED
    BY <1>0, <2>1 DEF Types
<1>c. /\ req[r] = "absent" /\ of'[r] = Link[p] /\ req'[r] = "pending"
      /\ \A s \in Request : s # r => of'[s] = of[s] /\ req'[s] = req[s]
      /\ UNCHANGED by
  <2>1. Create(r, Link[p], Deduped)
    BY DEF CreateForInvite
  <2> QED
    BY <1>0, <2>1, Creating
<1>d. l \in {"look", "mark"}
  OBVIOUS
<1> HIDE DEF l
<1>e. \A q \in Redeemer : Holding(q)' = Holding(q)
  BY <1>a, <1>b, <1>d DEF Holding
<1>f. r \notin back /\ by[r] # "invite"
  BY <1>c DEF GivenUp
<1>g. \A s \in Request : Live(s) => of[s] # Link[p]
  BY <1>a DEF LiveTaken
<1>h. \A s \in Request : s # r => Live(s)' = Live(s)
  BY <1>a, <1>c DEF Live
<1>1. OneHolder'
  BY <1>e DEF OneHolder
<1>2. PendingIsFree'
  BY <1>a, <1>e DEF PendingIsFree
<1>3. OwnRequest'
  <2> SUFFICES ASSUME NEW q \in Redeemer,
                      pc'[q] \notin {"idle", "read", "claimed"}
               PROVE  /\ on'[q] \in Request /\ of'[on'[q]] = Link[q]
                      /\ req'[on'[q]] # "absent" /\ on'[q] \notin back'
                      /\ pc'[q] # "mark" => by'[on'[q]] # "invite"
    BY DEF OwnRequest
  <2>1. CASE q = p
    BY <2>1, <1>a, <1>b, <1>c, <1>f
  <2>2. CASE q # p
    <3>1. /\ on'[q] = on[q] /\ on[q] \in Request /\ of[on[q]] = Link[q]
          /\ req[on[q]] # "absent" /\ on[q] \notin back
          /\ pc[q] # "mark" => by[on[q]] # "invite"
      BY <2>2, <1>b DEF OwnRequest
    <3>2. on[q] # r
      BY <3>1, <1>c
    <3> QED
      BY <2>2, <3>1, <3>2, <1>a, <1>b, <1>c
  <2> QED
    BY <2>1, <2>2
<1>4. LiveOnce'
  <2> SUFFICES ASSUME NEW s \in Request, NEW t \in Request, Live(s)', Live(t)',
                      of'[s] = of'[t]
               PROVE  s = t
    BY DEF LiveOnce
  <2> QED
    BY <1>c, <1>g, <1>h DEF LiveOnce
<1>5. LiveTaken'
  <2> SUFFICES ASSUME NEW s \in Request, Live(s)'
               PROVE  /\ invite'[of'[s]] # "pending"
                      /\ \A q \in Redeemer : Link[q] = of'[s]
                                                => pc'[q] # "claimed"
    BY DEF LiveTaken
  <2>1. CASE s = r
    <3>1. \A q \in Redeemer : Link[q] = Link[p] => pc'[q] # "claimed"
      BY <1>a, <1>b, <1>d DEF OneHolder, Holding
    <3>2. invite[Link[p]] # "pending"
      BY <1>a DEF PendingIsFree, Holding
    <3> QED
      BY <2>1, <3>1, <3>2, <1>a, <1>c
  <2>2. CASE s # r
    BY <2>2, <1>a, <1>b, <1>c, <1>d, <1>h DEF LiveTaken
  <2> QED
    BY <2>1, <2>2
<1>6. GivenUp'
  BY <1>a, <1>c DEF GivenUp
<1>7. ClaimIsTemporary'
  BY <1>a, <1>e DEF ClaimIsTemporary, Holding
<1> QED
  BY <1>1, <1>2, <1>3, <1>4, <1>5, <1>6, <1>7

\* The holder's request is accepted in the name of the invite, and its
\* redeemer has nothing left to do but mark it.
LEMMA InvitesDecide ==
  ASSUME Types, InviteInv, NEW p \in Redeemer, pc[p] = "decide",
         req[on[p]] = "pending", Decide(p)
  PROVE  InviteInv'
<1> USE OnboardingAssumption DEF InviteInv
<1> DEFINE r == on[p]
<1>0. p \in Process /\ \A q \in Redeemer : Link[q] \in Invite /\ q \in Process
  BY DEF Process
<1>a. r \in Request /\ of[r] = Link[p] /\ r \notin back
  BY <1>0 DEF OwnRequest
<1>c. /\ pc'[p] = "mark" /\ on' = on
      /\ \A q \in Redeemer : q # p => pc'[q] = pc[q]
  <2>1. Leave(p, "mark")
    BY DEF Decide
  <2>2. pc' = [pc EXCEPT ![p] = "mark"] /\ on' = on
    BY <2>1 DEF Leave, To
  <2> QED
    BY <2>2, <1>0 DEF Types
<1>d. /\ UNCHANGED <<invite, burned, back, of>>
      /\ req'[r] = "accepted" /\ \A s \in Request : s # r => req'[s] = req[s]
      /\ \A s \in Request : s # r => by'[s] = by[s]
  <2>1. UNCHANGED <<invite, burned, back, of>>
    BY DEF Decide, inviteVars, histVars
  <2>2. /\ req' = [req EXCEPT ![r] = "accepted"]
        /\ by' = [by EXCEPT ![r] = IF p \in Admin THEN "admin" ELSE "invite"]
    BY DEF Decide
  <2> QED
    BY <2>1, <2>2, <1>a DEF Types
<1> HIDE DEF r
<1>e. \A q \in Redeemer : Holding(q)' = Holding(q)
  BY <1>c DEF Holding
<1>f. \A s \in Request : Live(s)' = Live(s)
  BY <1>d DEF Live
<1>1. OneHolder' /\ PendingIsFree'
  BY <1>d, <1>e DEF OneHolder, PendingIsFree
<1>2. OwnRequest'
  <2> SUFFICES ASSUME NEW q \in Redeemer,
                      pc'[q] \notin {"idle", "read", "claimed"}
               PROVE  /\ on[q] \in Request /\ of[on[q]] = Link[q]
                      /\ req'[on[q]] # "absent" /\ on[q] \notin back
                      /\ pc'[q] # "mark" => by'[on[q]] # "invite"
    BY <1>c, <1>d DEF OwnRequest
  <2>1. pc[q] \notin {"idle", "read", "claimed"}
    BY <1>c
  <2>2. /\ on[q] \in Request /\ of[on[q]] = Link[q]
        /\ req[on[q]] # "absent" /\ on[q] \notin back
        /\ pc[q] # "mark" => by[on[q]] # "invite"
    BY <2>1 DEF OwnRequest
  <2>3. on[q] = r => q = p
    BY <1>a, <2>1, <2>2 DEF OneHolder, Holding
  <2> QED
    BY <2>2, <2>3, <1>c, <1>d
<1>3. LiveOnce' /\ LiveTaken'
  BY <1>c, <1>d, <1>f DEF LiveOnce, LiveTaken
<1>4. GivenUp'
  BY <1>a, <1>d DEF GivenUp
<1>5. ClaimIsTemporary'
  BY <1>d, <1>e DEF ClaimIsTemporary, Holding
<1> QED
  BY <1>1, <1>2, <1>3, <1>4, <1>5

\* The process dies: nobody holds an invite, and what was claimed is burned.
LEMMA InvitesCrash ==
  ASSUME InviteInv, Crash
  PROVE  InviteInv'
<1> USE DEF InviteInv
<1>1. /\ UNCHANGED <<invite, of, by, req, back>>
      /\ burned' = burned \cup {i \in Invite : invite[i] = "claimed"}
      /\ \A q \in Redeemer : pc'[q] = "idle"
  BY DEF Crash, Process
<1>2. \A q \in Redeemer : ~ Holding(q)'
  BY <1>1 DEF Holding
<1>3. OneHolder' /\ PendingIsFree'
  BY <1>2 DEF OneHolder, PendingIsFree
<1>4. OwnRequest'
  BY <1>1 DEF OwnRequest
<1>5. \A r \in Request : Live(r)' = Live(r)
  BY <1>1 DEF Live
<1>6. LiveOnce' /\ LiveTaken' /\ GivenUp'
  BY <1>1, <1>5 DEF LiveOnce, LiveTaken, GivenUp
<1>7. ClaimIsTemporary'
  BY <1>1 DEF ClaimIsTemporary
<1> QED
  BY <1>3, <1>4, <1>6, <1>7

\* Every statement of every handler keeps the invites' invariant.
LEMMA InvitesStep ==
  ASSUME Types, Places, InviteInv, [Next]_vars
  PROVE  InviteInv'
<1> USE OnboardingAssumption DEF inviteVars, requestVars, agentVars, procVars,
        histVars
<1>0. \A q \in Redeemer : q \in Process /\ q \notin Admin /\ Link[q] \in Invite
  BY DEF Process
\* Rows, but no redeemer.
<1>1. ASSUME UNCHANGED <<burned, back, by>>, UNCHANGED <<pc, on>>,
             \A i \in Invite : invite'[i] \in {invite[i], "expired", "revoked"},
             \A r \in Request :
                 \/ of'[r] = of[r]
                 \/ req[r] = "absent" /\ of'[r] = None,
             \A r \in Request : req[r] # "absent" => req'[r] # "absent"
      PROVE  InviteInv'
  BY <1>1, InvitesKept
<1>2. ASSUME NEW i \in Invite,
             ReadExpired(i) \/ WriteExpired(i) \/ RevokeInvite(i)
      PROVE  InviteInv'
  <2>1. \A j \in Invite : invite'[j] \in {invite[j], "expired", "revoked"}
    BY <1>2 DEF Types, ReadExpired, WriteExpired, RevokeInvite
  <2> QED
    BY <1>1, <1>2, <2>1 DEF ReadExpired, WriteExpired, RevokeInvite
<1>3. ASSUME NEW p \in Redeemer, ReadInvite(p) PROVE InviteInv'
  <2>1. /\ pc[p] = "idle" /\ pc'[p] = "read"
        /\ \A q \in Redeemer : q # p => pc'[q] = pc[q] /\ on'[q] = on[q]
        /\ UNCHANGED <<invite, of, by, req, burned, back>>
    BY <1>0, <1>3 DEF ReadInvite, To, Types
  <2> QED
    BY <2>1, InvitesRest DEF Holding
<1>4. ASSUME NEW p \in Redeemer, ClaimInvite(p) PROVE InviteInv'
  <2>1. UNCHANGED <<of, by, req, on, burned, back>> /\ pc[p] = "read"
    BY <1>4 DEF ClaimInvite
  <2>2. CASE invite[Link[p]] = "pending"
    BY <1>4, <2>1, <2>2, InvitesClaim DEF ClaimInvite
  <2>3. CASE invite[Link[p]] # "pending"
    <3>1. /\ pc'[p] = "idle" /\ invite' = invite
          /\ \A q \in Redeemer : q # p => pc'[q] = pc[q]
      BY <1>0, <1>4, <2>3 DEF ClaimInvite, To, Types
    <3> QED
      BY <2>1, <3>1, InvitesRest DEF Holding
  <2> QED
    BY <2>2, <2>3
<1>5. ASSUME NEW p \in Redeemer, NEW r \in Request, CreateForInvite(p, r)
      PROVE  InviteInv'
  BY <1>5, InvitesCreate
\* A redeemer that is done with its invite.
<1>6. ASSUME NEW p \in Redeemer, Idle(p)
      PROVE  /\ pc'[p] = "idle"
             /\ \A q \in Redeemer : q # p => pc'[q] = pc[q] /\ on'[q] = on[q]
  BY <1>0, <1>6 DEF Idle, To, Types
<1>7. ASSUME NEW p \in Redeemer, NEW s, FromClaimed(Link[p], s)
      PROVE  /\ invite'[Link[p]] = IF invite[Link[p]] = "claimed" THEN s
                                   ELSE invite[Link[p]]
             /\ \A i \in Invite : i # Link[p] => invite'[i] = invite[i]
  BY <1>0, <1>7 DEF FromClaimed, Types
<1>8. ASSUME NEW p \in Redeemer, CreateFails(p) PROVE InviteInv'
  <2>1. pc[p] = "claimed" /\ Idle(p) /\ UNCHANGED back
    BY <1>8 DEF CreateFails
  <2> DEFINE Kept ==
               /\ \A r \in Request : \/ of'[r] = of[r]
                                     \/ req[r] = "absent" /\ of'[r] = None
               /\ \A r \in Request : req[r] # "absent" => req'[r] # "absent"
               /\ UNCHANGED by
  <2>2. Kept
    <3>1. CASE UNCHANGED requestVars
      BY <3>1 DEF requestVars
    <3>2. ASSUME NEW r \in Request, Create(r, None, Deduped)
          PROVE  Kept
      <4>1. /\ req[r] = "absent" /\ req'[r] = "pending" /\ of'[r] = None
            /\ \A s \in Request : s # r => req'[s] = req[s] /\ of'[s] = of[s]
            /\ UNCHANGED by
        BY <3>2, Creating
      <4> QED
        BY <4>1
    <3> HIDE DEF Kept
    <3>3. \/ UNCHANGED requestVars
          \/ \E r \in Request : Create(r, None, Deduped)
      BY <1>8 DEF CreateFails
    <3> QED
      BY <3>1, <3>2, <3>3
  <2>3. CASE burned' = burned \cup {Link[p]} /\ UNCHANGED invite
    BY <1>6, <2>1, <2>2, <2>3, InvitesRest
  <2>4. CASE FromClaimed(Link[p], "pending") /\ UNCHANGED burned
    <3>1. invite'[Link[p]] # "claimed"
      BY <1>7, <2>4
    <3>2. invite'[Link[p]] \in {invite[Link[p]], "pending"}
      BY <1>7, <2>4
    <3> QED
      BY <1>6, <1>7, <2>1, <2>2, <2>4, <3>1, <3>2, InvitesRest
  <2> QED
    BY <1>8, <2>3, <2>4 DEF CreateFails
<1>9. ASSUME NEW p \in Redeemer, MarkRedeemed(p) PROVE InviteInv'
  <2>1. /\ Idle(p) /\ UNCHANGED <<of, by, req, burned, back>>
        /\ FromClaimed(Link[p], "redeemed")
    BY <1>9 DEF MarkRedeemed
  <2>2. /\ invite'[Link[p]] # "claimed"
        /\ invite'[Link[p]] \in {invite[Link[p]], "redeemed"}
    BY <1>7, <2>1
  <2> QED
    BY <1>6, <1>7, <2>1, <2>2, InvitesRest
<1>10. ASSUME NEW p \in Redeemer, MarkFails(p) PROVE InviteInv'
  <2>1. /\ Idle(p) /\ UNCHANGED <<invite, of, by, req, back>>
        /\ burned' = burned \cup {Link[p]}
    BY <1>10 DEF MarkFails
  <2> QED
    BY <1>6, <2>1, InvitesRest
<1>11. ASSUME NEW p \in Redeemer, ApproveFailed(p) PROVE InviteInv'
  BY <1>11, InvitesGiveBack
\* Approvals, by a redeemer or by an admin.
<1>12. ASSUME NEW p \in Process, Approve(p) PROVE InviteInv'
  <2>1. /\ \A q \in Process : q # p => pc'[q] = pc[q] /\ on'[q] = on[q]
        /\ pc[p] \in Approving
        /\ UNCHANGED <<invite, of, burned, back>>
    BY <1>12, ApproveFrame
  <2>2. CASE p \in Admin /\ UNCHANGED <<req, by>>
    BY <1>0, <2>1, <2>2, InvitesKept
  <2>3. CASE p \in Redeemer /\ ~ Decide(p)
    <3>1. pc'[p] \in Approving \cup {"failed"} /\ on'[p] = on[p]
      <4>1. \/ \E l \in Approving : To(p, l) /\ UNCHANGED on
            \/ Fail(p)
        BY <1>12, <2>3 DEF Approve, LookUp, Activate, Commit, Grant, Register,
           HandleTaken, Rollback, DeleteRow, Raises, Approving
      <4>2. CASE \E l \in Approving : To(p, l) /\ UNCHANGED on
        BY <4>2 DEF To, Types
      <4>3. CASE Fail(p)
        BY <2>1, <2>3, <4>3, Leaving DEF Fail
      <4> QED
        BY <4>1, <4>2, <4>3
    <3>2. UNCHANGED <<req, by>>
      BY <1>12, <2>3 DEF Approve, LookUp, Activate, Commit, Grant, Register,
         HandleTaken, Rollback, DeleteRow, Raises
    <3> QED
      BY <1>0, <2>1, <2>3, <3>1, <3>2, InvitesMove
  <2>4. CASE Decide(p)
    <3>1. pc[p] = "decide" /\ on[p] \in Request
      BY <2>4 DEF Decide, Approving, Places
    <3>2. CASE req[on[p]] # "pending" /\ p \in Redeemer
      <4>1. Fail(p) /\ UNCHANGED <<req, by>>
        BY <2>4, <3>2 DEF Decide
      <4>2. pc'[p] = "failed" /\ on'[p] = on[p]
        BY <2>1, <3>2, <4>1, Leaving DEF Fail
      <4> QED
        BY <1>0, <2>1, <3>2, <4>1, <4>2, InvitesMove
    <3>3. CASE req[on[p]] # "pending" /\ p \in Admin
      BY <2>2, <2>4, <3>3 DEF Decide
    <3>4. CASE req[on[p]] = "pending" /\ p \in Redeemer
      BY <2>4, <3>1, <3>4, InvitesDecide
    <3>5. CASE req[on[p]] = "pending" /\ p \in Admin
      <4>1. /\ req' = [req EXCEPT ![on[p]] = "accepted"]
            /\ by' = [by EXCEPT ![on[p]] = IF p \in Admin THEN "admin"
                                           ELSE "invite"]
        BY <2>4, <3>5 DEF Decide
      <4>2. /\ req'[on[p]] = "accepted" /\ by'[on[p]] = "admin"
            /\ \A r \in Request : r # on[p] => req'[r] = req[r] /\ by'[r] = by[r]
        BY <3>1, <3>5, <4>1 DEF Types
      <4>3. /\ \A r \in Request : req[r] # "absent" => req'[r] # "absent"
            /\ \A r \in Request : by'[r] = "invite" => by[r] = "invite"
        BY <4>2
      <4> QED
        BY <1>0, <2>1, <3>5, <4>3, InvitesKept
    <3> QED
      BY <3>2, <3>3, <3>4, <3>5 DEF Process
  <2>5. CASE p \in Admin /\ ~ Decide(p)
    BY <1>12, <2>2, <2>5 DEF Approve, LookUp, Activate, Commit, Grant,
       Register, HandleTaken, Rollback, DeleteRow, Raises
  <2> QED
    BY <2>3, <2>4, <2>5 DEF Process
<1>13. ASSUME NEW r \in Request, RefuseFailed(r) \/ DenyAuthRequest(r)
       PROVE  InviteInv'
  <2>1. \A s \in Request : req[s] # "absent" => req'[s] # "absent"
    BY <1>13 DEF RefuseFailed, DenyAuthRequest, Types
  <2> QED
    BY <1>1, <1>13, <2>1 DEF RefuseFailed, DenyAuthRequest
<1>14. ASSUME NEW r \in Request, NEW h, CreateAuthRequest(r, h)
       PROVE  InviteInv'
  <2>1. Create(r, None, h) /\ UNCHANGED <<burned, back, pc, on, invite>>
    BY <1>14 DEF CreateAuthRequest
  <2>2. /\ req[r] = "absent" /\ req'[r] = "pending" /\ of'[r] = None
        /\ \A s \in Request : s # r => req'[s] = req[s] /\ of'[s] = of[s]
        /\ UNCHANGED by
    BY <2>1, Creating
  <2> QED
    BY <1>1, <2>1, <2>2
<1>15. ASSUME NEW a \in Admin, NEW r \in Request, ApproveAuthRequest(a, r)
       PROVE  InviteInv'
  <2>1. \A q \in Redeemer : pc'[q] = pc[q] /\ on'[q] = on[q]
    BY <1>0, <1>15 DEF ApproveAuthRequest, To, Types
  <2>2. UNCHANGED <<invite, burned, back, of, by, req>>
    BY <1>15 DEF ApproveAuthRequest
  <2> QED
    BY <2>1, <2>2, InvitesKept
<1>16. CASE Lifecycles
  BY <1>1, <1>16 DEF Lifecycles, SetStatus
<1>17. CASE Crash
  BY <1>17, InvitesCrash
<1>18. CASE UNCHANGED vars
  BY <1>1, <1>18 DEF vars
<1> QED
  BY <1>2, <1>3, <1>4, <1>5, <1>8, <1>9, <1>10, <1>11, <1>12, <1>13, <1>14,
     <1>15, <1>16, <1>17, <1>18, NextSplit DEF Bookkeeping, Redeem

LEMMA InviteInvariant == Spec => [](Types /\ Places /\ InviteInv)
<1> DEFINE I == Types /\ Places /\ InviteInv
<1>1. Init => I
  <2> SUFFICES ASSUME Init PROVE I
    OBVIOUS
  <2>1. Types /\ Places
    BY InitialState DEF AInv
  <2>2. /\ \A p \in Redeemer : pc[p] = "idle"
        /\ \A r \in Request : /\ req[r] = "absent" /\ of[r] = None
                              /\ by[r] = None
        /\ \A i \in Invite : invite[i] = "pending"
        /\ back = {}
    BY DEF Init, Process
  <2>3. \A i \in Invite : i # None
    BY OnboardingAssumption
  <2> QED
    BY <2>1, <2>2, <2>3 DEF InviteInv, OneHolder, PendingIsFree, OwnRequest,
       LiveOnce, Live, LiveTaken, GivenUp, ClaimIsTemporary, Holding, None
<1>2. I /\ [Next]_vars => I'
  BY TypesStep, PlacesStep, InvitesStep
<1> QED
  BY <1>1, <1>2, PTL DEF Spec

\* What failed redeems have given up are requests.
LEMMA GivenUpAreRequests == Spec => [](Types /\ Places /\ back \subseteq Request)
<1> DEFINE I == Types /\ Places /\ back \subseteq Request
<1>1. Init => I
  <2>1. Init => back = {}
    BY DEF Init
  <2> QED
    BY <2>1, InitialState DEF AInv
<1>2. I /\ [Next]_vars => I'
  <2> SUFFICES ASSUME I, [Next]_vars PROVE back' \subseteq Request
    BY TypesStep, PlacesStep
  <2>1. CASE Bookkeeping
    <3>1. ASSUME NEW p \in Redeemer, ApproveFailed(p)
          PROVE  back' \subseteq Request
      BY <3>1 DEF ApproveFailed, Places, Process
    <3>2. CASE UNCHANGED back
      BY <3>2
    <3> QED
      BY <2>1, <3>1, <3>2 DEF Bookkeeping, Redeem, ReadExpired, WriteExpired,
         RevokeInvite, ReadInvite, ClaimInvite, CreateForInvite, CreateFails,
         MarkRedeemed, MarkFails, RefuseFailed, DenyAuthRequest,
         CreateAuthRequest, ApproveAuthRequest, vars, histVars
  <2>2. ASSUME NEW p \in Process, Approve(p) PROVE back' \subseteq Request
    BY <2>2, ApproveFrame
  <2>3. CASE Lifecycles \/ Crash
    BY <2>3 DEF Lifecycles, SetStatus, Crash
  <2> QED
    BY <2>1, <2>2, <2>3, NextSplit
<1> QED
  BY <1>1, <1>2, PTL DEF Spec

\* An invite admits one agent: of all that redeem it, concurrently or again
\* after a failed approval, an expiry or a crash, one request is accepted, by
\* the redeem or by an admin; and a request that a redeem has given up, so
\* that the invite is on offer again, is never accepted in its name.  An
\* admin's approval of such a request that was already under way is not
\* excluded.
THEOREM InvitesAreSingleUse == Spec => []InviteSingleUse
<1>1. InviteInv /\ back \subseteq Request => InviteSingleUse
  <2> SUFFICES ASSUME InviteInv, back \subseteq Request
               PROVE  InviteSingleUse
    OBVIOUS
  <2>1. \A r \in back : by[r] # "invite"
    BY DEF InviteInv, GivenUp
  <2>2. ASSUME NEW i \in Invite
        PROVE  Cardinality({r \in Request \ back :
                              of[r] = i /\ req[r] = "accepted"}) <= 1
    <3> DEFINE S == {r \in Request \ back : of[r] = i /\ req[r] = "accepted"}
    <3>1. \A r, s \in S : r = s
      BY DEF InviteInv, LiveOnce, Live
    <3>2. CASE S = {}
      BY <3>2, FS_EmptySet
    <3>3. CASE S # {}
      <4>1. PICK r \in S : S = {r}
        BY <3>1, <3>3
      <4>2. Cardinality({r}) = 1
        BY FS_Singleton
      <4> QED
        BY <4>1, <4>2
    <3> QED
      BY <3>2, <3>3
  <2> QED
    BY <2>1, <2>2 DEF InviteSingleUse
<1> QED
  BY <1>1, InviteInvariant, GivenUpAreRequests, PTL

\* A failed approval does not burn the invite: a claimed invite has a
\* redeemer at work on it, unless a crash or a failed write intervened.
THEOREM ClaimsAreTemporary == Spec => []ClaimIsTemporary
<1>1. InviteInv => ClaimIsTemporary
  BY DEF InviteInv
<1> QED
  BY <1>1, InviteInvariant, PTL

----------------------------------------------------------------------------
(* What is final *)

\* A decided request keeps its decision, who made it and the identity it
\* gave; a revoked identity stays revoked, unless it was never activated and
\* the approval that registered it deletes its row.
FinalStep ==
    /\ \A r \in Request : req[r] \in {"accepted", "refused"} =>
          req'[r] = req[r] /\ cid'[r] = cid[r] /\ by'[r] = by[r]
    /\ \A x \in Identity : ident[x] = "revoked" =>
          \/ ident'[x] = "revoked"
          \/ ident'[x] = "absent" /\ \E p \in Process : pc[p] = "delete"
                                                          /\ tgt[p] = x

\* No approval, refusal, rollback or lifecycle change that comes late
\* reverses one of these decisions.
DecisionsFinal == [][FinalStep]_vars

\* The statements of approvals, refusals and the lifecycle are conditional on
\* the row they find, whatever they have read before.
LEMMA FinalKept ==
  ASSUME Types, Places, OpenWrites, [Next]_vars
  PROVE  FinalStep
<1> USE DEF inviteVars, requestVars, agentVars, procVars, histVars, FinalStep
<1>0. /\ req \in [Request -> {"absent", "pending", "accepted", "refused"}]
      /\ cid \in [Request -> Identity \cup {None}]
      /\ by \in [Request -> {None, "admin", "invite"}]
      /\ ident \in [Identity -> {"absent", "pending", "active", "suspended",
                                 "revoked", "rejected"}]
  BY DEF Types
<1>1. ASSUME UNCHANGED <<req, cid, by, ident>> PROVE FinalStep
  BY <1>1
<1>2. ASSUME NEW i \in Invite, ReadExpired(i) \/ WriteExpired(i) \/ RevokeInvite(i)
      PROVE  FinalStep
  BY <1>1, <1>2 DEF ReadExpired, WriteExpired, RevokeInvite
<1>3. ASSUME NEW r \in Request, NEW i, NEW h, Create(r, i, h), UNCHANGED ident
      PROVE  FinalStep
  BY <1>0, <1>3 DEF Create
<1>4. ASSUME NEW p \in Redeemer, Redeem(p) PROVE FinalStep
  <2>1. CASE \/ ReadInvite(p) \/ ClaimInvite(p)
             \/ MarkRedeemed(p) \/ MarkFails(p) \/ ApproveFailed(p)
    <3>1. UNCHANGED <<req, cid, by, ident>>
      BY <2>1 DEF ReadInvite, ClaimInvite, MarkRedeemed, MarkFails,
                  ApproveFailed
    <3> QED
      BY <1>1, <3>1
  <2>2. ASSUME NEW r \in Request, CreateForInvite(p, r) PROVE FinalStep
    BY <1>3, <2>2 DEF CreateForInvite
  <2>3. CASE CreateFails(p)
    <3>1. UNCHANGED ident
      BY <2>3 DEF CreateFails
    <3>2. \/ UNCHANGED requestVars
          \/ \E r \in Request : Create(r, None, Deduped)
      BY <2>3 DEF CreateFails
    <3> QED
      BY <1>1, <1>3, <3>1, <3>2
  <2> QED
    BY <1>4, <2>1, <2>2, <2>3 DEF Redeem
<1>5. ASSUME NEW p \in Process,
             LookUp(p) \/ Grant(p) \/ Raises(p) \/ Commit(p) \/ HandleTaken(p)
      PROVE  FinalStep
  <2>1. UNCHANGED <<req, cid, by, ident>>
    BY <1>5 DEF LookUp, Grant, Raises, Commit, HandleTaken
  <2> QED
    BY <1>1, <2>1
<1>6. ASSUME NEW p \in Process, Activate(p)
      PROVE  FinalStep
  <2>1. <<ident[tgt[p]], "active">> \in Transition
    BY <1>6 DEF Activate
  <2>2. ident[tgt[p]] # "revoked"
    BY <2>1 DEF Transition
  <2>3. /\ UNCHANGED <<req, cid, by>>
        /\ ident' = [ident EXCEPT ![tgt[p]] = "active"]
    BY <1>6 DEF Activate
  <2> QED
    BY <1>0, <2>2, <2>3
<1>7. ASSUME NEW p \in Process, NEW x \in Identity, Register(p, x)
      PROVE  FinalStep
  BY <1>0, <1>7 DEF Register
\* A rollback undoes nothing that was revoked.
<1>8. ASSUME ident' = Restored, UNCHANGED <<req, cid, by>> PROVE FinalStep
  <2>1. \A x \in Identity : ident[x] = "revoked" => x \notin Undone
    BY DEF OpenWrites, Undone
  <2> QED
    BY <1>8, <2>1, RolledBack
<1>9. ASSUME NEW p \in Process, Rollback(p) PROVE FinalStep
  BY <1>8, <1>9 DEF Rollback
<1>10. ASSUME NEW p \in Process, DeleteRow(p) PROVE FinalStep
  <2>1. /\ pc[p] = "delete" /\ UNCHANGED <<req, cid, by>>
        /\ \/ ident' = [ident EXCEPT ![tgt[p]] = "absent"]
           \/ UNCHANGED ident
    BY <1>10 DEF DeleteRow
  <2> QED
    BY <1>0, <2>1
<1>11. ASSUME NEW p \in Process, Decide(p) PROVE FinalStep
  <2>1. UNCHANGED ident
    BY <1>11 DEF Decide
  <2>2. CASE req[on[p]] = "pending"
    <3>1. /\ \E s : req' = [req EXCEPT ![on[p]] = s]
          /\ \E s : cid' = [cid EXCEPT ![on[p]] = s]
          /\ \E s : by' = [by EXCEPT ![on[p]] = s]
      BY <1>11, <2>2 DEF Decide
    <3> QED
      BY <1>0, <2>1, <2>2, <3>1
  <2>3. CASE req[on[p]] # "pending"
    BY <1>1, <1>11, <2>1, <2>3 DEF Decide
  <2> QED
    BY <2>2, <2>3
<1>12. ASSUME NEW r \in Request, RefuseFailed(r) \/ DenyAuthRequest(r)
       PROVE  FinalStep
  BY <1>0, <1>12 DEF RefuseFailed, DenyAuthRequest
<1>13. ASSUME NEW r \in Request, NEW h \in Claims, CreateAuthRequest(r, h)
       PROVE  FinalStep
  BY <1>3, <1>13 DEF CreateAuthRequest
<1>14. ASSUME NEW a \in Admin, NEW r \in Request, ApproveAuthRequest(a, r)
       PROVE  FinalStep
  BY <1>1, <1>14 DEF ApproveAuthRequest
<1>15. CASE Lifecycles
  <2>1. PICK x \in Identity, s \in {t[2] : t \in Lifecycle} : SetStatus(x, s)
    BY <1>15 DEF Lifecycles
  <2>2. /\ ident[x] # "revoked"
        /\ UNCHANGED <<req, cid, by>> /\ ident' = [ident EXCEPT ![x] = s]
    BY <2>1, LifecycleSteps DEF SetStatus
  <2> QED
    BY <1>0, <2>2
<1>16. CASE Crash
  BY <1>8, <1>16 DEF Crash
<1>17. CASE UNCHANGED vars
  BY <1>1, <1>17 DEF vars
<1> QED
  BY <1>2, <1>4, <1>5, <1>6, <1>7, <1>9, <1>10, <1>11, <1>12, <1>13, <1>14,
     <1>15, <1>16, <1>17, NextSplit DEF Bookkeeping, Approve

\* An admin's approval and a redeem that race for a request, a denial that
\* falls between them and the clean-up of a failed redeem leave the first
\* decision standing; and neither an approval under way nor a rollback brings
\* an identity back that was revoked under its hands.
THEOREM DecisionsAreFinal == Spec => DecisionsFinal
<1> DEFINE I == Types /\ Places /\ OpenWrites
<1>1. Init => I
  BY InitialState DEF AInv
<1>2. I /\ [Next]_vars => I'
  BY TypesStep, PlacesStep, OpenWritesStep
<1>3. I /\ [Next]_vars => [FinalStep]_vars
  BY FinalKept
<1> QED
  BY <1>1, <1>2, <1>3, PTL DEF Spec, DecisionsFinal
=============================================================================
