----------------------------- MODULE Onboarding -----------------------------
(***************************************************************************)
(* How an agent from outside becomes a member: invites                     *)
(* (routes/project_invites.py, projects/invite_store.py), consent requests *)
(* and their approval (routes/agent_auth_requests.py,                      *)
(* auth_requests_store.py) and the registry of identities                  *)
(* (agent_registry_store.py, routes/agent_registry.py).                    *)
(*                                                                         *)
(* The stores are separate databases behind awaits: a handler is a chain   *)
(* of committed statements and everybody else can run between two of them. *)
(* Each statement is an action.  The handlers share the registry's one     *)
(* connection, and with it a transaction that one of them has left open.   *)
(* PINs, tokens and scopes are left out, but for whether a grant is bound  *)
(* to a project.  Bounds: each Request is used once, and a handle has as   *)
(* many suffixes as Handles has entries.                                   *)
(***************************************************************************)
EXTENDS Naturals, FiniteSets, Sequences

CONSTANTS Invite, Redeemer, Admin, Request, Identity,
          Link,       \* Link[p]: the invite the redeemer has the PIN of
          Agents,     \* Agents[x]: the handle of x, which starts suspended
          Handles,    \* a handle and its suffixed forms, in _dedupe's order
          Claims,     \* the handles that consent requests ask for
          Kinds,      \* the kinds of invites: approval_mode, for a project
          Lifecycle   \* the transitions of identities that admins make

None == "none"
Handle  == {Handles[n] : n \in DOMAIN Handles}
Process == Redeemer \cup Admin

\* _VALID_TRANSITIONS
Transition == {<<"pending", "active">>, <<"pending", "rejected">>,
               <<"active", "suspended">>, <<"suspended", "active">>,
               <<"active", "revoked">>, <<"suspended", "revoked">>,
               <<"pending", "revoked">>, <<"rejected", "revoked">>,
               <<"rejected", "pending">>, <<"rejected", "active">>}

ASSUME OnboardingAssumption ==
    /\ Kinds \subseteq [auto : BOOLEAN, project : BOOLEAN]
    /\ Redeemer \cap Admin = {} /\ Link \in [Redeemer -> Invite]
    /\ None \notin Invite \cup Request \cup Identity
    /\ Handles # <<>> /\ Claims \subseteq Handle
    /\ DOMAIN Agents \subseteq Identity
    /\ Lifecycle \subseteq Transition

VARIABLES
    kind,     \* what the invite was created with
    invite,   \* project_invites.status
    over,     \* invites whose TTL or attempts are known to have run out
    stale,    \* a call has read such an invite and will write "expired"
    req,      \* auth_requests.status, "absent" before it is created
    of,       \* the invite it was created for
    handle,   \* identity_claim, as a handle
    cid,      \* canonical_id of an accepted request
    by,       \* decided_by: the redeemed invite's creator, or an admin
    ident,    \* agent_registry.status, "absent" if there is no row
    name,     \* its handle
    grants,   \* <<x, r>>: the scopes of r have been granted to x
    undo,     \* the status an uncommitted activation has replaced, or None
    pc, on,   \* a process: where it is, and the request it works on
    tgt,      \* the identity it gives the request
    cleanup,  \* requests a failed redeem has yet to refuse
    burned,   \* history: invites left claimed by a crash or a failed write
    back,     \* history: requests whose redeem failed and gave the invite back
    disturbed,\* history: identities that an admin moved before an approval
              \* had activated them, or whose activation was rolled back
    excused   \* history: handles hit by an error, a denial or the lifecycle

inviteVars  == <<kind, invite, over, stale>>
requestVars == <<req, of, handle, cid, by, cleanup>>
agentVars   == <<ident, name, grants, undo>>
procVars    == <<pc, on, tgt>>
histVars    == <<burned, back, disturbed, excused>>
vars == <<inviteVars, requestVars, agentVars, procVars, histVars>>

Init == /\ kind \in [Invite -> Kinds]
        /\ invite = [i \in Invite |-> "pending"] /\ over = {} /\ stale = {}
        /\ req = [r \in Request |-> "absent"]
        /\ of = [r \in Request |-> None]
        /\ handle = [r \in Request |-> None]
        /\ cid = [r \in Request |-> None]
        /\ ident = [x \in Identity |-> IF x \in DOMAIN Agents THEN "suspended"
                                       ELSE "absent"]
        /\ name = [x \in Identity |-> IF x \in DOMAIN Agents THEN Agents[x]
                                      ELSE None]
        /\ grants = {} /\ undo = [x \in Identity |-> None]
        /\ pc = [p \in Process |-> "idle"]
        /\ on = [p \in Process |-> None]
        /\ tgt = [p \in Process |-> None]
        /\ cleanup = {}
        /\ by = [r \in Request |-> None]
        /\ burned = {} /\ back = {} /\ disturbed = {} /\ excused = {}

----------------------------------------------------------------------------
(* The registry *)

Active(h) == {x \in Identity : ident[x] = "active" /\ name[x] = h}

\* Mutant: the table has no unique index on active handles.
IndexAllowsAlways(x, s) == TRUE

\* ux_agent_active_handle, the partial unique index.
IndexAllows(x, s) == s = "active" => Active(name[x]) \subseteq {x}

\* A write has failed and left its transaction open on the connection that
\* all handlers share.  Until the rollback everything that others write is
\* part of it.
Dangling == \E p \in Process : pc[p] = "undo"

\* rollback(): what has been written since the failure is undone.
Undone == {x \in Identity : undo[x] # None}
Restored == [x \in Identity |-> IF x \in Undone THEN undo[x] ELSE ident[x]]
NothingOpen == [x \in Identity |-> None]

\* The lifecycle routes, and revoke.  One that falls into a transaction that
\* is rolled back changes nothing.
SetStatus(x, s) ==
    /\ <<ident[x], s>> \in Lifecycle /\ IndexAllows(x, s) /\ ~ Dangling
    /\ ident' = [ident EXCEPT ![x] = s]
    /\ excused' = excused \cup {name[x]}
    /\ disturbed' = IF ident[x] \in {"active", "suspended"} THEN disturbed
                    ELSE disturbed \cup {x}
    /\ UNCHANGED <<inviteVars, requestVars, name, grants, undo, procVars,
                   burned, back>>

----------------------------------------------------------------------------
(* Invites *)

To(p, l) == pc' = [pc EXCEPT ![p] = l]

\* redeem() or get() finds that the TTL or the attempts at the PIN have run
\* out; the write is a later statement without a condition.
ReadExpired(i) == /\ i \notin stale
                  /\ invite[i] \notin {"revoked", "redeemed"}
                  /\ over' = over \cup {i} /\ stale' = stale \cup {i}
                  /\ UNCHANGED <<kind, invite, requestVars, agentVars,
                                 procVars, histVars>>

WriteExpired(i) == /\ i \in stale /\ stale' = stale \ {i}
                   /\ invite' = [invite EXCEPT ![i] = "expired"]
                   /\ UNCHANGED <<kind, over, requestVars, agentVars, procVars,
                                  histVars>>

RevokeInvite(i) == /\ invite[i] \in {"pending", "expired"}
                   /\ invite' = [invite EXCEPT ![i] = "revoked"]
                   /\ UNCHANGED <<kind, over, stale, requestVars, agentVars,
                                  procVars, histVars>>

\* redeem(): the row is read and the PIN is right ...
ReadInvite(p) == /\ pc[p] = "idle" /\ Link[p] \notin over
                 /\ invite[Link[p]] \notin {"revoked", "redeemed"}
                 /\ To(p, "read")
                 /\ UNCHANGED <<inviteVars, requestVars, agentVars, on, tgt,
                                histVars>>

\* Mutant: the claim trusts what it has read.
ClaimInviteUnguarded(p) == /\ pc[p] = "read"
                           /\ invite' = [invite EXCEPT ![Link[p]] = "claimed"]
                           /\ To(p, "claimed")
                           /\ UNCHANGED <<kind, over, stale, requestVars,
                                          agentVars, on, tgt, histVars>>

\* ... and the conditional update claims it, or finds it taken.
ClaimInvite(p) == /\ pc[p] = "read"
                  /\ \/ /\ invite[Link[p]] = "pending"
                        /\ invite' = [invite EXCEPT ![Link[p]] = "claimed"]
                        /\ To(p, "claimed")
                     \/ /\ invite[Link[p]] # "pending"
                        /\ To(p, "idle") /\ UNCHANGED invite
                  /\ UNCHANGED <<kind, over, stale, requestVars, agentVars,
                                 on, tgt, histVars>>

\* _dedupe_handle: the first form of the handle that no active agent has.
Free == {n \in DOMAIN Handles : Active(Handles[n]) = {}}
Deduped == Handles[CHOOSE n \in Free : \A m \in Free : n <= m]

\* AuthRequestsStore.create
Create(r, i, h) == /\ req[r] = "absent"
                   /\ req' = [req EXCEPT ![r] = "pending"]
                   /\ of' = [of EXCEPT ![r] = i]
                   /\ handle' = [handle EXCEPT ![r] = h]
                   /\ UNCHANGED <<cid, by, cleanup>>

\* The redeem route goes on: a request under a free handle, approved at once
\* or left for the admin.
CreateForInvite(p, r) ==
    /\ pc[p] = "claimed" /\ Free # {}
    /\ Create(r, Link[p], Deduped)
    /\ To(p, IF kind[Link[p]].auto THEN "look" ELSE "mark")
    /\ on' = [on EXCEPT ![p] = r]
    /\ UNCHANGED <<inviteVars, agentVars, tgt, histVars>>

\* A conditional update that leaves other states than "claimed" alone:
\* rollback_to_pending and mark_redeemed.
FromClaimed(i, s) == invite' = [invite EXCEPT ![i] = IF @ = "claimed" THEN s
                                                     ELSE @]

Idle(p) == To(p, "idle") /\ on' = [on EXCEPT ![p] = None]

\* get_project, _dedupe_handle or create() fails.  Only a failed create() of
\* the project path gives the invite back.  One that fails after its commit
\* leaves a request that no redeemer knows of.
CreateFails(p) ==
    /\ pc[p] = "claimed" /\ Idle(p)
    /\ \/ burned' = burned \cup {Link[p]} /\ UNCHANGED invite
       \/ kind[Link[p]].project /\ FromClaimed(Link[p], "pending")
          /\ UNCHANGED burned
    /\ \/ UNCHANGED requestVars
       \/ Free # {} /\ \E r \in Request : Create(r, None, Deduped)
    /\ UNCHANGED <<kind, over, stale, agentVars, tgt, back, disturbed,
                   excused>>

MarkRedeemed(p) == /\ pc[p] = "mark" /\ Idle(p)
                   /\ FromClaimed(Link[p], "redeemed")
                   /\ UNCHANGED <<kind, over, stale, requestVars, agentVars,
                                  tgt, histVars>>

\* mark_redeemed fails; the route does not mind.
MarkFails(p) == /\ pc[p] = "mark" /\ Idle(p)
                /\ burned' = burned \cup {Link[p]}
                /\ UNCHANGED <<inviteVars, requestVars, agentVars, tgt, back,
                               disturbed, excused>>

\* Mutant: a failed approval keeps the invite.
ApproveFailedBurns(p) ==
    /\ pc[p] = "failed" /\ Idle(p)
    /\ cleanup' = cleanup \cup {on[p]}
    /\ back' = back \cup {on[p]}
    /\ UNCHANGED <<inviteVars, req, of, handle, cid, by, agentVars, tgt,
                   burned, disturbed, excused>>

\* The approval raised: the invite is given back first ...
ApproveFailed(p) ==
    /\ pc[p] = "failed" /\ Idle(p)
    /\ FromClaimed(Link[p], "pending")
    /\ cleanup' = cleanup \cup {on[p]} /\ back' = back \cup {on[p]}
    /\ UNCHANGED <<kind, over, stale, req, of, handle, cid, by, agentVars, tgt,
                   burned, disturbed, excused>>

\* History: r is refused under the hands of those who approve it.
Excuse(r) == excused' = IF \E p \in Process : on[p] = r
                        THEN excused \cup {handle[r]} ELSE excused

\* ... and its request is refused, unless it has been decided.
RefuseFailed(r) ==
    /\ r \in cleanup /\ cleanup' = cleanup \ {r}
    /\ req' = [req EXCEPT ![r] = IF @ = "pending" THEN "refused" ELSE @]
    /\ Excuse(r)
    /\ UNCHANGED <<inviteVars, of, handle, cid, by, agentVars, procVars,
                   burned, back, disturbed>>

----------------------------------------------------------------------------
(* Approval: approve_request_record *)

Approving == {"look", "register", "activate", "commit", "undo", "delete",
              "grant", "decide"}

\* The process is done with the request; a redeemer has more to do.
Leave(p, result) ==
    /\ tgt' = [tgt EXCEPT ![p] = None]
    /\ \/ p \in Redeemer /\ To(p, result) /\ UNCHANGED on
       \/ p \in Admin /\ Idle(p)

Fail(p) == Leave(p, "failed")

\* The scopes of the approval belong to a project; an admin may leave them
\* out, or defer the binding.
ForProject(p) == IF p \in Admin THEN BOOLEAN ELSE {kind[Link[p]].project}

\* get_by_handle: nobody has the handle, or somebody has, who is then added
\* to the project; without a project that is a conflict.
LookUp(p) ==
    /\ pc[p] = "look"
    /\ LET taken == Active(handle[on[p]]) IN
       \/ /\ taken = {}
          /\ To(p, "register") /\ UNCHANGED <<on, tgt>>
       \/ /\ TRUE \in ForProject(p)
          /\ \E x \in taken : tgt' = [tgt EXCEPT ![p] = x]
          /\ To(p, "grant") /\ UNCHANGED on
       \/ /\ taken # {} /\ FALSE \in ForProject(p)
          /\ Fail(p)
    /\ UNCHANGED <<inviteVars, requestVars, agentVars, histVars>>

\* register(): a row that is not active yet.  One that a rollback undoes is
\* a store that raises.
Register(p, x) ==
    /\ pc[p] = "register" /\ ident[x] = "absent" /\ ~ Dangling
    /\ ident' = [ident EXCEPT ![x] = "pending"]
    /\ name' = [name EXCEPT ![x] = handle[on[p]]]
    /\ tgt' = [tgt EXCEPT ![p] = x]
    /\ To(p, "activate")
    /\ UNCHANGED <<inviteVars, requestVars, grants, undo, on, histVars>>

\* set_status(active): the update, and the commit that follows in an await
\* of its own.  The two are one step unless the update is part of a
\* transaction that somebody is about to roll back.
Activate(p) ==
    /\ pc[p] = "activate"
    /\ <<ident[tgt[p]], "active">> \in Transition
    /\ IndexAllows(tgt[p], "active")
    /\ ident' = [ident EXCEPT ![tgt[p]] = "active"]
    /\ IF Dangling
       THEN undo' = [undo EXCEPT ![tgt[p]] = ident[tgt[p]]] /\ To(p, "commit")
       ELSE UNCHANGED undo /\ To(p, "grant")
    /\ UNCHANGED <<inviteVars, requestVars, name, grants, on, tgt, histVars>>

\* The commit succeeds also when there is nothing left to commit.
Commit(p) ==
    /\ pc[p] = "commit"
    /\ undo' = NothingOpen
    /\ To(p, "grant")
    /\ UNCHANGED <<inviteVars, requestVars, ident, name, grants, on, tgt,
                   histVars>>

\* IntegrityError: another approval has taken the handle meanwhile.
HandleTaken(p) ==
    /\ pc[p] = "activate"
    /\ <<ident[tgt[p]], "active">> \in Transition
    /\ ~ IndexAllows(tgt[p], "active")
    /\ To(p, "undo")
    /\ UNCHANGED <<inviteVars, requestVars, agentVars, on, tgt, histVars>>

\* The handler rolls the connection's transaction back ...
Rollback(p) ==
    /\ pc[p] = "undo"
    /\ ident' = Restored /\ undo' = NothingOpen
    /\ disturbed' = disturbed \cup Undone
    /\ excused' = excused \cup {name[x] : x \in Undone}
    /\ To(p, "delete")
    /\ UNCHANGED <<inviteVars, requestVars, name, grants, on, tgt, burned,
                   back>>

\* Mutant: the half-registered row stays.
DeleteRowKeepsRow(p) ==
    /\ pc[p] = "delete"
    /\ Fail(p)
    /\ UNCHANGED <<inviteVars, requestVars, agentVars, histVars>>

\* ... and deletes the half-registered row, if it can.
DeleteRow(p) ==
    /\ pc[p] = "delete"
    /\ \/ /\ ident' = [ident EXCEPT ![tgt[p]] = "absent"]
          /\ name' = [name EXCEPT ![tgt[p]] = None]
          /\ UNCHANGED excused
       \/ /\ excused' = excused \cup {name[tgt[p]]}
          /\ UNCHANGED <<ident, name>>
    /\ Fail(p)
    /\ UNCHANGED <<inviteVars, requestVars, grants, undo, burned, back,
                   disturbed>>

\* Mutant: the grants are left for later.
GrantLater(p) ==
    /\ pc[p] = "grant"
    /\ To(p, "decide")
    /\ UNCHANGED <<inviteVars, requestVars, agentVars, on, tgt, histVars>>

\* Grants, permissions and membership.
Grant(p) ==
    /\ pc[p] = "grant"
    /\ grants' = grants \cup {<<tgt[p], on[p]>>}
    /\ To(p, "decide")
    /\ UNCHANGED <<inviteVars, requestVars, ident, name, undo, on, tgt,
                   histVars>>

\* set_decision, conditional on "pending".
Decide(p) ==
    /\ pc[p] = "decide"
    /\ LET r == on[p] IN
       \/ /\ req[r] = "pending"
          /\ req' = [req EXCEPT ![r] = "accepted"]
          /\ cid' = [cid EXCEPT ![r] = tgt[p]]
          /\ by' = [by EXCEPT ![r] = IF p \in Admin THEN "admin" ELSE "invite"]
          /\ Leave(p, "mark")
       \/ /\ req[r] # "pending"
          /\ Fail(p) /\ UNCHANGED <<req, cid, by>>
    /\ UNCHANGED <<inviteVars, of, handle, cleanup, agentVars, histVars>>

\* A store raises, or the lifecycle has moved the new identity on.
Raises(p) ==
    /\ pc[p] \in {"register", "activate", "grant"}
    /\ Fail(p)
    /\ excused' = excused \cup {handle[on[p]]}
    /\ UNCHANGED <<inviteVars, requestVars, agentVars, burned, back,
                   disturbed>>

----------------------------------------------------------------------------
(* Consent *)

CreateAuthRequest(r, h) ==
    /\ Create(r, None, h)
    /\ UNCHANGED <<inviteVars, agentVars, procVars, histVars>>

\* approve_auth_request and _do_approve.  The lock of the request keeps two
\* admins apart only until an approval fails, when its entry is dropped
\* although others wait for it, and a redeemer never takes it: nothing here
\* rests on it.
ApproveAuthRequest(a, r) ==
    /\ pc[a] = "idle" /\ req[r] = "pending"
    /\ To(a, "look") /\ on' = [on EXCEPT ![a] = r]
    /\ UNCHANGED <<inviteVars, requestVars, agentVars, tgt, histVars>>

\* deny_auth_request, without the lock.
DenyAuthRequest(r) ==
    /\ req[r] = "pending"
    /\ req' = [req EXCEPT ![r] = "refused"]
    /\ Excuse(r)
    /\ UNCHANGED <<inviteVars, of, handle, cid, by, cleanup, agentVars,
                   procVars, burned, back, disturbed>>

Crash == /\ pc' = [p \in Process |-> "idle"]
         /\ on' = [p \in Process |-> None]
         /\ tgt' = [p \in Process |-> None]
         /\ cleanup' = {} /\ stale' = {}
         /\ burned' = burned \cup {i \in Invite : invite[i] = "claimed"}
         /\ excused' = excused \cup {name[x] : x \in Undone}
                       \cup {handle[on[p]] :
                              p \in {q \in Process : pc[q] \in Approving}}
         /\ ident' = Restored /\ undo' = NothingOpen
         /\ disturbed' = disturbed \cup Undone
         /\ UNCHANGED <<kind, invite, over, req, of, handle, cid, by, name,
                        grants, back>>

----------------------------------------------------------------------------
Redeem(p) == \/ ReadInvite(p) \/ ClaimInvite(p)
             \/ \E r \in Request : CreateForInvite(p, r)
             \/ CreateFails(p) \/ MarkRedeemed(p) \/ MarkFails(p)
             \/ ApproveFailed(p)

Approve(p) == \/ LookUp(p) \/ Activate(p) \/ Commit(p) \/ Grant(p)
              \/ \E x \in Identity : Register(p, x)
              \/ HandleTaken(p) \/ Rollback(p) \/ DeleteRow(p)
              \/ Decide(p) \/ Raises(p)

Next == \/ \E i \in Invite : \/ ReadExpired(i) \/ WriteExpired(i)
                             \/ RevokeInvite(i)
        \/ \E p \in Redeemer : Redeem(p)
        \/ \E p \in Process : Approve(p)
        \/ \E r \in Request : \/ RefuseFailed(r) \/ DenyAuthRequest(r)
                              \/ \E h \in Claims : CreateAuthRequest(r, h)
                              \/ \E a \in Admin : ApproveAuthRequest(a, r)
        \/ \E x \in Identity, s \in {t[2] : t \in Lifecycle} : SetStatus(x, s)
        \/ Crash

Spec == Init /\ [][Next]_vars

----------------------------------------------------------------------------
(* Properties *)

TypeOK ==
    /\ kind \in [Invite -> Kinds]
    /\ invite \in [Invite -> {"pending", "claimed", "redeemed", "revoked",
                              "expired"}]
    /\ req \in [Request -> {"absent", "pending", "accepted", "refused"}]
    /\ ident \in [Identity -> {"absent", "pending", "active", "suspended",
                               "revoked", "rejected"}]
    /\ grants \subseteq Identity \X Request
    /\ undo \in [Identity -> {None, "pending", "suspended", "rejected"}]
    /\ Undone # {} => Dangling
    /\ \A p \in Process :
          pc[p] \in Approving \cup {"failed"} => on[p] \in Request
    /\ \A r \in Request : cid[r] \in Identity <=> req[r] = "accepted"
    /\ cleanup \subseteq Request /\ stale \subseteq over

\* Two agents are never active under one handle, the address others use for
\* them, whatever approvals, redeems and reactivations race.
HandleUnique == \A h \in Handle : Cardinality(Active(h)) <= 1

\* A request that reads "accepted" comes with the grants of this request and
\* with an identity that has been active: a poll that sees the decision can
\* use the token at once.  Two things only come between: an admin who moves
\* the row while an approval is about to activate it, and the rollback of
\* another approval on the shared connection.
AcceptedIsUsable ==
    \A r \in Request : req[r] = "accepted" =>
        /\ <<cid[r], r>> \in grants
        /\ \/ ident[cid[r]] \in {"active", "suspended", "revoked"}
           \/ cid[r] \in disturbed

\* Of all that redeem an invite, at once or again after a failed approval, an
\* expiry or a crash, one gets its request accepted.  A request whose redeem
\* failed after all, so that the invite is on offer again, is accepted by an
\* admin only, who approved it before it was refused: with that one an
\* invite admits two agents.
InviteSingleUse ==
    /\ \A i \in Invite :
          Cardinality({r \in Request \ back :
                          of[r] = i /\ req[r] = "accepted"}) <= 1
    /\ \A r \in back : by[r] # "invite"

\* "a failed approve does not burn the invite": an invite is claimed only
\* while a redeemer is at work on it; crashes and failing writes aside.
ClaimIsTemporary ==
    \A i \in Invite \ burned :
        invite[i] = "claimed" => \E p \in Redeemer :
            Link[p] = i /\ pc[p] \notin {"idle", "read"}

\* Approvals that compete for a request or for a handle leave no identity
\* behind that belongs to no accepted request.
NoOrphanIdentity ==
    \A x \in Identity \ DOMAIN Agents :
        ident[x] \in {"pending", "active"} /\ name[x] \notin excused =>
            \/ \E r \in Request : cid[r] = x
            \/ \E p \in Process : tgt[p] = x /\ pc[p] \in Approving
=============================================================================
