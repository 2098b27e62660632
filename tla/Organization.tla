---------------------------- MODULE Organization ----------------------------
(***************************************************************************)
(* One organization: its members, the invitations by which they join, and  *)
(* the AI credits of its plan (use_case.rs and repository.rs of            *)
(* features/organization).  Requests run concurrently, each statement      *)
(* being one step; only accept_invitation writes in a transaction of more  *)
(* than one statement.  A request that is refused where it starts changes  *)
(* nothing and is not a step.                                              *)
(***************************************************************************)
EXTENDS Naturals, FiniteSets

CONSTANTS Users,
          Founder,       \* the user who creates the organization
          Invitations,   \* bound: invitations ever created
          Requests,      \* requests served at the same time
          None,          \* no user, no invitation
          MaxMembers,    \* max_members of the plan
          CreditLimit,   \* ai_credits_limit of the plan
          Amounts        \* amounts of credits consumed at once

ASSUME OrganizationAssumption ==
    /\ Founder \in Users
    /\ None \notin Users \cup Invitations
    /\ MaxMembers \in Nat
    /\ CreditLimit \in Nat
    /\ Amounts \subseteq Nat

VARIABLES exists,    \* the row of TBL_ORGANIZATIONS has been inserted
          members,   \* role in the user's active membership row, "none" without one
          invites,   \* state and role of each row of TBL_ORGANIZATION_INVITATIONS
          expired,   \* invitations past their expires_at
          mailed,    \* invitations whose EmailOrgInvitation, with the token, was committed
          credits,   \* ai_credits_used
          req        \* each request: where it stands, its arguments, what it has read

vars == <<exists, members, invites, expired, mailed, credits, req>>

Roles == {"owner", "admin", "member"}

Places == {"idle", "addOwner", "loadOrg", "saveOrg", "spend", "usage", "invite", "inviter",
           "commit", "revoke", "acceptCheck", "accept", "updateTarget", "updateWrite",
           "removeTarget", "removeWrite"}

Idle == [at |-> "idle", by |-> None, target |-> None, role |-> "none", as |-> "none",
         invite |-> None, credits |-> 0]

Init ==
    /\ exists = FALSE
    /\ members = [u \in Users |-> "none"]
    /\ invites = [i \in Invitations |-> [state |-> "absent", role |-> "none"]]
    /\ expired = {}
    /\ mailed = {}
    /\ credits = 0
    /\ req = [r \in Requests |-> Idle]
-----------------------------------------------------------------------------
Arrive(r, request) ==
    /\ req[r] = Idle
    /\ req' = [req EXCEPT ![r] = request]

At(r, place) == req[r].at = place

Goto(r, place) == req' = [req EXCEPT ![r].at = place]

End(r) == req' = [req EXCEPT ![r] = Idle]

(* A statement fails or the client goes away; an open transaction rolls    *)
(* back.                                                                   *)
Fail(r) ==
    /\ req[r].at # "idle"
    /\ End(r)
    /\ UNCHANGED <<exists, members, invites, expired, mailed, credits>>

CanManage(role) == role \in {"owner", "admin"}

Members == {u \in Users : members[u] # "none"}

Owners == {u \in Users : members[u] = "owner"}
-----------------------------------------------------------------------------
(* create, the settings and the credits.                                   *)

Create(r) ==
    /\ ~exists
    /\ exists' = TRUE
    /\ Arrive(r, [Idle EXCEPT !.at = "addOwner", !.by = Founder])
    /\ UNCHANGED <<members, invites, expired, mailed, credits>>

(* "Creator becomes owner"                                                 *)
AddOwner(r) ==
    /\ At(r, "addOwner")
    /\ members' = [members EXCEPT ![req[r].by] = "owner"]
    /\ End(r)
    /\ UNCHANGED <<exists, invites, expired, mailed, credits>>

Update(r, u) ==
    /\ CanManage(members[u])
    /\ Arrive(r, [Idle EXCEPT !.at = "loadOrg"])
    /\ UNCHANGED <<exists, members, invites, expired, mailed, credits>>

LoadOrg(r) ==
    /\ At(r, "loadOrg")
    /\ req' = [req EXCEPT ![r].at = "saveOrg", ![r].credits = credits]
    /\ UNCHANGED <<exists, members, invites, expired, mailed, credits>>

(* The UPDATE writes every column back as it was read, the credits too.    *)
SaveOrg(r) ==
    /\ At(r, "saveOrg")
    /\ credits' = req[r].credits
    /\ End(r)
    /\ UNCHANGED <<exists, members, invites, expired, mailed>>

ConsumeCredits(r, amount) ==
    /\ exists
    /\ credits + amount <= CreditLimit
    /\ Arrive(r, [Idle EXCEPT !.at = "spend", !.credits = amount])
    /\ UNCHANGED <<exists, members, invites, expired, mailed, credits>>

SpendUnguarded(r) ==       \* a wrong variant: the check of consume_ai_credits is trusted
    /\ At(r, "spend")
    /\ credits' = credits + req[r].credits
    /\ End(r)
    /\ UNCHANGED <<exists, members, invites, expired, mailed>>

(* increment_ai_credits looks at the limit again in the UPDATE.            *)
Spend(r) ==
    /\ At(r, "spend")
    /\ credits' = IF credits + req[r].credits <= CreditLimit THEN credits + req[r].credits
                                                             ELSE credits
    /\ End(r)
    /\ UNCHANGED <<exists, members, invites, expired, mailed>>
-----------------------------------------------------------------------------
(* invite_member and revoke_invitation.                                    *)

Invite(r, u, role) ==
    /\ CanManage(members[u])
    /\ role # "owner"
    /\ role = "admin" => members[u] = "owner"
    /\ Arrive(r, [Idle EXCEPT !.at = "usage", !.by = u, !.role = role])
    /\ UNCHANGED <<exists, members, invites, expired, mailed, credits>>

(* "Check plan limit"                                                      *)
CheckLimit(r) ==
    /\ At(r, "usage")
    /\ IF Cardinality(Members) < MaxMembers THEN Goto(r, "invite") ELSE End(r)
    /\ UNCHANGED <<exists, members, invites, expired, mailed, credits>>

(* create_invitation goes through the pool, not the transaction begun just *)
(* before it.                                                              *)
CreateInvitation(r) ==
    /\ At(r, "invite")
    /\ \E i \in Invitations :
          /\ invites[i].state = "absent"
          /\ invites' = [invites EXCEPT ![i] = [state |-> "pending", role |-> req[r].role]]
          /\ req' = [req EXCEPT ![r].at = "inviter", ![r].invite = i, ![r].role = "none"]
    /\ UNCHANGED <<exists, members, expired, mailed, credits>>

(* find_member of the requester, who may have left.                        *)
LoadInviter(r) ==
    /\ At(r, "inviter")
    /\ IF req[r].by \in Members
       THEN req' = [req EXCEPT ![r].at = "commit", ![r].by = None]
       ELSE End(r)
    /\ UNCHANGED <<exists, members, invites, expired, mailed, credits>>

(* publish_in_tx and commit: the event carries the token, which is shown   *)
(* nowhere else.                                                           *)
Commit(r) ==
    /\ At(r, "commit")
    /\ mailed' = mailed \cup {req[r].invite}
    /\ End(r)
    /\ UNCHANGED <<exists, members, invites, expired, credits>>

Revoke(r, u, i) ==
    /\ CanManage(members[u])
    /\ invites[i].state # "absent"
    /\ Arrive(r, [Idle EXCEPT !.at = "revoke", !.invite = i])
    /\ UNCHANGED <<exists, members, invites, expired, mailed, credits>>

RevokeDeletes(r) ==        \* a wrong variant: the row is deleted and not marked
    /\ At(r, "revoke")
    /\ invites' = [invites EXCEPT ![req[r].invite] = [state |-> "absent", role |-> "none"]]
    /\ End(r)
    /\ UNCHANGED <<exists, members, expired, mailed, credits>>

RevokeWrite(r) ==
    /\ At(r, "revoke")
    /\ invites' = [invites EXCEPT ![req[r].invite].state = IF @ = "pending" THEN "revoked" ELSE @]
    /\ End(r)
    /\ UNCHANGED <<exists, members, expired, mailed, credits>>

(* The seven days of an invitation are over.                               *)
Expire(i) ==
    /\ invites[i].state # "absent"
    /\ expired' = expired \cup {i}
    /\ UNCHANGED <<exists, members, invites, mailed, credits, req>>
-----------------------------------------------------------------------------
(* accept_invitation.                                                      *)

Acceptable(i) == invites[i].state = "pending" /\ i \notin expired

(* Whoever has the token may accept; the invited address is not compared.  *)
Accept(r, u, i) ==
    /\ i \in mailed
    /\ Acceptable(i)
    /\ Arrive(r, [Idle EXCEPT !.at = "acceptCheck", !.by = u, !.invite = i])
    /\ UNCHANGED <<exists, members, invites, expired, mailed, credits>>

AcceptCheck(r) ==
    /\ At(r, "acceptCheck")
    /\ IF req[r].by \in Members THEN End(r) ELSE Goto(r, "accept")
    /\ UNCHANGED <<exists, members, invites, expired, mailed, credits>>

Join(u, i) ==
    /\ members' = [members EXCEPT ![u] = invites[i].role]
    /\ invites' = [invites EXCEPT ![i].state = "accepted"]

AcceptStale(r) ==          \* a wrong variant: the transaction trusts the invitation read before it
    /\ At(r, "accept")
    /\ IF req[r].by \notin Members THEN Join(req[r].by, req[r].invite)
                                   ELSE UNCHANGED <<members, invites>>
    /\ End(r)
    /\ UNCHANGED <<exists, expired, mailed, credits>>

(* The transaction of the repository's accept_invitation: SELECT ... FOR   *)
(* UPDATE of the invitation, still acceptable; INSERT of the member, which *)
(* the unique index refuses for a user who is one; UPDATE of the           *)
(* invitation.                                                             *)
AcceptWrite(r) ==
    /\ At(r, "accept")
    /\ IF Acceptable(req[r].invite) /\ req[r].by \notin Members
       THEN Join(req[r].by, req[r].invite)
       ELSE UNCHANGED <<members, invites>>
    /\ End(r)
    /\ UNCHANGED <<exists, expired, mailed, credits>>
-----------------------------------------------------------------------------
(* update_member_role and remove_member.                                   *)

UpdateRole(r, u, v, role) ==
    /\ CanManage(members[u])
    /\ role # "owner"
    /\ Arrive(r, [Idle EXCEPT !.at = "updateTarget", !.by = u, !.target = v, !.role = role,
                              !.as = members[u]])
    /\ UNCHANGED <<exists, members, invites, expired, mailed, credits>>

SubjectToAll(role, as) == role # "none"      \* a wrong variant: of the target it is only asked that it is there

(* Whether a role may be changed or taken away by a requester of role as.  *)
Subject(role, as) == role = "member" \/ (role = "admin" /\ as = "owner")

UpdateTarget(r) ==
    /\ At(r, "updateTarget")
    /\ IF Subject(members[req[r].target], req[r].as) THEN Goto(r, "updateWrite") ELSE End(r)
    /\ UNCHANGED <<exists, members, invites, expired, mailed, credits>>

UpdateWrite(r) ==
    /\ At(r, "updateWrite")
    /\ members' = IF req[r].target \in Members
                  THEN [members EXCEPT ![req[r].target] = req[r].role] ELSE members
    /\ End(r)
    /\ UNCHANGED <<exists, invites, expired, mailed, credits>>

Remove(r, u, v) ==
    /\ u \in Members
    /\ u = v \/ CanManage(members[u])
    /\ Arrive(r, [Idle EXCEPT !.at = "removeTarget", !.by = u, !.target = v, !.as = members[u]])
    /\ UNCHANGED <<exists, members, invites, expired, mailed, credits>>

RemoveTarget(r) ==
    /\ At(r, "removeTarget")
    /\ IF \/ Subject(members[req[r].target], req[r].as)
          \/ members[req[r].target] = "admin" /\ req[r].by = req[r].target
       THEN Goto(r, "removeWrite") ELSE End(r)
    /\ UNCHANGED <<exists, members, invites, expired, mailed, credits>>

(* Unlike that of the workspaces, this UPDATE does not spare owners.       *)
RemoveWrite(r) ==
    /\ At(r, "removeWrite")
    /\ members' = [members EXCEPT ![req[r].target] = "none"]
    /\ End(r)
    /\ UNCHANGED <<exists, invites, expired, mailed, credits>>
-----------------------------------------------------------------------------
Step(r) == \/ AddOwner(r) \/ LoadOrg(r) \/ SaveOrg(r) \/ Spend(r)
           \/ CheckLimit(r) \/ CreateInvitation(r) \/ LoadInviter(r) \/ Commit(r)
           \/ RevokeWrite(r)
           \/ AcceptCheck(r) \/ AcceptWrite(r)
           \/ UpdateTarget(r) \/ UpdateWrite(r) \/ RemoveTarget(r) \/ RemoveWrite(r)

Next ==
    \/ \E r \in Requests :
          \/ Create(r)
          \/ \E amount \in Amounts : ConsumeCredits(r, amount)
          \/ \E u \in Users :
                \/ Update(r, u)
                \/ \E role \in Roles : \/ Invite(r, u, role)
                                       \/ \E v \in Users : UpdateRole(r, u, v, role)
                \/ \E v \in Users : Remove(r, u, v)
                \/ \E i \in Invitations : Revoke(r, u, i) \/ Accept(r, u, i)
          \/ Step(r)
          \/ Fail(r)
    \/ \E i \in Invitations : Expire(i)

Spec == Init /\ [][Next]_vars
-----------------------------------------------------------------------------
TypeOK ==
    /\ exists \in BOOLEAN
    /\ members \in [Users -> Roles \cup {"none"}]
    /\ invites \in [Invitations -> [state : {"absent", "pending", "accepted", "revoked"},
                                    role : Roles \cup {"none"}]]
    /\ expired \subseteq Invitations
    /\ mailed \subseteq {i \in Invitations : invites[i].state # "absent"}
    /\ credits \in Nat
    /\ req \in [Requests -> [at : Places, by : Users \cup {None}, target : Users \cup {None},
                             role : Roles \cup {"none"}, as : Roles \cup {"none"},
                             invite : Invitations \cup {None}, credits : Nat]]

(* An organization that has got its owner keeps that one and gets no       *)
(* other, although the statements that change or remove a member do not    *)
(* look at the role they overwrite.                                        *)
OwnershipNeverMoves ==
    [][Owners # {} => Owners' = Owners]_vars

(* Nobody joins but the founder and those who accept an invitation that is *)
(* pending and not expired at that very moment, with its role.             *)
JoinsByInvitation ==
    [][\A u \in Users \ Members :
          u \in Members' => \/ u = Founder /\ members'[u] = "owner"
                            \/ \E i \in mailed : /\ Acceptable(i)
                                                 /\ invites'[i].state = "accepted"
                                                 /\ members'[u] = invites[i].role]_vars

(* "AI credit limit reached": overlapping requests that all find credit    *)
(* left do not spend beyond the limit together.                            *)
CreditsWithinLimit == credits <= CreditLimit

(* "Admins cannot change other admins": while another user is an admin,    *)
(* only an owner's update_member_role changes that user's role.            *)
AdminsAnswerToOwner ==
    [][\A u \in Users :
          members[u] = "admin" /\ members'[u] = "member" =>
              \E r \in Requests : /\ At(r, "updateWrite") /\ req'[r] = Idle
                                  /\ req[r].target = u
                                  /\ req[r].by = u \/ req[r].as = "owner"]_vars
=============================================================================
