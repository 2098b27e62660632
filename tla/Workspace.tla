----------------------------- MODULE Workspace ------------------------------
(***************************************************************************)
(* Membership of one workspace: create, delete, invite_member,             *)
(* update_member_role and remove_member of WorkspaceUseCases               *)
(* (features/workspace/use_case.rs) over TBL_WORKSPACE_MEMBERS.            *)
(*                                                                         *)
(* Requests run concurrently and every statement takes a connection of the *)
(* process's pool for its duration; invite_member keeps one more from      *)
(* begin() to commit() while its reads and its INSERT go through the pool. *)
(* A request that is refused where it starts changes nothing and is not a  *)
(* step.                                                                   *)
(***************************************************************************)
EXTENDS Naturals, Sequences, FiniteSets

CONSTANTS Users,       \* the users of the organization
          Founder,     \* the one of them who creates the workspace
          Elsewhere,   \* those of them who also belong to another workspace
          Requests,    \* requests served at the same time
          None,        \* no user
          PoolSize,    \* max_connections of the pool
          MaxRows      \* bound: active membership rows of each user

ASSUME WorkspaceAssumption ==
    /\ Founder \in Users
    /\ Elsewhere \subseteq Users
    /\ None \notin Users
    /\ IsFiniteSet(Requests)
    /\ PoolSize \in Nat \ {0}
    /\ MaxRows \in [Users -> Nat \ {0}]

VARIABLES ws,       \* the row of TBL_WORKSPACES: "absent", "active" or "deleted"
          rows,     \* roles of each user's active membership rows; no index makes them unique
          req,      \* each request: where it stands, its arguments, the role it read
          mailed    \* history: users for whom EmailWorkspaceInvitation was committed

vars == <<ws, rows, req, mailed>>

Roles == {"owner", "admin", "member"}

Places == {"idle", "addOwner", "inviteCheck", "begin", "add", "inviter", "info", "commit",
           "updateTarget", "updateWrite", "removeTarget", "removeWrite", "deleteWrite"}

Idle == [at |-> "idle", by |-> None, target |-> None, role |-> "none", as |-> "none"]

Init ==
    /\ ws = "absent"
    /\ rows = [u \in Users |-> <<>>]
    /\ req = [r \in Requests |-> Idle]
    /\ mailed = {}
-----------------------------------------------------------------------------
(* The connection pool.                                                    *)

InTransaction == {r \in Requests : req[r].at \in {"add", "inviter", "info", "commit"}}
Free == PoolSize - Cardinality(InTransaction)

(* Places whose next statement needs a connection of the pool; commit has  *)
(* the transaction's own.                                                  *)
NeedsConnection == Places \ {"idle", "commit"}

Set(r, q) == req' = [req EXCEPT ![r] = q]

(* A request begins: its first statement is the role query of              *)
(* require_member (the INSERT, for create).                                *)
Arrive(r, place, u, v, role, as) ==
    /\ req[r] = Idle
    /\ Free > 0
    /\ Set(r, [at |-> place, by |-> u, target |-> v, role |-> role, as |-> as])

At(r, place) == req[r].at = place /\ Free > 0

Goto(r, place) == Set(r, [req[r] EXCEPT !.at = place, !.as = "none"])

(* ... where the requester and the role asked for are not looked at again. *)
Forward(r, place) ==
    Set(r, [req[r] EXCEPT !.at = place, !.as = "none", !.by = None, !.role = "none"])

End(r) == Set(r, Idle)

(* acquire_timeout: the request gets PoolTimedOut and ends, giving back    *)
(* the connection its transaction holds.                                   *)
WaitsForever(r) ==        \* a wrong variant: no acquire timeout
    FALSE /\ UNCHANGED vars

AcquireTimesOut(r) ==
    /\ req[r].at \in NeedsConnection
    /\ Free = 0
    /\ End(r)
    /\ UNCHANGED <<ws, rows, mailed>>

(* A statement fails or the client goes away: the rest is not done, an     *)
(* open transaction rolls back.                                            *)
Fail(r) ==
    /\ req[r].at # "idle"
    /\ End(r)
    /\ UNCHANGED <<ws, rows, mailed>>
-----------------------------------------------------------------------------
(* get_member_role: one of the user's active rows, if there is any.        *)
RolesOf(u) == {rows[u][i] : i \in DOMAIN rows[u]}

CanManage(role) == role \in {"owner", "admin"}

(* create: the workspace, then its creator as owner.                       *)
Create(r) ==
    /\ ws = "absent"
    /\ ws' = "active"
    /\ Arrive(r, "addOwner", Founder, Founder, "owner", "none")
    /\ UNCHANGED <<rows, mailed>>

AddMember(u, role) == rows' = [rows EXCEPT ![u] = Append(@, role)]

AddOwner(r) ==
    /\ At(r, "addOwner")
    /\ AddMember(req[r].by, "owner")
    /\ End(r)
    /\ UNCHANGED <<ws, mailed>>

DeleteByCreator(r, u) ==      \* a wrong variant: created_by is asked, not the membership
    /\ u = Founder /\ ws # "absent"
    /\ Arrive(r, "deleteWrite", u, None, "none", "none")
    /\ UNCHANGED <<ws, rows, mailed>>

(* delete: the owner's membership outlives the workspace, so the owner may *)
(* ask again; the UPDATE then matches no row.                              *)
Delete(r, u) ==
    /\ "owner" \in RolesOf(u)
    /\ Arrive(r, "deleteWrite", u, None, "none", "none")
    /\ UNCHANGED <<ws, rows, mailed>>

DeleteWrite(r) ==
    /\ At(r, "deleteWrite")
    /\ ws' = IF ws = "active" THEN "deleted" ELSE ws
    /\ End(r)
    /\ UNCHANGED <<rows, mailed>>
-----------------------------------------------------------------------------
(* invite_member.                                                          *)

(* The invitations of a user under way.                                    *)
Pending(u) == {r \in Requests : req[r].target = u /\ req[r].at \in {"inviteCheck", "begin", "add"}}

(* Bound: rows a user has or may get from the invitations under way.       *)
RowsLeft(u) ==
    Len(rows[u]) + Cardinality(Pending(u)) < MaxRows[u]

(* Owners are never invited, admins only by an owner.                      *)
Invite(r, u, v, role) ==
    /\ RowsLeft(v)
    /\ role # "owner"
    /\ \E as \in RolesOf(u) : CanManage(as) /\ (role = "admin" => as = "owner")
    /\ Arrive(r, "inviteCheck", u, v, role, "none")
    /\ UNCHANGED <<ws, rows, mailed>>

(* "Check not already a member"                                            *)
InviteCheck(r) ==
    /\ At(r, "inviteCheck")
    /\ IF rows[req[r].target] = <<>> THEN Goto(r, "begin") ELSE End(r)
    /\ UNCHANGED <<ws, rows, mailed>>

Begin(r) ==
    /\ At(r, "begin")
    /\ Goto(r, "add")
    /\ UNCHANGED <<ws, rows, mailed>>

InviteAddRetried(r) ==       \* a wrong variant: the INSERT is sent again when its answer is lost
    /\ At(r, "add")
    /\ LET t == req[r].target IN rows' = [rows EXCEPT ![t] = @ \o <<req[r].role, req[r].role>>]
    /\ Goto(r, "inviter")
    /\ UNCHANGED <<ws, mailed>>

(* add_member goes through the pool: the row is there at once, whatever    *)
(* becomes of the transaction.                                             *)
InviteAdd(r) ==
    /\ At(r, "add")
    /\ AddMember(req[r].target, req[r].role)
    /\ Goto(r, "inviter")
    /\ UNCHANGED <<ws, mailed>>

(* get_member(requester_id) finds the requester in any workspace; unwrap() *)
(* panics if none is left.                                                 *)
LoadInviter(r) ==
    /\ At(r, "inviter")
    /\ IF rows[req[r].by] # <<>> \/ req[r].by \in Elsewhere THEN Forward(r, "info") ELSE End(r)
    /\ UNCHANGED <<ws, rows, mailed>>

LoadWorkspace(r) ==
    /\ At(r, "info")
    /\ IF ws = "active" THEN Goto(r, "commit") ELSE End(r)
    /\ UNCHANGED <<ws, rows, mailed>>

(* publish_in_tx and commit.                                               *)
Commit(r) ==
    /\ req[r].at = "commit"
    /\ mailed' = mailed \cup {req[r].target}
    /\ End(r)
    /\ UNCHANGED <<ws, rows>>
-----------------------------------------------------------------------------
(* update_member_role.                                                     *)

UpdateRole(r, u, v, role) ==
    /\ role # "owner"
    /\ \E as \in RolesOf(u) : CanManage(as) /\ Arrive(r, "updateTarget", None, v, role, as)
    /\ UNCHANGED <<ws, rows, mailed>>

UpdateTargetAnyRole(r) ==    \* a wrong variant: the owner may be demoted
    /\ At(r, "updateTarget")
    /\ \/ RolesOf(req[r].target) # {} /\ Goto(r, "updateWrite")
       \/ RolesOf(req[r].target) = {} /\ End(r)
    /\ UNCHANGED <<ws, rows, mailed>>

(* The role is found and may be changed, or the request ends here.         *)
UpdateTarget(r) ==
    /\ At(r, "updateTarget")
    /\ \/ \E q \in RolesOf(req[r].target) :
             IF \/ q = "owner"
                \/ q = "admin" /\ req[r].as # "owner"
             THEN End(r) ELSE Goto(r, "updateWrite")
       \/ RolesOf(req[r].target) = {} /\ End(r)
    /\ UNCHANGED <<ws, rows, mailed>>

(* The UPDATE sets every active row of the user, and none is not found.    *)
UpdateWrite(r) ==
    /\ At(r, "updateWrite")
    /\ rows' = [rows EXCEPT ![req[r].target] = [i \in DOMAIN @ |-> req[r].role]]
    /\ End(r)
    /\ UNCHANGED <<ws, mailed>>

(* remove_member: managers remove others, anyone themselves.               *)
Remove(r, u, v) ==
    /\ \E as \in RolesOf(u) : /\ u = v \/ CanManage(as)
                              /\ Arrive(r, "removeTarget", u, v, "none", as)
    /\ UNCHANGED <<ws, rows, mailed>>

RemoveTarget(r) ==
    /\ At(r, "removeTarget")
    /\ \/ \E q \in RolesOf(req[r].target) :
             IF \/ q = "owner"
                \/ q = "admin" /\ req[r].as # "owner" /\ req[r].by # req[r].target
             THEN End(r) ELSE Forward(r, "removeWrite")
       \/ RolesOf(req[r].target) = {} /\ End(r)
    /\ UNCHANGED <<ws, rows, mailed>>

(* The UPDATE takes out every active row of the user but an owner's.       *)
RemoveWrite(r) ==
    /\ At(r, "removeWrite")
    /\ LET t == req[r].target
           kept == {i \in DOMAIN rows[t] : rows[t][i] = "owner"}
       IN  rows' = [rows EXCEPT ![t] = [i \in 1..Cardinality(kept) |-> "owner"]]
    /\ End(r)
    /\ UNCHANGED <<ws, mailed>>
-----------------------------------------------------------------------------
Step(r) == \/ AddOwner(r) \/ DeleteWrite(r)
           \/ InviteCheck(r) \/ Begin(r) \/ InviteAdd(r) \/ LoadInviter(r)
           \/ LoadWorkspace(r) \/ Commit(r)
           \/ UpdateTarget(r) \/ UpdateWrite(r)
           \/ RemoveTarget(r) \/ RemoveWrite(r)

Next == \E r \in Requests :
            \/ Create(r)
            \/ \E u \in Users : \/ Delete(r, u)
                                \/ \E v \in Users : Remove(r, u, v)
                                \/ \E v \in Users, role \in Roles :
                                      Invite(r, u, v, role) \/ UpdateRole(r, u, v, role)
            \/ Step(r)
            \/ AcquireTimesOut(r)
            \/ Fail(r)

Spec == Init /\ [][Next]_vars

(* The pool serves waiting requests in the order they came (sqlx's pool is *)
(* fair), so one that is free time and again reaches every request; the    *)
(* timer of acquire_timeout runs.                                          *)
Fairness == \A r \in Requests : SF_vars(Step(r)) /\ WF_vars(AcquireTimesOut(r))

FairSpec == Spec /\ Fairness
-----------------------------------------------------------------------------
TypeOK ==
    /\ ws \in {"absent", "active", "deleted"}
    /\ rows \in [Users -> Seq(Roles)]
    /\ \A u \in Users : Len(rows[u]) <= MaxRows[u]
    /\ req \in [Requests -> [at : Places, by : Users \cup {None}, target : Users \cup {None},
                             role : Roles \cup {"none"}, as : Roles \cup {"none"}]]
    /\ Free \in 0..PoolSize
    /\ mailed \subseteq Users

Owners == {u \in Users : "owner" \in RolesOf(u)}

(* "Cannot remove the owner", "Cannot promote to owner via this endpoint": *)
(* whatever role changes and removals overlap, a workspace that has got    *)
(* its owner keeps that one and gets no other.                             *)
OwnershipNeverMoves == [][Owners # {} => Owners' = Owners]_vars

(* A creation that ends between its two statements leaves a workspace that *)
(* has no member and gets none: nobody can invite, delete or repair it,    *)
(* its creator as little as anyone else.                                   *)
Orphaned == /\ ws = "active"
            /\ \A u \in Users : rows[u] = <<>>
            /\ \A r \in Requests : req[r].at = "idle"

OrphanStays == [][Orphaned => Orphaned']_vars

(* Requests do not wait for each other forever: invitations that hold all  *)
(* connections of the pool while each wants one more come to an end.       *)
RequestsEnd == \A r \in Requests : req[r].at # "idle" ~> req[r].at = "idle"

(* "Check not already a member", and add_member's AlreadyMember for a      *)
(* unique violation: a user is a member of a workspace once.               *)
OneMembershipEach == \A u \in Users : Len(rows[u]) <= 1
=============================================================================
