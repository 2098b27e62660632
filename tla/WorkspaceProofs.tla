--------------------------- MODULE WorkspaceProofs ---------------------------
(***************************************************************************)
(* Proofs about one workspace's members, for any users, concurrent         *)
(* requests and size of the connection pool.                               *)
(***************************************************************************)
EXTENDS Workspace, FiniteSetTheorems, TLAPS

RequestType == [at : Places, by : Users \cup {None}, target : Users \cup {None},
                role : Roles \cup {"none"}, as : Roles \cup {"none"}]

Holding == {"add", "inviter", "info", "commit"}
Inviting == {"inviteCheck", "begin", "add"}
Founding == {"idle", "addOwner"}

(* What a request carries where it stands: nobody asks for an owner, and   *)
(* the founder is not the one whose membership is written.                 *)
RequestSound(q) ==
    /\ q \in RequestType
    /\ q.at = "addOwner" => q.by = Founder
    /\ q.at \notin Founding \cup {"deleteWrite"} => q.target \in Users
    /\ q.at \in {"inviteCheck", "begin", "add", "updateTarget", "updateWrite"} =>
          q.role \in {"admin", "member"}
    /\ q.at \in {"begin", "add", "updateWrite", "removeWrite"} => q.target # Founder

WorkspaceTypes ==
    /\ ws \in {"absent", "active", "deleted"}
    /\ rows \in [Users -> Seq(Roles)]
    /\ req \in [Requests -> RequestType]
    /\ \A r \in Requests : RequestSound(req[r])
    /\ mailed \subseteq Users

(* The founder is the owner, by one row, or has no row yet; then nobody    *)
(* has one and no request is past the creation, which is one request's.    *)
FounderOwns ==
    /\ rows[Founder] \in {<<>>, <<"owner">>}
    /\ \A u \in Users \ {Founder} : "owner" \notin RolesOf(u)
    /\ ws = "absent" => rows[Founder] = <<>> /\ \A r \in Requests : req[r].at = "idle"
    /\ rows[Founder] = <<>> => /\ \A u \in Users : rows[u] = <<>>
                               /\ \A r \in Requests : req[r].at \in Founding
    /\ \A r \in Requests : req[r].at = "addOwner" =>
          /\ rows[Founder] = <<>>
          /\ \A q \in Requests : req[q].at = "addOwner" => q = r

RowsBounded == \A u \in Users : Len(rows[u]) + Cardinality(Pending(u)) <= MaxRows[u]
PoolBounded == Cardinality(InTransaction) <= PoolSize

WorkspaceInv == WorkspaceTypes /\ FounderOwns /\ RowsBounded /\ PoolBounded
-----------------------------------------------------------------------------
LEMMA RolesAreRoles == WorkspaceTypes => \A u \in Users : RolesOf(u) \subseteq Roles
<1> SUFFICES ASSUME WorkspaceTypes, NEW u \in Users, NEW i \in DOMAIN rows[u]
             PROVE  rows[u][i] \in Roles
    BY DEF RolesOf
<1>1. rows[u] \in Seq(Roles)
    BY DEF WorkspaceTypes
<1>2. QED
    BY <1>1

LEMMA IdleIsSound == RequestSound(Idle) /\ Idle.at = "idle"
    BY DEF RequestSound, Idle, RequestType, Places, Founding

(* The requests that hold a connection and those that invite a user are    *)
(* finitely many, in the present and in the next state.                    *)
LEMMA FinitelyMany ==
    /\ IsFiniteSet(InTransaction) /\ IsFiniteSet(InTransaction')
    /\ \A u : IsFiniteSet(Pending(u)) /\ IsFiniteSet(Pending(u)')
    BY WorkspaceAssumption, FS_Subset DEF InTransaction, Pending

(* One request moves on: the others keep what they have, and unless it     *)
(* takes a connection or invites somebody, no more requests do.            *)
LEMMA RequestMoves ==
    ASSUME WorkspaceTypes, NEW r \in Requests, NEW q, RequestSound(q),
           req' = [req EXCEPT ![r] = q]
    PROVE  /\ req' \in [Requests -> RequestType]
           /\ \A x \in Requests : RequestSound(req[x])'
           /\ req'[r] = q /\ \A x \in Requests \ {r} : req'[x] = req[x]
           /\ Pending(q.target)' \subseteq Pending(q.target) \cup {r}
           /\ \A u : q.at \notin Inviting \/ q.target # u \/ r \in Pending(u) =>
                        Pending(u)' \subseteq Pending(u)
           /\ InTransaction' \subseteq InTransaction \cup {r}
           /\ q.at \notin Holding \/ r \in InTransaction => InTransaction' \subseteq InTransaction
<1>1. req \in [Requests -> RequestType] /\ \A x \in Requests : RequestSound(req[x])
    BY DEF WorkspaceTypes
<1>2. q \in RequestType
    BY DEF RequestSound
<1>3. req' \in [Requests -> RequestType]
    BY <1>1, <1>2
<1>4. req'[r] = q /\ \A x \in Requests \ {r} : req'[x] = req[x]
    BY <1>1
<1>5. \A x \in Requests : RequestSound(req'[x])
    BY <1>1, <1>4
<1>6. \A x \in Requests : RequestSound(req[x])'
    BY <1>5 DEF RequestSound
<1>7. Pending(q.target)' \subseteq Pending(q.target) \cup {r}
    BY <1>4 DEF Pending
<1>8. ASSUME NEW u, q.at \notin Inviting \/ q.target # u \/ r \in Pending(u)
      PROVE  Pending(u)' \subseteq Pending(u)
    BY <1>4, <1>8 DEF Pending, Inviting
<1>9. InTransaction' \subseteq InTransaction \cup {r}
    BY <1>4 DEF InTransaction
<1>10. q.at \notin Holding \/ r \in InTransaction => InTransaction' \subseteq InTransaction
    BY <1>4 DEF InTransaction, Holding
<1>11. QED
    BY <1>3, <1>4, <1>6, <1>7, <1>8, <1>9, <1>10

(* So the bounds stay, as long as no row is added.                         *)
LEMMA NoMoreWaiting ==
    ASSUME WorkspaceTypes, PoolBounded, NEW r \in Requests, NEW q, RequestSound(q),
           req' = [req EXCEPT ![r] = q],
           q.at \notin Holding \/ r \in InTransaction
    PROVE  PoolBounded'
<1>1. InTransaction' \subseteq InTransaction
    BY RequestMoves
<1>2. Cardinality(InTransaction') <= Cardinality(InTransaction)
    BY <1>1, FinitelyMany, FS_Subset
<1>3. Cardinality(InTransaction) \in Nat /\ Cardinality(InTransaction') \in Nat
    BY FinitelyMany, FS_CardinalityType
<1>4. Cardinality(InTransaction') <= PoolSize
    BY <1>2, <1>3, WorkspaceAssumption DEF PoolBounded
<1>5. QED
    BY <1>4 DEF PoolBounded

LEMMA OneMore ==
    ASSUME NEW S, IsFiniteSet(S), NEW x, NEW T, T \subseteq S \cup {x}
    PROVE  /\ Cardinality(T) <= Cardinality(S) + 1
           /\ Cardinality(T) \in Nat /\ Cardinality(S) \in Nat
<1>1. /\ IsFiniteSet(S \cup {x})
      /\ Cardinality(S \cup {x}) = IF x \in S THEN Cardinality(S) ELSE Cardinality(S) + 1
    BY FS_AddElement
<1>2. /\ IsFiniteSet(T) /\ Cardinality(T) <= Cardinality(S \cup {x})
    BY <1>1, FS_Subset
<1>3. /\ Cardinality(S) \in Nat /\ Cardinality(T) \in Nat
    BY <1>2, FS_CardinalityType
<1>4. QED
    BY <1>1, <1>2, <1>3

LEMMA NoMoreInvited ==
    ASSUME WorkspaceTypes, NEW r \in Requests, NEW q, RequestSound(q),
           req' = [req EXCEPT ![r] = q], NEW u,
           q.at \notin Inviting \/ q.target # u \/ r \in Pending(u)
    PROVE  /\ Cardinality(Pending(u)') <= Cardinality(Pending(u))
           /\ Cardinality(Pending(u)') \in Nat /\ Cardinality(Pending(u)) \in Nat
<1>1. Pending(u)' \subseteq Pending(u)
    BY RequestMoves
<1>2. QED
    BY <1>1, FinitelyMany, FS_Subset, FS_CardinalityType

(* A step of one request that leaves the rows alone keeps the invariant.   *)
LEMMA RowsKept ==
    ASSUME WorkspaceInv, NEW r \in Requests, NEW q, RequestSound(q),
           req' = [req EXCEPT ![r] = q], rows' = rows,
           q.at \notin Founding => rows[Founder] # <<>>,
           q.at = "addOwner" => rows[Founder] = <<>> /\ \A x \in Requests : req[x].at = "idle",
           ws' = "absent" => ws = "absent" /\ q.at = "idle",
           ws' \in {"absent", "active", "deleted"}, mailed' \subseteq Users,
           PoolBounded', RowsBounded'
    PROVE  WorkspaceInv'
<1>1. WorkspaceTypes
    BY DEF WorkspaceInv
<1>2. /\ req' \in [Requests -> RequestType]
      /\ \A x \in Requests : RequestSound(req[x])'
      /\ req'[r] = q /\ \A x \in Requests \ {r} : req'[x] = req[x]
    BY <1>1, RequestMoves
<1>3. WorkspaceTypes'
    BY <1>1, <1>2 DEF WorkspaceTypes
<1>4. FounderOwns'
  <2>1. FounderOwns
    BY DEF WorkspaceInv
  <2>2. \A u : RolesOf(u)' = RolesOf(u)
    BY DEF RolesOf
  <2>3. /\ rows'[Founder] \in {<<>>, <<"owner">>}
        /\ \A u \in Users \ {Founder} : "owner" \notin RolesOf(u)'
    BY <2>1, <2>2 DEF FounderOwns
  <2>4. ws' = "absent" => rows'[Founder] = <<>> /\ \A x \in Requests : req'[x].at = "idle"
    BY <1>2, <2>1 DEF FounderOwns
  <2>5. rows'[Founder] = <<>> => /\ \A u \in Users : rows'[u] = <<>>
                                 /\ \A x \in Requests : req'[x].at \in Founding
    BY <1>2, <2>1 DEF FounderOwns
  <2>6. ASSUME NEW x \in Requests, req'[x].at = "addOwner"
        PROVE  /\ rows'[Founder] = <<>>
               /\ \A y \in Requests : req'[y].at = "addOwner" => y = x
    BY <1>2, <2>1, <2>6 DEF FounderOwns
  <2>7. QED
    BY <2>3, <2>4, <2>5, <2>6 DEF FounderOwns
<1>5. QED
    BY <1>3, <1>4 DEF WorkspaceInv

(* ... and one that neither takes a connection nor invites keeps the       *)
(* bounds of its own accord.                                               *)
LEMMA RequestOnly ==
    ASSUME WorkspaceInv, NEW r \in Requests, NEW q, RequestSound(q),
           req' = [req EXCEPT ![r] = q], rows' = rows,
           q.at \notin Founding => rows[Founder] # <<>>,
           q.at = "addOwner" => rows[Founder] = <<>> /\ \A x \in Requests : req[x].at = "idle",
           ws' = "absent" => ws = "absent" /\ q.at = "idle",
           ws' \in {"absent", "active", "deleted"}, mailed' \subseteq Users,
           q.at \notin Holding \/ r \in InTransaction,
           q.at \notin Inviting \/ r \in Pending(q.target)
    PROVE  WorkspaceInv'
<1>1. WorkspaceTypes /\ PoolBounded /\ RowsBounded
    BY DEF WorkspaceInv
<1>2. PoolBounded'
    BY <1>1, NoMoreWaiting
<1>3. RowsBounded'
  <2> SUFFICES ASSUME NEW u \in Users
               PROVE  Len(rows[u]) + Cardinality(Pending(u)') <= MaxRows[u]
    BY DEF RowsBounded
  <2>1. /\ Cardinality(Pending(u)') <= Cardinality(Pending(u))
        /\ Cardinality(Pending(u)') \in Nat /\ Cardinality(Pending(u)) \in Nat
    BY <1>1, NoMoreInvited
  <2>2. Len(rows[u]) \in Nat /\ MaxRows[u] \in Nat
    BY <1>1, WorkspaceAssumption DEF WorkspaceTypes
  <2>3. QED
    BY <1>1, <2>1, <2>2 DEF RowsBounded
<1>4. QED
    BY <1>2, <1>3, RowsKept

(* Whoever has a role, and a request past the creation, find the founder   *)
(* an owner, and the workspace is there.                                   *)
LEMMA FounderFirst ==
    ASSUME WorkspaceInv
    PROVE  /\ \A u \in Users : RolesOf(u) # {} => rows[Founder] # <<>>
           /\ \A r \in Requests : req[r].at \notin Founding => rows[Founder] # <<>>
           /\ \A r \in Requests : req[r].at # "idle" => ws # "absent"
           /\ rows[Founder] # <<>> => ws # "absent" /\ RolesOf(Founder) = {"owner"}
<1>1. FounderOwns /\ WorkspaceTypes
    BY DEF WorkspaceInv
<1>2. Founder \in Users
    BY WorkspaceAssumption
<1>3. \A u \in Users : RolesOf(u) # {} => rows[u] # <<>>
    BY DEF RolesOf
<1>4. rows[Founder] # <<>> => rows[Founder] = <<"owner">>
    BY <1>1 DEF FounderOwns
<1>5. rows[Founder] = <<"owner">> => RolesOf(Founder) = {"owner"}
    BY DEF RolesOf
<1>6. QED
    BY <1>1, <1>2, <1>3, <1>4, <1>5 DEF FounderOwns

(* The steps that leave the rows alone.                                    *)
LEMMA EndKeeps ==
    ASSUME WorkspaceInv, NEW r \in Requests, End(r), rows' = rows,
           req[r].at # "idle", ws' = ws \/ ws' = "deleted",
           mailed' \subseteq Users
    PROVE  WorkspaceInv'
<1>1. ws \in {"absent", "active", "deleted"} /\ ws # "absent"
    BY FounderFirst DEF WorkspaceInv, WorkspaceTypes
<1>2. Idle.at \notin Holding /\ Idle.at \notin Inviting
    BY DEF Idle, Holding, Inviting
<1>3. ws' # "absent" /\ ws' \in {"absent", "active", "deleted"}
    BY <1>1
<1>4. req' = [req EXCEPT ![r] = Idle] /\ Idle.at \in Founding /\ Idle.at # "addOwner"
    BY DEF End, Set, Idle, Founding
<1>5. QED
    BY <1>2, <1>3, <1>4, IdleIsSound, RequestOnly

(* A request that has gone past the creation goes on.                      *)
LEMMA MoveKeeps ==
    ASSUME WorkspaceInv, NEW r \in Requests, NEW q, RequestSound(q),
           req' = [req EXCEPT ![r] = q], rows' = rows, ws' = ws, mailed' = mailed,
           req[r].at \notin Founding, q.at \notin Founding,
           q.at \notin Holding \/ r \in InTransaction,
           q.at \notin Inviting \/ r \in Pending(q.target)
    PROVE  WorkspaceInv'
<1>1. ws \in {"absent", "active", "deleted"} /\ mailed \subseteq Users
    BY DEF WorkspaceInv, WorkspaceTypes
<1>2. rows[Founder] # <<>> /\ ws # "absent"
    BY FounderFirst
<1>3. q.at # "addOwner"
    BY DEF Founding
<1>4. QED
    BY <1>1, <1>2, <1>3, RequestOnly

(* A member's request begins.                                              *)
LEMMA ArrivalKeeps ==
    ASSUME WorkspaceInv, NEW r \in Requests, NEW q, RequestSound(q),
           Set(r, q), rows[Founder] # <<>>,
           q.at \notin Founding, q.at \notin Holding, q.at \notin Inviting,
           UNCHANGED <<ws, rows, mailed>>
    PROVE  WorkspaceInv'
<1>1. ws \in {"absent", "active", "deleted"} /\ mailed \subseteq Users /\ ws # "absent"
    BY FounderFirst DEF WorkspaceInv, WorkspaceTypes
<1>2. req' = [req EXCEPT ![r] = q] /\ q.at # "addOwner"
    BY DEF Set, Founding
<1>3. QED
    BY <1>1, <1>2, RequestOnly

LEMMA GotoIs ==
    ASSUME WorkspaceTypes, NEW r \in Requests, NEW place \in Places, Goto(r, place)
    PROVE  \E q \in RequestType :
              /\ req' = [req EXCEPT ![r] = q]
              /\ q.at = place /\ q.by = req[r].by /\ q.target = req[r].target /\ q.role = req[r].role
<1> DEFINE q == [req[r] EXCEPT !.at = place, !.as = "none"]
<1>1. req[r] \in RequestType
    BY DEF WorkspaceTypes
<1>2. q \in RequestType
    BY ONLY <1>1, place \in Places DEF RequestType
<1>3. q.at = place /\ q.by = req[r].by /\ q.target = req[r].target /\ q.role = req[r].role
    BY <1>1 DEF RequestType
<1>4. req' = [req EXCEPT ![r] = q]
    BY DEF Goto, Set
<1> HIDE DEF q
<1>5. QED
    BY <1>2, <1>3, <1>4

LEMMA ForwardIs ==
    ASSUME WorkspaceTypes, NEW r \in Requests, NEW place \in Places, Forward(r, place)
    PROVE  \E q \in RequestType :
              req' = [req EXCEPT ![r] = q] /\ q.at = place /\ q.target = req[r].target
<1> DEFINE q == [req[r] EXCEPT !.at = place, !.as = "none", !.by = None, !.role = "none"]
<1>1. req[r] \in RequestType
    BY DEF WorkspaceTypes
<1>2. q \in RequestType
    BY ONLY <1>1, place \in Places DEF RequestType
<1>3. q.at = place /\ q.target = req[r].target
    BY <1>1 DEF RequestType
<1>4. req' = [req EXCEPT ![r] = q]
    BY DEF Forward, Set
<1> HIDE DEF q
<1>5. QED
    BY <1>2, <1>3, <1>4

(* A request goes on to a place where it carries what it has.              *)
LEMMA GotoKeeps ==
    ASSUME WorkspaceInv, NEW r \in Requests, NEW place \in Places,
           Goto(r, place) \/ (Forward(r, place) /\ place \in {"info", "removeWrite"}),
           UNCHANGED <<ws, rows, mailed>>,
           req[r].at \notin Founding \cup {"deleteWrite"}, place \notin Founding,
           place \in {"inviteCheck", "begin", "add", "updateTarget", "updateWrite"} =>
              req[r].role \in {"admin", "member"},
           place \in {"begin", "add", "updateWrite", "removeWrite"} => req[r].target # Founder,
           place \in Holding => req[r].at \in Holding,
           place \in Inviting => req[r].at \in Inviting
    PROVE  WorkspaceInv'
<1>1. WorkspaceTypes /\ RequestSound(req[r])
    BY DEF WorkspaceInv, WorkspaceTypes
<1>2. PICK q \in RequestType :
         /\ req' = [req EXCEPT ![r] = q] /\ q.at = place /\ q.target = req[r].target
         /\ place \notin {"info", "removeWrite"} => q.role = req[r].role
    BY <1>1, GotoIs, ForwardIs
<1>3. RequestSound(q)
    BY <1>1, <1>2 DEF RequestSound, Founding
<1>4. place \in Holding => r \in InTransaction
    BY DEF InTransaction, Holding
<1>5. place \in Inviting => r \in Pending(q.target)
    BY <1>2 DEF Pending, Inviting
<1>6. req[r].at \notin Founding
    OBVIOUS
<1>7. QED
    BY <1>2, <1>3, <1>4, <1>5, <1>6, MoveKeeps

(* Invitations, which bring new rows, are bounded where they begin.        *)
LEMMA InviteKeeps ==
    ASSUME WorkspaceInv, NEW r \in Requests, NEW u \in Users, NEW v \in Users, NEW role \in Roles,
           Invite(r, u, v, role)
    PROVE  WorkspaceInv'
<1> DEFINE q == [at |-> "inviteCheck", by |-> u, target |-> v, role |-> role, as |-> "none"]
<1>1. req' = [req EXCEPT ![r] = q] /\ UNCHANGED <<ws, rows, mailed>> /\ RowsLeft(v)
    BY DEF Invite, Arrive, Set
<1>2. RolesOf(u) # {} /\ role \in {"admin", "member"}
    BY DEF Invite, Roles
<1>3. RequestSound(q)
    BY <1>2 DEF RequestSound, RequestType, Places, Founding, Roles
<1>4. q.at = "inviteCheck" /\ q.target = v
    OBVIOUS
<1> HIDE DEF q
<1>5. WorkspaceTypes /\ PoolBounded /\ RowsBounded
    BY DEF WorkspaceInv
<1>6. rows[Founder] # <<>> /\ ws # "absent"
    BY <1>2, FounderFirst
<1>7. PoolBounded'
    BY <1>1, <1>3, <1>4, <1>5, NoMoreWaiting DEF Holding
<1>8. RowsBounded'
  <2> SUFFICES ASSUME NEW w \in Users
               PROVE  Len(rows[w]) + Cardinality(Pending(w)') <= MaxRows[w]
    BY <1>1 DEF RowsBounded
  <2>1. Len(rows[w]) \in Nat /\ MaxRows[w] \in Nat
    BY <1>5, WorkspaceAssumption DEF WorkspaceTypes
  <2>2. CASE w # v
    <3>1. /\ Cardinality(Pending(w)') <= Cardinality(Pending(w))
          /\ Cardinality(Pending(w)') \in Nat /\ Cardinality(Pending(w)) \in Nat
      BY <1>1, <1>3, <1>4, <1>5, <2>2, NoMoreInvited
    <3>2. QED
      BY <1>5, <2>1, <3>1 DEF RowsBounded
  <2>3. CASE w = v
    <3>1. Pending(v)' \subseteq Pending(v) \cup {r}
      BY <1>1, <1>3, <1>4, <1>5, RequestMoves
    <3>2. /\ Cardinality(Pending(v)') <= Cardinality(Pending(v)) + 1
          /\ Cardinality(Pending(v)') \in Nat /\ Cardinality(Pending(v)) \in Nat
      BY <3>1, FinitelyMany, OneMore
    <3>3. QED
      BY <1>1, <2>1, <2>3, <3>2 DEF RowsLeft
  <2>4. QED
    BY <2>2, <2>3
<1>9. ws \in {"absent", "active", "deleted"} /\ mailed \subseteq Users
    BY <1>5 DEF WorkspaceTypes
<1>10. QED
    BY <1>1, <1>3, <1>4, <1>6, <1>7, <1>8, <1>9, RowsKept

(* begin() takes a connection when one is free.                            *)
LEMMA BeginKeeps ==
    ASSUME WorkspaceInv, NEW r \in Requests, Begin(r)
    PROVE  WorkspaceInv'
<1>1. WorkspaceTypes /\ PoolBounded /\ RowsBounded /\ RequestSound(req[r])
    BY DEF WorkspaceInv, WorkspaceTypes
<1>2. req[r].at = "begin" /\ Free > 0 /\ Goto(r, "add") /\ UNCHANGED <<ws, rows, mailed>>
    BY DEF Begin, At
<1>3. "add" \in Places
    BY DEF Places
<1>4. PICK q \in RequestType :
         req' = [req EXCEPT ![r] = q] /\ q.at = "add" /\ q.target = req[r].target /\ q.role = req[r].role
    BY <1>1, <1>2, <1>3, GotoIs
<1>5. RequestSound(q)
    BY <1>1, <1>2, <1>4 DEF RequestSound, Founding
<1>6. rows[Founder] # <<>> /\ ws # "absent"
    BY <1>2, FounderFirst DEF Founding
<1>7. r \in Pending(q.target)
    BY <1>2, <1>4 DEF Pending
<1>8. PoolBounded'
  <2>1. InTransaction' \subseteq InTransaction \cup {r}
    BY <1>1, <1>4, <1>5, RequestMoves
  <2>2. /\ Cardinality(InTransaction') <= Cardinality(InTransaction) + 1
        /\ Cardinality(InTransaction') \in Nat /\ Cardinality(InTransaction) \in Nat
    BY <2>1, FinitelyMany, OneMore
  <2>3. Cardinality(InTransaction') <= PoolSize
    BY <1>2, <2>2, WorkspaceAssumption DEF Free
  <2>4. QED
    BY <2>3 DEF PoolBounded
<1>9. RowsBounded'
  <2> SUFFICES ASSUME NEW w \in Users
               PROVE  Len(rows[w]) + Cardinality(Pending(w)') <= MaxRows[w]
    BY <1>2 DEF RowsBounded
  <2>1. Len(rows[w]) \in Nat /\ MaxRows[w] \in Nat
    BY <1>1, WorkspaceAssumption DEF WorkspaceTypes
  <2>2. /\ Cardinality(Pending(w)') <= Cardinality(Pending(w))
        /\ Cardinality(Pending(w)') \in Nat /\ Cardinality(Pending(w)) \in Nat
    BY <1>1, <1>4, <1>5, <1>7, NoMoreInvited
  <2>3. QED
    BY <1>1, <2>1, <2>2 DEF RowsBounded
<1>10. ws \in {"absent", "active", "deleted"} /\ mailed \subseteq Users
    BY <1>1 DEF WorkspaceTypes
<1>11. q.at \notin Founding /\ q.at # "addOwner"
    BY <1>4 DEF Founding
<1>12. QED
    BY <1>2, <1>4, <1>5, <1>6, <1>8, <1>9, <1>10, <1>11, RowsKept

(* Rows of somebody else than the founder, who stays the owner.            *)
LEMMA OtherRowsChange ==
    ASSUME WorkspaceInv, NEW r \in Requests, NEW q, RequestSound(q),
           req' = [req EXCEPT ![r] = q], q.at # "addOwner", rows[Founder] # <<>>,
           NEW t \in Users \ {Founder}, NEW list \in Seq(Roles),
           rows' = [rows EXCEPT ![t] = list],
           \A i \in DOMAIN list : list[i] # "owner",
           UNCHANGED <<ws, mailed>>, PoolBounded', RowsBounded'
    PROVE  WorkspaceInv'
<1>1. WorkspaceTypes /\ FounderOwns
    BY DEF WorkspaceInv
<1>2. /\ req' \in [Requests -> RequestType]
      /\ \A x \in Requests : RequestSound(req[x])'
      /\ req'[r] = q /\ \A x \in Requests \ {r} : req'[x] = req[x]
    BY <1>1, RequestMoves
<1>3. rows' \in [Users -> Seq(Roles)] /\ rows'[t] = list /\ \A u \in Users \ {t} : rows'[u] = rows[u]
    BY <1>1 DEF WorkspaceTypes
<1>4. WorkspaceTypes'
    BY <1>1, <1>2, <1>3 DEF WorkspaceTypes
<1>5. rows'[Founder] = rows[Founder] /\ ws # "absent"
    BY <1>3, FounderFirst, WorkspaceAssumption
<1>6. \A u \in Users \ {Founder} : "owner" \notin RolesOf(u)'
  <2>1. "owner" \notin RolesOf(t)'
    BY <1>3 DEF RolesOf
  <2>2. \A u \in Users \ {t} : RolesOf(u)' = RolesOf(u)
    BY <1>3 DEF RolesOf
  <2>3. QED
    BY <1>1, <2>1, <2>2 DEF FounderOwns
<1>7. \A x \in Requests : req'[x].at # "addOwner"
    BY <1>1, <1>2 DEF FounderOwns
<1>8. FounderOwns'
    BY <1>1, <1>5, <1>6, <1>7 DEF FounderOwns
<1>9. QED
    BY <1>4, <1>8 DEF WorkspaceInv

(* The invitation's row takes the place it kept for it.                    *)
LEMMA InviteAddKeeps ==
    ASSUME WorkspaceInv, NEW r \in Requests, InviteAdd(r)
    PROVE  WorkspaceInv'
<1> DEFINE t == req[r].target
           role == req[r].role
           list == Append(rows[t], role)
<1>1. WorkspaceTypes /\ PoolBounded /\ RowsBounded /\ RequestSound(req[r]) /\ FounderOwns
    BY DEF WorkspaceInv, WorkspaceTypes
<1>2. req[r].at = "add" /\ Goto(r, "inviter") /\ UNCHANGED <<ws, mailed>>
    BY DEF InviteAdd, At
<1>3. rows' = [rows EXCEPT ![t] = list]
    BY DEF InviteAdd, AddMember
<1>4. t \in Users \ {Founder} /\ role \in {"admin", "member"}
    BY <1>1, <1>2 DEF RequestSound, Founding
<1>5. "inviter" \in Places
    BY DEF Places
<1>6. PICK q \in RequestType :
         req' = [req EXCEPT ![r] = q] /\ q.at = "inviter" /\ q.target = t
    BY <1>1, <1>2, <1>5, GotoIs
<1>7. RequestSound(q)
    BY <1>4, <1>6 DEF RequestSound
<1>8. r \in InTransaction /\ r \in Pending(t)
    BY <1>2 DEF InTransaction, Pending
<1>9. PoolBounded'
    BY <1>1, <1>6, <1>7, <1>8, NoMoreWaiting
<1>10. rows[t] \in Seq(Roles) /\ role \in Roles
    BY <1>1, <1>4 DEF WorkspaceTypes, Roles
<1>11. list \in Seq(Roles) /\ Len(list) = Len(rows[t]) + 1 /\ Len(rows[t]) \in Nat
    BY <1>10
<1>12. \A i \in DOMAIN list : list[i] # "owner"
  <2>1. \A i \in DOMAIN rows[t] : rows[t][i] # "owner"
    BY <1>1, <1>4 DEF FounderOwns, RolesOf
  <2>2. QED
    BY <1>4, <1>10, <2>1
<1>13. RowsBounded'
  <2> SUFFICES ASSUME NEW u \in Users
               PROVE  Len(rows'[u]) + Cardinality(Pending(u)') <= MaxRows[u]
    BY DEF RowsBounded
  <2>1. Len(rows[u]) \in Nat /\ MaxRows[u] \in Nat
    BY <1>1, WorkspaceAssumption DEF WorkspaceTypes
  <2>2. CASE u = t
    <3>1. Pending(u)' \subseteq Pending(u) \ {r}
      <4>1. \A x \in Requests \ {r} : req'[x] = req[x]
        BY <1>1, <1>6, <1>7, RequestMoves
      <4>2. req'[r] = q
        BY <1>1, <1>6, <1>7, RequestMoves
      <4>3. QED
        BY <1>6, <4>1, <4>2 DEF Pending
    <3>2. /\ IsFiniteSet(Pending(u) \ {r})
          /\ Cardinality(Pending(u) \ {r}) = Cardinality(Pending(u)) - 1
          /\ Cardinality(Pending(u)) \in Nat
      BY <1>8, <2>2, FinitelyMany, FS_RemoveElement, FS_CardinalityType
    <3>3. /\ Cardinality(Pending(u)') <= Cardinality(Pending(u) \ {r})
          /\ Cardinality(Pending(u)') \in Nat
      BY <3>1, <3>2, FinitelyMany, FS_Subset, FS_CardinalityType
    <3>4. rows'[u] = list
      BY <1>1, <1>3, <1>4, <2>2 DEF WorkspaceTypes
    <3>5. Len(rows[u]) + Cardinality(Pending(u)) <= MaxRows[u]
      BY <1>1 DEF RowsBounded
    <3> HIDE DEF list
    <3>6. QED
      BY <1>11, <2>1, <2>2, <3>2, <3>3, <3>4, <3>5
  <2>3. CASE u # t
    <3>1. /\ Cardinality(Pending(u)') <= Cardinality(Pending(u))
          /\ Cardinality(Pending(u)') \in Nat /\ Cardinality(Pending(u)) \in Nat
      BY <1>1, <1>6, <1>7, <2>3, NoMoreInvited
    <3>2. rows'[u] = rows[u]
      BY <1>1, <1>3, <2>3 DEF WorkspaceTypes
    <3>3. QED
      BY <1>1, <2>1, <3>1, <3>2 DEF RowsBounded
  <2>4. QED
    BY <2>2, <2>3
<1>14. rows[Founder] # <<>>
    BY <1>2, FounderFirst DEF Founding
<1> HIDE DEF t, list
<1>15. QED
    BY <1>2, <1>3, <1>4, <1>6, <1>7, <1>9, <1>11, <1>12, <1>13, <1>14, OtherRowsChange

(* A request writes a member's rows, no more than there were, and ends.    *)
LEMMA WriteKeeps ==
    ASSUME WorkspaceInv, NEW r \in Requests, End(r), UNCHANGED <<ws, mailed>>,
           rows[Founder] # <<>>,
           NEW t \in Users \ {Founder}, NEW list \in Seq(Roles),
           rows' = [rows EXCEPT ![t] = list],
           Len(list) <= Len(rows[t]), \A i \in DOMAIN list : list[i] # "owner"
    PROVE  WorkspaceInv'
<1>1. WorkspaceTypes /\ PoolBounded /\ RowsBounded
    BY DEF WorkspaceInv
<1>2. req' = [req EXCEPT ![r] = Idle] /\ Idle.at = "idle" /\ RequestSound(Idle)
    BY IdleIsSound DEF End, Set
<1>3. PoolBounded'
    BY <1>1, <1>2, NoMoreWaiting DEF Holding
<1>4. RowsBounded'
  <2> SUFFICES ASSUME NEW u \in Users
               PROVE  Len(rows'[u]) + Cardinality(Pending(u)') <= MaxRows[u]
    BY DEF RowsBounded
  <2>1. /\ Cardinality(Pending(u)') <= Cardinality(Pending(u))
        /\ Cardinality(Pending(u)') \in Nat /\ Cardinality(Pending(u)) \in Nat
    BY <1>1, <1>2, NoMoreInvited DEF Inviting
  <2>2. /\ Len(rows'[u]) <= Len(rows[u])
        /\ Len(rows'[u]) \in Nat /\ Len(rows[u]) \in Nat /\ MaxRows[u] \in Nat
    BY <1>1, WorkspaceAssumption DEF WorkspaceTypes
  <2>3. Len(rows[u]) + Cardinality(Pending(u)) <= MaxRows[u]
    BY <1>1 DEF RowsBounded
  <2>4. QED
    BY <2>1, <2>2, <2>3
<1>5. QED
    BY <1>2, <1>3, <1>4, OtherRowsChange

LEMMA UpdateWriteKeeps ==
    ASSUME WorkspaceInv, NEW r \in Requests, UpdateWrite(r)
    PROVE  WorkspaceInv'
<1> DEFINE t == req[r].target
           list == [i \in DOMAIN rows[t] |-> req[r].role]
<1>1. WorkspaceTypes /\ RequestSound(req[r])
    BY DEF WorkspaceInv, WorkspaceTypes
<1>2. req[r].at = "updateWrite" /\ End(r) /\ UNCHANGED <<ws, mailed>>
    BY DEF UpdateWrite, At
<1>3. rows' = [rows EXCEPT ![t] = list]
    BY DEF UpdateWrite
<1>4. t \in Users \ {Founder} /\ req[r].role \in {"admin", "member"}
    BY <1>1, <1>2 DEF RequestSound, Founding
<1>5. rows[t] \in Seq(Roles)
    BY <1>1, <1>4 DEF WorkspaceTypes
<1>6. DOMAIN rows[t] = 1..Len(rows[t]) /\ Len(rows[t]) \in Nat
    BY <1>5
<1>7. list \in Seq(Roles) /\ Len(list) <= Len(rows[t])
  <2>1. list \in Seq(Roles) /\ Len(list) = Len(rows[t])
    BY <1>4, <1>6 DEF Roles
  <2>2. QED
    BY <1>6, <2>1
<1>8. \A i \in DOMAIN list : list[i] # "owner"
    BY <1>4
<1>9. rows[Founder] # <<>>
    BY <1>2, FounderFirst DEF Founding
<1> HIDE DEF t, list
<1>10. QED
    BY <1>2, <1>3, <1>4, <1>6, <1>7, <1>8, <1>9, WriteKeeps

(* Of a member who is no owner nothing is kept.                            *)
LEMMA RemoveWriteKeeps ==
    ASSUME WorkspaceInv, NEW r \in Requests, RemoveWrite(r)
    PROVE  WorkspaceInv'
<1> DEFINE t == req[r].target
           kept == {i \in DOMAIN rows[t] : rows[t][i] = "owner"}
<1>1. WorkspaceTypes /\ RequestSound(req[r]) /\ FounderOwns
    BY DEF WorkspaceInv, WorkspaceTypes
<1>2. req[r].at = "removeWrite" /\ End(r) /\ UNCHANGED <<ws, mailed>>
    BY DEF RemoveWrite, At
<1>3. t \in Users \ {Founder}
    BY <1>1, <1>2 DEF RequestSound, Founding
<1>4. Cardinality(kept) = 0
  <2>1. kept = {}
    BY <1>1, <1>3 DEF FounderOwns, RolesOf
  <2>2. QED
    BY <2>1, FS_EmptySet
<1>5. rows' = [rows EXCEPT ![t] = [i \in 1..Cardinality(kept) |-> "owner"]]
    BY DEF RemoveWrite
<1>6. [i \in 1..0 |-> "owner"] = <<>> /\ <<>> \in Seq(Roles) /\ Len(<<>>) = 0 /\ DOMAIN <<>> = {}
    OBVIOUS
<1>7. rows' = [rows EXCEPT ![t] = <<>>]
    BY <1>4, <1>5, <1>6
<1>8. rows[t] \in Seq(Roles)
    BY <1>1, <1>3 DEF WorkspaceTypes
<1>9. Len(<<>>) <= Len(rows[t])
    BY <1>6, <1>8
<1>10. rows[Founder] # <<>>
    BY <1>2, FounderFirst DEF Founding
<1> HIDE DEF t, kept
<1>11. QED
    BY <1>2, <1>3, <1>6, <1>7, <1>9, <1>10, WriteKeeps

(* The founder's row comes first, when nobody has one.                     *)
LEMMA AddOwnerKeeps ==
    ASSUME WorkspaceInv, NEW r \in Requests, AddOwner(r)
    PROVE  WorkspaceInv' /\ Owners = {}
<1>1. WorkspaceTypes /\ FounderOwns /\ PoolBounded /\ RowsBounded /\ RequestSound(req[r])
    BY DEF WorkspaceInv, WorkspaceTypes
<1>2. req[r].at = "addOwner" /\ End(r) /\ UNCHANGED <<ws, mailed>>
    BY DEF AddOwner, At
<1>3. req' = [req EXCEPT ![r] = Idle] /\ Idle.at = "idle" /\ RequestSound(Idle)
    BY <1>2, IdleIsSound DEF End, Set
<1>4. /\ req[r].by = Founder /\ Founder \in Users /\ rows[Founder] = <<>>
      /\ \A u \in Users : rows[u] = <<>>
      /\ \A x \in Requests : req[x].at \in Founding
      /\ \A x \in Requests : req[x].at = "addOwner" => x = r
    BY <1>1, <1>2, WorkspaceAssumption DEF FounderOwns, RequestSound
<1>5. rows' = [rows EXCEPT ![Founder] = <<"owner">>]
  <2>1. Append(<<>>, "owner") = <<"owner">>
    OBVIOUS
  <2>2. QED
    BY <1>4, <2>1 DEF AddOwner, AddMember
<1>6. /\ req' \in [Requests -> RequestType]
      /\ \A x \in Requests : RequestSound(req[x])'
      /\ req'[r] = Idle /\ \A x \in Requests \ {r} : req'[x] = req[x]
    BY <1>1, <1>3, RequestMoves
<1>7. /\ rows' \in [Users -> Seq(Roles)] /\ rows'[Founder] = <<"owner">>
      /\ \A u \in Users \ {Founder} : rows'[u] = <<>>
  <2>1. <<"owner">> \in Seq(Roles)
    BY DEF Roles
  <2>2. QED
    BY <1>1, <1>4, <1>5, <2>1 DEF WorkspaceTypes
<1>8. WorkspaceTypes'
    BY <1>1, <1>2, <1>6, <1>7 DEF WorkspaceTypes
<1>9. ws # "absent" /\ Owners = {}
    BY <1>1, <1>2, <1>4, FounderFirst DEF Owners, RolesOf
<1>10. \A x \in Requests : req'[x].at = "idle"
    BY <1>3, <1>4, <1>6 DEF Founding
<1>11. \A u \in Users \ {Founder} : "owner" \notin RolesOf(u)'
    BY <1>7 DEF RolesOf
<1>12. FounderOwns'
    BY <1>2, <1>7, <1>9, <1>10, <1>11 DEF FounderOwns
<1>13. PoolBounded'
    BY <1>1, <1>3, NoMoreWaiting DEF Holding
<1>14. RowsBounded'
  <2> SUFFICES ASSUME NEW u \in Users
               PROVE  Len(rows'[u]) + Cardinality(Pending(u)') <= MaxRows[u]
    BY DEF RowsBounded
  <2>1. Pending(u)' = {}
    BY <1>10 DEF Pending
  <2>2. Cardinality(Pending(u)') = 0
    BY <2>1, FS_EmptySet
  <2>3. Len(rows'[u]) <= 1 /\ Len(rows'[u]) \in Nat
    <3>1. CASE u = Founder
      <4>1. rows'[u] = <<"owner">> /\ Len(<<"owner">>) = 1
        BY <1>7, <3>1
      <4>2. QED
        BY <4>1
    <3>2. CASE u # Founder
      <4>1. rows'[u] = <<>> /\ Len(<<>>) = 0
        BY <1>7, <3>2
      <4>2. QED
        BY <4>1
    <3>3. QED
      BY <3>1, <3>2
  <2>4. MaxRows[u] \in Nat \ {0}
    BY WorkspaceAssumption
  <2>5. QED
    BY <2>2, <2>3, <2>4
<1>15. QED
    BY <1>8, <1>9, <1>12, <1>13, <1>14 DEF WorkspaceInv
-----------------------------------------------------------------------------
(* The steps of the requests, one by one.                                  *)
LEMMA StepKeeps ==
    ASSUME WorkspaceInv, NEW r \in Requests, Step(r)
    PROVE  WorkspaceInv'
<1>0. WorkspaceTypes /\ RequestSound(req[r]) /\ FounderOwns /\ mailed \subseteq Users
    BY DEF WorkspaceInv, WorkspaceTypes
<1>1. CASE AddOwner(r)
    BY <1>1, AddOwnerKeeps
<1>2. CASE DeleteWrite(r)
    BY <1>0, <1>2, EndKeeps DEF DeleteWrite, At
<1>3. CASE InviteCheck(r)
  <2>1. req[r].at = "inviteCheck" /\ UNCHANGED <<ws, rows, mailed>>
    BY <1>3 DEF InviteCheck, At
  <2>2. CASE End(r)
    BY <1>0, <2>1, <2>2, EndKeeps
  <2>3. CASE rows[req[r].target] = <<>> /\ Goto(r, "begin")
    <3>1. rows[Founder] # <<>>
      BY <2>1, FounderFirst DEF Founding
    <3>2. req[r].target # Founder /\ req[r].role \in {"admin", "member"}
      BY <1>0, <2>1, <2>3, <3>1 DEF RequestSound
    <3>3. QED
      BY <2>1, <2>3, <3>2, GotoKeeps DEF Places, Founding, Holding, Inviting
  <2>4. QED
    BY <1>3, <2>2, <2>3 DEF InviteCheck
<1>4. CASE Begin(r)
    BY <1>4, BeginKeeps
<1>5. CASE InviteAdd(r)
    BY <1>5, InviteAddKeeps
<1>6. CASE LoadInviter(r)
  <2>1. req[r].at = "inviter" /\ UNCHANGED <<ws, rows, mailed>>
    BY <1>6 DEF LoadInviter, At
  <2>2. CASE End(r)
    BY <1>0, <2>1, <2>2, EndKeeps
  <2>3. CASE Forward(r, "info")
    BY <2>1, <2>3, GotoKeeps DEF Places, Founding, Holding, Inviting
  <2>4. QED
    BY <1>6, <2>2, <2>3 DEF LoadInviter
<1>7. CASE LoadWorkspace(r)
  <2>1. req[r].at = "info" /\ UNCHANGED <<ws, rows, mailed>>
    BY <1>7 DEF LoadWorkspace, At
  <2>2. CASE End(r)
    BY <1>0, <2>1, <2>2, EndKeeps
  <2>3. CASE Goto(r, "commit")
    BY <2>1, <2>3, GotoKeeps DEF Places, Founding, Holding, Inviting
  <2>4. QED
    BY <1>7, <2>2, <2>3 DEF LoadWorkspace
<1>8. CASE Commit(r)
  <2>1. req[r].at = "commit" /\ UNCHANGED <<ws, rows>> /\ End(r)
    BY <1>8 DEF Commit
  <2>2. mailed' \subseteq Users
    BY <1>0, <1>8, <2>1 DEF Commit, RequestSound, Founding
  <2>3. QED
    BY <2>1, <2>2, EndKeeps
<1>9. CASE UpdateTarget(r)
  <2>1. req[r].at = "updateTarget" /\ UNCHANGED <<ws, rows, mailed>>
    BY <1>9 DEF UpdateTarget, At
  <2>2. CASE End(r)
    BY <1>0, <2>1, <2>2, EndKeeps
  <2>3. CASE Goto(r, "updateWrite") /\ \E q \in RolesOf(req[r].target) : q # "owner"
    <3>1. rows[Founder] # <<>> /\ RolesOf(Founder) = {"owner"}
      BY <2>1, FounderFirst DEF Founding
    <3>2. req[r].target # Founder /\ req[r].role \in {"admin", "member"}
      BY <1>0, <2>1, <2>3, <3>1 DEF RequestSound
    <3>3. QED
      BY <2>1, <2>3, <3>2, GotoKeeps DEF Places, Founding, Holding, Inviting
  <2>4. QED
    BY <1>9, <2>2, <2>3 DEF UpdateTarget
<1>10. CASE UpdateWrite(r)
    BY <1>10, UpdateWriteKeeps
<1>11. CASE RemoveTarget(r)
  <2>1. req[r].at = "removeTarget" /\ UNCHANGED <<ws, rows, mailed>>
    BY <1>11 DEF RemoveTarget, At
  <2>2. CASE End(r)
    BY <1>0, <2>1, <2>2, EndKeeps
  <2>3. CASE Forward(r, "removeWrite") /\ \E q \in RolesOf(req[r].target) : q # "owner"
    <3>1. rows[Founder] # <<>> /\ RolesOf(Founder) = {"owner"}
      BY <2>1, FounderFirst DEF Founding
    <3>2. req[r].target # Founder
      BY <2>3, <3>1
    <3>3. QED
      BY <2>1, <2>3, <3>2, GotoKeeps DEF Places, Founding, Holding, Inviting
  <2>4. QED
    BY <1>11, <2>2, <2>3 DEF RemoveTarget
<1>12. CASE RemoveWrite(r)
    BY <1>12, RemoveWriteKeeps
<1>13. QED
    BY <1>1, <1>2, <1>3, <1>4, <1>5, <1>6, <1>7, <1>8, <1>9, <1>10, <1>11, <1>12 DEF Step

(* ... and how they begin.                                                 *)
LEMMA BeginningKeeps ==
    ASSUME WorkspaceInv, NEW r \in Requests
    PROVE  /\ Create(r) => WorkspaceInv'
           /\ \A u \in Users : Delete(r, u) => WorkspaceInv'
           /\ \A u, v \in Users : Remove(r, u, v) => WorkspaceInv'
           /\ \A u, v \in Users, role \in Roles : UpdateRole(r, u, v, role) => WorkspaceInv'
<1>0. WorkspaceTypes /\ FounderOwns /\ mailed \subseteq Users
    BY DEF WorkspaceInv, WorkspaceTypes
<1>1. ASSUME Create(r) PROVE WorkspaceInv'
  <2> DEFINE q == [at |-> "addOwner", by |-> Founder, target |-> Founder, role |-> "owner",
                   as |-> "none"]
  <2>1. req' = [req EXCEPT ![r] = q] /\ q.at = "addOwner" /\ UNCHANGED <<rows, mailed>>
    BY <1>1 DEF Create, Arrive, Set
  <2>2. RequestSound(q)
    BY WorkspaceAssumption DEF RequestSound, RequestType, Places, Founding, Roles
  <2>3. ws = "absent" /\ ws' = "active"
    BY <1>1 DEF Create
  <2>4. rows[Founder] = <<>> /\ \A x \in Requests : req[x].at = "idle"
    BY <1>0, <2>3 DEF FounderOwns
  <2> HIDE DEF q
  <2>5. QED
    BY <1>0, <2>1, <2>2, <2>3, <2>4, RequestOnly DEF Founding, Holding, Inviting
<1>2. ASSUME NEW u \in Users, Delete(r, u) PROVE WorkspaceInv'
  <2> DEFINE q == [at |-> "deleteWrite", by |-> u, target |-> None, role |-> "none", as |-> "none"]
  <2>1. Set(r, q) /\ q.at = "deleteWrite" /\ UNCHANGED <<ws, rows, mailed>> /\ RolesOf(u) # {}
    BY <1>2 DEF Delete, Arrive
  <2>2. RequestSound(q)
    BY <1>2 DEF RequestSound, RequestType, Places, Founding
  <2>3. rows[Founder] # <<>>
    BY <1>2, <2>1, FounderFirst
  <2> HIDE DEF q
  <2>4. QED
    BY <2>1, <2>2, <2>3, ArrivalKeeps DEF Founding, Holding, Inviting
<1>3. ASSUME NEW u \in Users, NEW v \in Users, Remove(r, u, v) PROVE WorkspaceInv'
  <2>1. PICK as \in RolesOf(u) : Arrive(r, "removeTarget", u, v, "none", as)
    BY <1>3 DEF Remove
  <2> DEFINE q == [at |-> "removeTarget", by |-> u, target |-> v, role |-> "none", as |-> as]
  <2>2. as \in Roles
    BY <1>0, <1>3, <2>1, RolesAreRoles
  <2>3. Set(r, q) /\ q.at = "removeTarget" /\ UNCHANGED <<ws, rows, mailed>>
    BY <1>3, <2>1 DEF Remove, Arrive
  <2>4. RequestSound(q)
    BY <1>3, <2>2 DEF RequestSound, RequestType, Places, Founding
  <2>5. rows[Founder] # <<>>
    BY <1>3, <2>1, FounderFirst
  <2> HIDE DEF q
  <2>6. QED
    BY <2>3, <2>4, <2>5, ArrivalKeeps DEF Founding, Holding, Inviting
<1>4. ASSUME NEW u \in Users, NEW v \in Users, NEW role \in Roles, UpdateRole(r, u, v, role)
      PROVE  WorkspaceInv'
  <2>1. PICK as \in RolesOf(u) : Arrive(r, "updateTarget", None, v, role, as)
    BY <1>4 DEF UpdateRole
  <2> DEFINE q == [at |-> "updateTarget", by |-> None, target |-> v, role |-> role, as |-> as]
  <2>2. as \in Roles /\ role \in {"admin", "member"}
    BY <1>0, <1>4, <2>1, RolesAreRoles DEF UpdateRole, Roles
  <2>3. Set(r, q) /\ q.at = "updateTarget" /\ UNCHANGED <<ws, rows, mailed>>
    BY <1>4, <2>1 DEF UpdateRole, Arrive
  <2>4. RequestSound(q)
    BY <1>4, <2>2 DEF RequestSound, RequestType, Places, Founding
  <2>5. rows[Founder] # <<>>
    BY <1>4, <2>1, FounderFirst
  <2> HIDE DEF q
  <2>6. QED
    BY <2>3, <2>4, <2>5, ArrivalKeeps DEF Founding, Holding, Inviting
<1>5. QED
    BY <1>1, <1>2, <1>3, <1>4

LEMMA WorkspaceInvStep == WorkspaceInv /\ [Next]_vars => WorkspaceInv'
<1> SUFFICES ASSUME WorkspaceInv, [Next]_vars PROVE WorkspaceInv'
    OBVIOUS
<1>0. mailed \subseteq Users
    BY DEF WorkspaceInv, WorkspaceTypes
<1>1. ASSUME NEW r \in Requests, Step(r) PROVE WorkspaceInv'
    BY <1>1, StepKeeps
<1>2. ASSUME NEW r \in Requests, AcquireTimesOut(r) \/ Fail(r) PROVE WorkspaceInv'
  <2>1. req[r].at # "idle" /\ End(r) /\ UNCHANGED <<ws, rows, mailed>>
    BY <1>2 DEF AcquireTimesOut, Fail, NeedsConnection
  <2>2. QED
    BY <1>0, <1>2, <2>1, EndKeeps
<1>3. CASE UNCHANGED vars
    BY <1>3 DEF vars, WorkspaceInv, WorkspaceTypes, FounderOwns, RowsBounded, PoolBounded, RolesOf,
               Pending, InTransaction
<1>4. QED
    BY <1>1, <1>2, <1>3, BeginningKeeps, InviteKeeps DEF Next

LEMMA WorkspaceInvInit == Init => WorkspaceInv
<1> SUFFICES ASSUME Init PROVE WorkspaceInv
    OBVIOUS
<1>1. /\ ws = "absent" /\ mailed = {}
      /\ \A u \in Users : rows[u] = <<>>
      /\ \A r \in Requests : req[r] = Idle
      /\ rows \in [Users -> Seq(Roles)]
      /\ req \in [Requests -> RequestType]
  <2>1. Idle \in RequestType
    BY DEF Idle, RequestType, Places
  <2>2. QED
    BY <2>1 DEF Init
<1>2. WorkspaceTypes
    BY <1>1, IdleIsSound DEF WorkspaceTypes
<1>3. FounderOwns
    BY <1>1, IdleIsSound, WorkspaceAssumption DEF FounderOwns, RolesOf, Founding
<1>4. \A u \in Users : Pending(u) = {}
    BY <1>1, IdleIsSound DEF Pending
<1>5. InTransaction = {}
    BY <1>1, IdleIsSound DEF InTransaction
<1>6. Cardinality({}) = 0 /\ Len(<<>>) = 0
    BY FS_EmptySet
<1>7. RowsBounded
  <2> SUFFICES ASSUME NEW u \in Users PROVE Len(rows[u]) + Cardinality(Pending(u)) <= MaxRows[u]
    BY DEF RowsBounded
  <2>1. Len(rows[u]) = 0 /\ Cardinality(Pending(u)) = 0
    BY <1>1, <1>4, <1>6
  <2>2. MaxRows[u] \in Nat
    BY WorkspaceAssumption
  <2>3. QED
    BY <2>1, <2>2
<1>8. PoolBounded
    BY <1>5, <1>6, WorkspaceAssumption DEF PoolBounded
<1>9. QED
    BY <1>2, <1>3, <1>7, <1>8 DEF WorkspaceInv

(* The founder alone owns the workspace, and the bounds are kept.          *)
THEOREM WorkspaceInvariant == Spec => []WorkspaceInv
    BY WorkspaceInvInit, WorkspaceInvStep, PTL DEF Spec

(* Every variable has its type, no user has more rows than were invited,   *)
(* and the transactions never hold more connections than the pool has.     *)
THEOREM WorkspaceTypeCorrect == Spec => []TypeOK
<1>1. WorkspaceInv => TypeOK
  <2> SUFFICES ASSUME WorkspaceInv PROVE TypeOK
    OBVIOUS
  <2>1. WorkspaceTypes /\ RowsBounded /\ PoolBounded
    BY DEF WorkspaceInv
  <2>2. Free \in 0..PoolSize
    BY <2>1, FinitelyMany, FS_CardinalityType, WorkspaceAssumption DEF PoolBounded, Free
  <2>3. ASSUME NEW u \in Users PROVE Len(rows[u]) <= MaxRows[u]
    <3>1. Cardinality(Pending(u)) \in Nat /\ Len(rows[u]) \in Nat /\ MaxRows[u] \in Nat
      BY <2>1, FinitelyMany, FS_CardinalityType, WorkspaceAssumption DEF WorkspaceTypes
    <3>2. Len(rows[u]) + Cardinality(Pending(u)) <= MaxRows[u]
      BY <2>1 DEF RowsBounded
    <3>3. QED
      BY <3>1, <3>2
  <2>4. QED
    BY <2>1, <2>2, <2>3 DEF TypeOK, WorkspaceTypes, RequestType
<1>2. QED
    BY <1>1, WorkspaceInvariant, PTL

(* Of the founder's row no step is.                                        *)
LEMMA FounderKept ==
    ASSUME WorkspaceInv, [Next]_vars, rows[Founder] # <<>>
    PROVE  rows'[Founder] = rows[Founder]
<1>0. WorkspaceTypes /\ \A r \in Requests : RequestSound(req[r])
    BY DEF WorkspaceInv, WorkspaceTypes
<1>1. ASSUME NEW t \in Users \ {Founder}, NEW list, rows' = [rows EXCEPT ![t] = list]
      PROVE  rows'[Founder] = rows[Founder]
    BY <1>0, <1>1, WorkspaceAssumption DEF WorkspaceTypes
<1>2. ASSUME NEW r \in Requests, req[r].at \in {"add", "updateWrite", "removeWrite"}
      PROVE  req[r].target \in Users \ {Founder}
    BY <1>0, <1>2 DEF RequestSound, Founding
<1>3. ASSUME NEW r \in Requests, InviteAdd(r) \/ UpdateWrite(r) \/ RemoveWrite(r)
      PROVE  rows'[Founder] = rows[Founder]
  <2>1. req[r].at \in {"add", "updateWrite", "removeWrite"}
    BY <1>3 DEF InviteAdd, UpdateWrite, RemoveWrite, At
  <2>2. \E list : rows' = [rows EXCEPT ![req[r].target] = list]
    BY <1>3 DEF InviteAdd, UpdateWrite, RemoveWrite, AddMember
  <2>3. QED
    BY <1>1, <1>2, <1>3, <2>1, <2>2
<1>4. ASSUME NEW r \in Requests PROVE ~AddOwner(r)
  <2>1. RolesOf(Founder) = {"owner"}
    BY FounderFirst
  <2>2. Owners # {}
    BY <2>1, WorkspaceAssumption DEF Owners
  <2>3. QED
    BY <1>4, <2>2, AddOwnerKeeps
<1>5. ASSUME NEW r \in Requests, Step(r) PROVE rows'[Founder] = rows[Founder]
    BY <1>3, <1>4, <1>5
       DEF Step, DeleteWrite, InviteCheck, Begin, LoadInviter, LoadWorkspace, Commit, UpdateTarget,
           RemoveTarget
<1>6. QED
    BY <1>5 DEF Next, vars, Create, Delete, Remove, Invite, UpdateRole, AcquireTimesOut, Fail

(* Whatever role changes, invitations and removals overlap, a workspace    *)
(* that has got its owner keeps that one and gets no other.                *)
THEOREM OwnershipStays == Spec => OwnershipNeverMoves
<1>1. ASSUME WorkspaceInv, [Next]_vars, Owners # {}
      PROVE  Owners' = Owners
  <2>1. FounderOwns /\ FounderOwns' /\ Founder \in Users
    BY <1>1, WorkspaceInvStep, WorkspaceAssumption DEF WorkspaceInv
  <2>2. Owners = {Founder}
    BY <1>1, <2>1 DEF FounderOwns, Owners
  <2>3. RolesOf(Founder)' = RolesOf(Founder)
    <3>1. rows[Founder] # <<>>
      BY <2>2 DEF Owners, RolesOf
    <3>2. QED
      BY <1>1, <3>1, FounderKept DEF RolesOf
  <2>4. Owners' = {Founder}
    BY <2>1, <2>2, <2>3 DEF FounderOwns, Owners
  <2>5. QED
    BY <2>2, <2>4
<1>2. WorkspaceInv /\ [Next]_vars => [Owners # {} => Owners' = Owners]_vars
    BY <1>1
<1>3. QED
    BY <1>2, WorkspaceInvariant, PTL DEF Spec, OwnershipNeverMoves

(* A workspace that its creation left without any member keeps none: no    *)
(* request can begin on it.                                                *)
THEOREM OrphansStay == Spec => OrphanStays
<1>1. ASSUME [Next]_vars, Orphaned PROVE Orphaned'
  <2>1. /\ ws = "active" /\ \A u \in Users : rows[u] = <<>>
        /\ \A r \in Requests : req[r].at = "idle"
    BY <1>1 DEF Orphaned
  <2>2. \A u \in Users : RolesOf(u) = {}
    BY <2>1 DEF RolesOf
  <2>3. \A r \in Requests : ~Step(r) /\ ~AcquireTimesOut(r) /\ ~Fail(r) /\ ~Create(r)
    BY <2>1
       DEF Step, AddOwner, DeleteWrite, InviteCheck, Begin, InviteAdd, LoadInviter, LoadWorkspace,
           Commit, UpdateTarget, UpdateWrite, RemoveTarget, RemoveWrite, At, AcquireTimesOut,
           NeedsConnection, Fail, Create
  <2>4. \A r \in Requests, u, v \in Users, role \in Roles :
           ~Delete(r, u) /\ ~Remove(r, u, v) /\ ~Invite(r, u, v, role) /\ ~UpdateRole(r, u, v, role)
    BY <2>2 DEF Delete, Remove, Invite, UpdateRole
  <2>5. UNCHANGED vars
    BY <1>1, <2>3, <2>4 DEF Next, Roles
  <2>6. QED
    BY <2>1, <2>5 DEF vars, Orphaned
<1>2. [Next]_vars => [Orphaned => Orphaned']_vars
    BY <1>1
<1>3. QED
    BY <1>2, PTL DEF Spec, OrphanStays
=============================================================================
