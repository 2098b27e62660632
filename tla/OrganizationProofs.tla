------------------------- MODULE OrganizationProofs -------------------------
(***************************************************************************)
(* What an organization guarantees, for any users, invitations, limits and *)
(* any number of concurrent requests.                                      *)
(***************************************************************************)
EXTENDS Organization, TLAPS

(* What a request holds where it is about to write.                        *)
Prepared(q) ==
    /\ q.at = "addOwner" => q.by = Founder
    /\ q.at = "saveOrg" => q.credits <= CreditLimit
    /\ q.at \in {"usage", "invite", "updateTarget", "updateWrite"} => q.role \in {"admin", "member"}
    /\ q.at \in {"inviter", "commit", "revoke"} =>
          q.invite \in Invitations /\ invites[q.invite].state # "absent"
    /\ q.at \in {"acceptCheck", "accept"} => q.by \in Users /\ q.invite \in mailed
    /\ q.at \in {"updateTarget", "updateWrite", "removeTarget", "removeWrite"} => q.target \in Users
    /\ q.at \in {"updateWrite", "removeWrite"} => q.target # Founder

(* Invitations do not give ownership away, and nobody but the founder has  *)
(* it.                                                                     *)
FounderOwns ==
    /\ \A u \in Users : members[u] = "owner" => u = Founder
    /\ \A i \in Invitations : invites[i].state # "absent" => invites[i].role \in {"admin", "member"}

(* Until the founder is the owner there is nobody, nobody is invited, and  *)
(* only credits can be asked for.                                          *)
OwnerFirst ==
    members[Founder] # "owner" =>
        /\ \A u \in Users : members[u] = "none"
        /\ \A i \in Invitations : invites[i].state = "absent"
        /\ \A r \in Requests : req[r].at \in {"idle", "addOwner", "spend"}

RequestType ==
    [at : Places, by : Users \cup {None}, target : Users \cup {None}, role : Roles \cup {"none"},
     as : Roles \cup {"none"}, invite : Invitations \cup {None}, credits : Nat]

OrganizationInv ==
    /\ TypeOK
    /\ CreditsWithinLimit
    /\ \A r \in Requests : Prepared(req[r])
    /\ FounderOwns
    /\ OwnerFirst
-----------------------------------------------------------------------------
(* The record of a request slot that is free.                              *)
LEMMA IdleIsRequest == Idle \in RequestType
    BY OrganizationAssumption DEF Idle, RequestType, Places

(* A step that only moves one request, to a place it is prepared for,      *)
(* keeps OrganizationInv.                                                  *)
LEMMA RequestMoves ==
    ASSUME OrganizationInv,
           NEW r \in Requests, NEW q \in RequestType, Prepared(q),
           members[Founder] = "owner" \/ q.at \in {"idle", "addOwner", "spend"},
           req' = [req EXCEPT ![r] = q],
           exists' \in BOOLEAN,
           UNCHANGED <<members, invites, expired, mailed, credits>>
    PROVE  OrganizationInv'
<1>1. TypeOK'
    BY DEF OrganizationInv, TypeOK, RequestType
<1>2. CreditsWithinLimit' /\ FounderOwns'
    BY DEF OrganizationInv, CreditsWithinLimit, FounderOwns
<1>3. \A x \in Requests : Prepared(req[x])'
    BY DEF OrganizationInv, Prepared, TypeOK
<1>4. OwnerFirst'
    BY DEF OrganizationInv, OwnerFirst, TypeOK
<1>5. QED
    BY <1>1, <1>2, <1>3, <1>4 DEF OrganizationInv

(* So does one that ends a request,                                        *)
LEMMA RequestEnds ==
    ASSUME OrganizationInv, NEW r \in Requests, End(r),
           UNCHANGED <<exists, members, invites, expired, mailed, credits>>
    PROVE  OrganizationInv'
<1>1. Idle \in RequestType /\ Prepared(Idle) /\ Idle.at = "idle"
    BY IdleIsRequest DEF Idle, Prepared
<1>2. exists' \in BOOLEAN
    BY DEF OrganizationInv, TypeOK
<1>3. QED
    BY <1>1, <1>2, RequestMoves DEF End

(* and one that sends it on to a place for which it is prepared.           *)
LEMMA RequestGoesOn ==
    ASSUME OrganizationInv, NEW r \in Requests, NEW place \in Places, Goto(r, place),
           members[Founder] = "owner" \/ place \in {"idle", "addOwner", "spend"},
           Prepared([req[r] EXCEPT !.at = place]),
           UNCHANGED <<exists, members, invites, expired, mailed, credits>>
    PROVE  OrganizationInv'
<1> DEFINE q == [req[r] EXCEPT !.at = place]
<1>1. q \in RequestType /\ q.at = place
    BY DEF OrganizationInv, TypeOK, RequestType
<1>2. req' = [req EXCEPT ![r] = q]
    BY DEF Goto, OrganizationInv, TypeOK
<1>3. exists' \in BOOLEAN
    BY DEF OrganizationInv, TypeOK
<1>4. QED
    BY <1>1, <1>2, <1>3, RequestMoves

(* Every step keeps OrganizationInv.                                       *)
LEMMA OrganizationInvStep == OrganizationInv /\ [Next]_vars => OrganizationInv'
<1> SUFFICES ASSUME OrganizationInv, [Next]_vars
             PROVE  OrganizationInv'
    OBVIOUS
<1> USE OrganizationAssumption
<1>1. ASSUME NEW r \in Requests, Create(r)
      PROVE  OrganizationInv'
  <2> DEFINE q == [Idle EXCEPT !.at = "addOwner", !.by = Founder]
  <2>1. /\ req' = [req EXCEPT ![r] = q]
        /\ exists' \in BOOLEAN
        /\ UNCHANGED <<members, invites, expired, mailed, credits>>
    BY <1>1 DEF Create, Arrive, OrganizationInv, TypeOK
  <2>2. q \in RequestType /\ Prepared(q)
    BY <1>1, IdleIsRequest
       DEF Create, OrganizationInv, TypeOK, RequestType, Prepared, Places, Roles, CanManage, Members
  <2>3. members[Founder] = "owner" \/ q.at \in {"idle", "addOwner", "spend"}
    BY <1>1, IdleIsRequest
       DEF RequestType, Create, OrganizationInv, TypeOK, OwnerFirst, CanManage, Members
  <2>4. QED
    BY <2>1, <2>2, <2>3, RequestMoves
<1>2. ASSUME NEW r \in Requests, AddOwner(r)
      PROVE  OrganizationInv'
    BY <1>2 DEF AddOwner, At, End, Idle, OrganizationInv, TypeOK, CreditsWithinLimit,
        Prepared, FounderOwns, OwnerFirst, Roles, Places
<1>3. ASSUME NEW r \in Requests, NEW u \in Users, Update(r, u)
      PROVE  OrganizationInv'
  <2> DEFINE q == [Idle EXCEPT !.at = "loadOrg"]
  <2>1. /\ req' = [req EXCEPT ![r] = q]
        /\ exists' \in BOOLEAN
        /\ UNCHANGED <<members, invites, expired, mailed, credits>>
    BY <1>3 DEF Update, Arrive, OrganizationInv, TypeOK
  <2>2. q \in RequestType /\ Prepared(q)
    BY <1>3, IdleIsRequest
       DEF Update, OrganizationInv, TypeOK, RequestType, Prepared, Places, Roles, CanManage, Members
  <2>3. members[Founder] = "owner" \/ q.at \in {"idle", "addOwner", "spend"}
    BY <1>3, IdleIsRequest
       DEF RequestType, Update, OrganizationInv, TypeOK, OwnerFirst, CanManage, Members
  <2>4. QED
    BY <2>1, <2>2, <2>3, RequestMoves
<1>4. ASSUME NEW r \in Requests, LoadOrg(r)
      PROVE  OrganizationInv'
  <2> DEFINE q == [req[r] EXCEPT !.at = "saveOrg", !.credits = credits]
  <2>a. req[r] \in RequestType /\ credits \in Nat
    BY DEF OrganizationInv, TypeOK, RequestType
  <2>b. q \in RequestType /\ q.at = "saveOrg" /\ q.credits = credits
    BY ONLY <2>a DEF RequestType, Places
  <2>c. credits \in 0..CreditLimit
    BY DEF OrganizationInv, TypeOK, CreditsWithinLimit
  <2>1. q \in RequestType /\ Prepared(q)
    BY <2>b, <2>c DEF Prepared
  <2>2. members[Founder] = "owner"
    BY <1>4 DEF LoadOrg, At, OrganizationInv, OwnerFirst
  <2>3. req' = [req EXCEPT ![r] = q] /\ exists' \in BOOLEAN
    BY <1>4 DEF LoadOrg, OrganizationInv, TypeOK
  <2>4. QED
    BY <1>4, <2>1, <2>2, <2>3, RequestMoves DEF LoadOrg
<1>5. ASSUME NEW r \in Requests, SaveOrg(r)
      PROVE  OrganizationInv'
    BY <1>5 DEF SaveOrg, At, End, Idle, OrganizationInv, TypeOK, CreditsWithinLimit,
        Prepared, FounderOwns, OwnerFirst, Roles, Places
<1>6. ASSUME NEW r \in Requests, NEW amount \in Amounts, ConsumeCredits(r, amount)
      PROVE  OrganizationInv'
  <2> DEFINE q == [Idle EXCEPT !.at = "spend", !.credits = amount]
  <2>1. /\ req' = [req EXCEPT ![r] = q]
        /\ exists' \in BOOLEAN
        /\ UNCHANGED <<members, invites, expired, mailed, credits>>
    BY <1>6 DEF ConsumeCredits, Arrive, OrganizationInv, TypeOK
  <2>2. q \in RequestType /\ Prepared(q)
    BY <1>6, IdleIsRequest
       DEF ConsumeCredits, OrganizationInv, TypeOK, RequestType, Prepared, Places, Roles,
        CanManage, Members
  <2>3. members[Founder] = "owner" \/ q.at \in {"idle", "addOwner", "spend"}
    BY <1>6, IdleIsRequest
       DEF RequestType, ConsumeCredits, OrganizationInv, TypeOK, OwnerFirst, CanManage, Members
  <2>4. QED
    BY <2>1, <2>2, <2>3, RequestMoves
<1>7. ASSUME NEW r \in Requests, Spend(r)
      PROVE  OrganizationInv'
    BY <1>7 DEF Spend, At, End, Idle, OrganizationInv, TypeOK, CreditsWithinLimit,
        Prepared, FounderOwns, OwnerFirst, Roles, Places
<1>8. ASSUME NEW r \in Requests, NEW u \in Users, NEW role \in Roles,
            Invite(r, u, role)
      PROVE  OrganizationInv'
  <2> DEFINE q == [Idle EXCEPT !.at = "usage", !.by = u, !.role = role]
  <2>1. /\ req' = [req EXCEPT ![r] = q]
        /\ exists' \in BOOLEAN
        /\ UNCHANGED <<members, invites, expired, mailed, credits>>
    BY <1>8 DEF Invite, Arrive, OrganizationInv, TypeOK
  <2>2. q \in RequestType /\ Prepared(q)
    BY <1>8, IdleIsRequest
       DEF Invite, OrganizationInv, TypeOK, RequestType, Prepared, Places, Roles, CanManage, Members
  <2>3. members[Founder] = "owner" \/ q.at \in {"idle", "addOwner", "spend"}
    BY <1>8, IdleIsRequest
       DEF RequestType, Invite, OrganizationInv, TypeOK, OwnerFirst, CanManage, Members
  <2>4. QED
    BY <2>1, <2>2, <2>3, RequestMoves
<1>9. ASSUME NEW r \in Requests, CheckLimit(r)
      PROVE  OrganizationInv'
  <2>1. CASE End(r)
    BY <1>9, <2>1, RequestEnds DEF CheckLimit
  <2>2. CASE Goto(r, "invite")
    <3>1. Prepared([req[r] EXCEPT !.at = "invite"])
      BY <1>9 DEF CheckLimit, At, OrganizationInv, TypeOK, Prepared
    <3>2. members[Founder] = "owner"
      BY <1>9 DEF CheckLimit, At, OrganizationInv, OwnerFirst
    <3>3. QED
      BY <1>9, <2>2, <3>1, <3>2, RequestGoesOn DEF CheckLimit, Places
  <2>3. QED
    BY <1>9, <2>1, <2>2 DEF CheckLimit
<1>10. ASSUME NEW r \in Requests, CreateInvitation(r)
      PROVE  OrganizationInv'
    BY <1>10 DEF CreateInvitation, At, OrganizationInv, TypeOK, CreditsWithinLimit,
        Prepared, FounderOwns, OwnerFirst, Roles, Places
<1>11. ASSUME NEW r \in Requests, LoadInviter(r)
      PROVE  OrganizationInv'
  <2> DEFINE q == [req[r] EXCEPT !.at = "commit", !.by = None]
  <2>1. CASE End(r)
    BY <1>11, <2>1, RequestEnds DEF LoadInviter
  <2>2. CASE req' = [req EXCEPT ![r].at = "commit", ![r].by = None]
    <3>1. q \in RequestType /\ Prepared(q)
      BY <1>11 DEF LoadInviter, At, OrganizationInv, TypeOK, RequestType, Prepared, Places
    <3>2. members[Founder] = "owner"
      BY <1>11 DEF LoadInviter, At, OrganizationInv, OwnerFirst
    <3>3. req' = [req EXCEPT ![r] = q] /\ exists' \in BOOLEAN
      BY <1>11, <2>2 DEF LoadInviter, OrganizationInv, TypeOK
    <3>4. QED
      BY <1>11, <3>1, <3>2, <3>3, RequestMoves DEF LoadInviter
  <2>3. QED
    BY <1>11, <2>1, <2>2 DEF LoadInviter
<1>12. ASSUME NEW r \in Requests, Commit(r)
      PROVE  OrganizationInv'
    BY <1>12 DEF Commit, At, End, Idle, OrganizationInv, TypeOK, CreditsWithinLimit,
        Prepared, FounderOwns, OwnerFirst, Roles, Places
<1>13. ASSUME NEW r \in Requests, NEW u \in Users, NEW i \in Invitations,
            Revoke(r, u, i)
      PROVE  OrganizationInv'
  <2> DEFINE q == [Idle EXCEPT !.at = "revoke", !.invite = i]
  <2>1. /\ req' = [req EXCEPT ![r] = q]
        /\ exists' \in BOOLEAN
        /\ UNCHANGED <<members, invites, expired, mailed, credits>>
    BY <1>13 DEF Revoke, Arrive, OrganizationInv, TypeOK
  <2>2. q \in RequestType /\ Prepared(q)
    BY <1>13, IdleIsRequest
       DEF Revoke, OrganizationInv, TypeOK, RequestType, Prepared, Places, Roles, CanManage, Members
  <2>3. members[Founder] = "owner" \/ q.at \in {"idle", "addOwner", "spend"}
    BY <1>13, IdleIsRequest
       DEF RequestType, Revoke, OrganizationInv, TypeOK, OwnerFirst, CanManage, Members
  <2>4. QED
    BY <2>1, <2>2, <2>3, RequestMoves
<1>14. ASSUME NEW r \in Requests, RevokeWrite(r)
      PROVE  OrganizationInv'
    BY <1>14 DEF RevokeWrite, At, End, Idle, OrganizationInv, TypeOK, CreditsWithinLimit,
        Prepared, FounderOwns, OwnerFirst, Roles, Places
<1>15. ASSUME NEW i \in Invitations, Expire(i)
      PROVE  OrganizationInv'
    BY <1>15
       DEF Expire, OrganizationInv, TypeOK, CreditsWithinLimit, Prepared, FounderOwns, OwnerFirst
<1>16. ASSUME NEW r \in Requests, NEW u \in Users, NEW i \in Invitations,
            Accept(r, u, i)
      PROVE  OrganizationInv'
  <2> DEFINE q == [Idle EXCEPT !.at = "acceptCheck", !.by = u, !.invite = i]
  <2>1. /\ req' = [req EXCEPT ![r] = q]
        /\ exists' \in BOOLEAN
        /\ UNCHANGED <<members, invites, expired, mailed, credits>>
    BY <1>16 DEF Accept, Arrive, OrganizationInv, TypeOK
  <2>2. q \in RequestType /\ Prepared(q)
    BY <1>16, IdleIsRequest
       DEF Accept, OrganizationInv, TypeOK, RequestType, Prepared, Places, Roles, CanManage, Members, Acceptable
  <2>3. members[Founder] = "owner" \/ q.at \in {"idle", "addOwner", "spend"}
    BY <1>16, IdleIsRequest
       DEF RequestType, Accept, OrganizationInv, TypeOK, OwnerFirst, CanManage, Members, Acceptable
  <2>4. QED
    BY <2>1, <2>2, <2>3, RequestMoves
<1>17. ASSUME NEW r \in Requests, AcceptCheck(r)
      PROVE  OrganizationInv'
  <2>1. CASE End(r)
    BY <1>17, <2>1, RequestEnds DEF AcceptCheck
  <2>2. CASE Goto(r, "accept")
    <3>1. Prepared([req[r] EXCEPT !.at = "accept"])
      BY <1>17 DEF AcceptCheck, At, OrganizationInv, TypeOK, Prepared
    <3>2. members[Founder] = "owner"
      BY <1>17 DEF AcceptCheck, At, OrganizationInv, OwnerFirst
    <3>3. QED
      BY <1>17, <2>2, <3>1, <3>2, RequestGoesOn DEF AcceptCheck, Places
  <2>3. QED
    BY <1>17, <2>1, <2>2 DEF AcceptCheck
<1>18. ASSUME NEW r \in Requests, AcceptWrite(r)
      PROVE  OrganizationInv'
  <2> DEFINE u == req[r].by
             i == req[r].invite
  <2>1. CASE ~(Acceptable(i) /\ u \notin Members)
    BY <1>18, <2>1, RequestEnds DEF AcceptWrite
  <2>2. CASE Acceptable(i) /\ u \notin Members
    <3>1. /\ u \in Users
          /\ i \in Invitations
          /\ invites[i].state = "pending"
          /\ invites[i].role \in {"admin", "member"}
          /\ members[Founder] = "owner"
          /\ u # Founder
      BY <1>18, <2>2 DEF AcceptWrite, Acceptable, At, Members, OrganizationInv, TypeOK, Prepared,
          FounderOwns, OwnerFirst
    <3>2. /\ members' = [members EXCEPT ![u] = invites[i].role]
          /\ invites' = [invites EXCEPT ![i].state = "accepted"]
          /\ req' = [req EXCEPT ![r] = Idle]
          /\ UNCHANGED <<exists, expired, mailed, credits>>
      BY <1>18, <2>2 DEF AcceptWrite, Join, End
    <3>3. /\ invites'[i].state = "accepted"
          /\ invites'[i].role = invites[i].role
          /\ \A x \in Invitations : x # i => invites'[x] = invites[x]
      BY <3>1, <3>2 DEF OrganizationInv, TypeOK
    <3>4. TypeOK'
      BY <3>1, <3>2, <3>3 DEF OrganizationInv, TypeOK, Idle, Places, Roles
    <3>5. \A x \in Requests : Prepared(req[x])'
      BY <3>1, <3>2, <3>3 DEF OrganizationInv, TypeOK, Idle, Prepared
    <3>6. CreditsWithinLimit' /\ FounderOwns' /\ OwnerFirst'
      BY <3>1, <3>2, <3>3 DEF OrganizationInv, TypeOK, CreditsWithinLimit, FounderOwns, OwnerFirst
    <3>7. QED
      BY <3>4, <3>5, <3>6 DEF OrganizationInv
  <2>3. QED
    BY <2>1, <2>2
<1>19. ASSUME NEW r \in Requests, NEW u \in Users, NEW v \in Users, NEW role \in Roles,
            UpdateRole(r, u, v, role)
      PROVE  OrganizationInv'
  <2> DEFINE q == [Idle EXCEPT !.at = "updateTarget", !.by = u, !.target = v, !.role = role,
                               !.as = members[u]]
  <2>1. /\ req' = [req EXCEPT ![r] = q]
        /\ exists' \in BOOLEAN
        /\ UNCHANGED <<members, invites, expired, mailed, credits>>
    BY <1>19 DEF UpdateRole, Arrive, OrganizationInv, TypeOK
  <2>2. q \in RequestType /\ Prepared(q)
    BY <1>19, IdleIsRequest
       DEF UpdateRole, OrganizationInv, TypeOK, RequestType, Prepared, Places, Roles,
        CanManage, Members
  <2>3. members[Founder] = "owner" \/ q.at \in {"idle", "addOwner", "spend"}
    BY <1>19, IdleIsRequest
       DEF RequestType, UpdateRole, OrganizationInv, TypeOK, OwnerFirst, CanManage, Members
  <2>4. QED
    BY <2>1, <2>2, <2>3, RequestMoves
<1>20. ASSUME NEW r \in Requests, UpdateTarget(r)
      PROVE  OrganizationInv'
  <2>1. CASE End(r)
    BY <1>20, <2>1, RequestEnds DEF UpdateTarget
  <2>2. CASE ~End(r)
    <3>1. Goto(r, "updateWrite")
      BY <1>20, <2>2 DEF UpdateTarget
    <3>2. members[Founder] = "owner"
      BY <1>20 DEF UpdateTarget, At, OrganizationInv, OwnerFirst
    <3>3. Subject(members[req[r].target], req[r].as) \/ members[req[r].target] = "admin"
      BY <1>20, <2>2 DEF UpdateTarget
    <3>4. Prepared([req[r] EXCEPT !.at = "updateWrite"])
      BY <1>20, <3>2, <3>3 DEF UpdateTarget, Subject, At, OrganizationInv, TypeOK, Prepared
    <3>5. QED
      BY <1>20, <3>1, <3>2, <3>4, RequestGoesOn DEF UpdateTarget, Places
  <2>3. QED
    BY <2>1, <2>2
<1>21. ASSUME NEW r \in Requests, UpdateWrite(r)
      PROVE  OrganizationInv'
    BY <1>21 DEF UpdateWrite, At, End, Idle, Members, OrganizationInv, TypeOK, CreditsWithinLimit,
        Prepared, FounderOwns, OwnerFirst, Roles, Places
<1>22. ASSUME NEW r \in Requests, NEW u \in Users, NEW v \in Users,
            Remove(r, u, v)
      PROVE  OrganizationInv'
  <2> DEFINE q == [Idle EXCEPT !.at = "removeTarget", !.by = u, !.target = v, !.as = members[u]]
  <2>1. /\ req' = [req EXCEPT ![r] = q]
        /\ exists' \in BOOLEAN
        /\ UNCHANGED <<members, invites, expired, mailed, credits>>
    BY <1>22 DEF Remove, Arrive, OrganizationInv, TypeOK
  <2>2. q \in RequestType /\ Prepared(q)
    BY <1>22, IdleIsRequest
       DEF Remove, OrganizationInv, TypeOK, RequestType, Prepared, Places, Roles, CanManage, Members
  <2>3. members[Founder] = "owner" \/ q.at \in {"idle", "addOwner", "spend"}
    BY <1>22, IdleIsRequest
       DEF RequestType, Remove, OrganizationInv, TypeOK, OwnerFirst, CanManage, Members
  <2>4. QED
    BY <2>1, <2>2, <2>3, RequestMoves
<1>23. ASSUME NEW r \in Requests, RemoveTarget(r)
      PROVE  OrganizationInv'
  <2>1. CASE End(r)
    BY <1>23, <2>1, RequestEnds DEF RemoveTarget
  <2>2. CASE ~End(r)
    <3>1. Goto(r, "removeWrite")
      BY <1>23, <2>2 DEF RemoveTarget
    <3>2. members[Founder] = "owner"
      BY <1>23 DEF RemoveTarget, At, OrganizationInv, OwnerFirst
    <3>3. Subject(members[req[r].target], req[r].as) \/ members[req[r].target] = "admin"
      BY <1>23, <2>2 DEF RemoveTarget
    <3>4. Prepared([req[r] EXCEPT !.at = "removeWrite"])
      BY <1>23, <3>2, <3>3 DEF RemoveTarget, Subject, At, OrganizationInv, TypeOK, Prepared
    <3>5. QED
      BY <1>23, <3>1, <3>2, <3>4, RequestGoesOn DEF RemoveTarget, Places
  <2>3. QED
    BY <2>1, <2>2
<1>24. ASSUME NEW r \in Requests, RemoveWrite(r)
      PROVE  OrganizationInv'
    BY <1>24 DEF RemoveWrite, At, End, Idle, OrganizationInv, TypeOK, CreditsWithinLimit,
        Prepared, FounderOwns, OwnerFirst, Roles, Places
<1>25. ASSUME NEW r \in Requests, Fail(r)
      PROVE  OrganizationInv'
    BY <1>25, RequestEnds DEF Fail
<1>26. CASE UNCHANGED vars
    BY <1>26
       DEF vars, OrganizationInv, TypeOK, CreditsWithinLimit, Prepared, FounderOwns, OwnerFirst
<1>27. QED
    BY <1>1, <1>2, <1>3, <1>4, <1>5, <1>6, <1>7, <1>8, <1>9, <1>10, <1>11, <1>12, <1>13, <1>14, <1>15,
       <1>16, <1>17, <1>18, <1>19, <1>20, <1>21, <1>22, <1>23, <1>24, <1>25, <1>26 DEF Next, Step

(* What a request has prepared, and whose the organization is, is an       *)
(* inductive invariant of every instance.                                  *)
THEOREM OrganizationInvariant == Spec => []OrganizationInv
<1>1. ASSUME Init
      PROVE  OrganizationInv
  <2>1. TypeOK
    BY <1>1, IdleIsRequest DEF Init, TypeOK, RequestType
  <2>2. CreditsWithinLimit /\ FounderOwns
    BY <1>1, OrganizationAssumption DEF Init, CreditsWithinLimit, FounderOwns
  <2>3. (\A r \in Requests : Prepared(req[r])) /\ OwnerFirst
    BY <1>1 DEF Init, Prepared, OwnerFirst, Idle
  <2>4. QED
    BY <2>1, <2>2, <2>3 DEF OrganizationInv
<1>2. QED
    BY <1>1, OrganizationInvStep, PTL DEF Spec

(* The types hold of every instance.                                       *)
THEOREM OrganizationTypeCorrect == Spec => []TypeOK
<1>1. OrganizationInv => TypeOK
    BY DEF OrganizationInv
<1>2. QED
    BY <1>1, OrganizationInvariant, PTL

(* Overlapping requests never spend beyond the limit of the plan: settings *)
(* written back by SaveOrg, too, hold credits that were within it.         *)
THEOREM CreditsStayWithinLimit == Spec => []CreditsWithinLimit
<1>1. OrganizationInv => CreditsWithinLimit
    BY DEF OrganizationInv
<1>2. QED
    BY <1>1, OrganizationInvariant, PTL
-----------------------------------------------------------------------------
(* The steps that write TBL_ORGANIZATION_MEMBERS.                          *)
LEMMA OnlyTheseWriteMembers ==
    ASSUME [Next]_vars
    PROVE  \/ UNCHANGED members
           \/ \E r \in Requests : AddOwner(r) \/ AcceptWrite(r) \/ UpdateWrite(r) \/ RemoveWrite(r)
    BY DEF Next, Step, vars, Create, Update, LoadOrg, SaveOrg, ConsumeCredits, Spend, Invite,
        CheckLimit, CreateInvitation, LoadInviter, Commit, Revoke, RevokeWrite, Expire, Accept,
        AcceptCheck, UpdateRole, UpdateTarget, Remove, RemoveTarget, Fail

(* The owner, once there is one, is the founder, and no write of another   *)
(* request reaches the founder's row: it was checked when the founder was  *)
(* owner already.                                                          *)
THEOREM OwnerStaysOwner == Spec => OwnershipNeverMoves
<1>1. ASSUME OrganizationInv, [Next]_vars, Owners # {}
      PROVE  Owners' = Owners
  <2>1. Owners = {Founder} /\ members[Founder] = "owner"
    BY <1>1 DEF OrganizationInv, FounderOwns, Owners
  <2>2. OrganizationInv'
    BY <1>1, OrganizationInvStep
  <2>3. members'[Founder] = "owner"
    <3> USE OrganizationAssumption
    <3>1. CASE UNCHANGED members
      BY <2>1, <3>1
    <3>2. ASSUME NEW r \in Requests, AddOwner(r)
          PROVE  members'[Founder] = "owner"
      BY <1>1, <2>1, <3>2 DEF AddOwner, At, OrganizationInv, TypeOK, Prepared
    <3>3. ASSUME NEW r \in Requests, AcceptWrite(r)
          PROVE  members'[Founder] = "owner"
      BY <1>1, <2>1, <3>3 DEF AcceptWrite, Join, At, Members, OrganizationInv, TypeOK, Prepared
    <3>4. ASSUME NEW r \in Requests, UpdateWrite(r)
          PROVE  members'[Founder] = "owner"
      BY <1>1, <2>1, <3>4 DEF UpdateWrite, At, OrganizationInv, TypeOK, Prepared
    <3>5. ASSUME NEW r \in Requests, RemoveWrite(r)
          PROVE  members'[Founder] = "owner"
      BY <1>1, <2>1, <3>5 DEF RemoveWrite, At, OrganizationInv, TypeOK, Prepared
    <3>6. QED
      BY <1>1, <3>1, <3>2, <3>3, <3>4, <3>5, OnlyTheseWriteMembers
  <2>4. QED
    BY <2>1, <2>2, <2>3, OrganizationAssumption DEF OrganizationInv, FounderOwns, Owners
<1>2. OrganizationInv /\ [Next]_vars => [Owners # {} => Owners' = Owners]_vars
    BY <1>1
<1>3. QED
    BY <1>2, OrganizationInvariant, PTL DEF Spec, OwnershipNeverMoves

(* Whoever joins is the founder, or holds an invitation of which the       *)
(* accepting transaction has found that it is acceptable.                  *)
THEOREM JoiningIsByInvitation == Spec => JoinsByInvitation
<1> DEFINE Joins == \A u \in Users \ Members :
                       u \in Members' => \/ u = Founder /\ members'[u] = "owner"
                                         \/ \E i \in mailed : /\ Acceptable(i)
                                                              /\ invites'[i].state = "accepted"
                                                              /\ members'[u] = invites[i].role
<1>1. ASSUME OrganizationInv, [Next]_vars
      PROVE  Joins
  <2> USE OrganizationAssumption
  <2>1. CASE UNCHANGED members
    BY <2>1 DEF Members
  <2>2. ASSUME NEW r \in Requests, AddOwner(r)
        PROVE  Joins
    BY <1>1, <2>2 DEF AddOwner, At, Members, OrganizationInv, TypeOK, Prepared
  <2>3. ASSUME NEW r \in Requests, AcceptWrite(r)
        PROVE  Joins
    <3>1. CASE UNCHANGED members
      BY <3>1 DEF Members
    <3>2. CASE Acceptable(req[r].invite) /\ Join(req[r].by, req[r].invite)
      <4>1. req[r].by \in Users /\ req[r].invite \in mailed /\ req[r].invite \in Invitations
        BY <1>1, <2>3 DEF AcceptWrite, At, OrganizationInv, TypeOK, Prepared
      <4>2. invites'[req[r].invite].state = "accepted"
        BY <1>1, <3>2, <4>1 DEF Join, OrganizationInv, TypeOK
      <4>3. \A u \in Users : members'[u] = IF u = req[r].by THEN invites[req[r].invite].role
                                                            ELSE members[u]
        BY <1>1, <3>2, <4>1 DEF Join, OrganizationInv, TypeOK
      <4>4. QED
        BY <3>2, <4>1, <4>2, <4>3 DEF Members
    <3>3. QED
      BY <2>3, <3>1, <3>2 DEF AcceptWrite
  <2>4. ASSUME NEW r \in Requests, UpdateWrite(r)
        PROVE  Joins
    BY <1>1, <2>4 DEF UpdateWrite, At, Members, OrganizationInv, TypeOK, Prepared
  <2>5. ASSUME NEW r \in Requests, RemoveWrite(r)
        PROVE  Joins
    BY <1>1, <2>5 DEF RemoveWrite, At, Members, OrganizationInv, TypeOK, Prepared
  <2>6. QED
    BY <1>1, <2>1, <2>2, <2>3, <2>4, <2>5, OnlyTheseWriteMembers
<1>2. OrganizationInv /\ [Next]_vars => [Joins]_vars
    BY <1>1
<1>3. QED
    BY <1>2, OrganizationInvariant, PTL DEF Spec, JoinsByInvitation
=============================================================================
