---------------------------- MODULE AccountsProofs ----------------------------
(***************************************************************************)
(* Proofs about accounts, OAuth and the refresh tokens they issue, for any *)
(* users, tokens, states, providers' answers and concurrent requests.      *)
(***************************************************************************)
EXTENDS Accounts, FiniteSetTheorems, TLAPS

(* Rotation of refresh tokens.                                             *)

(* A refresh works for the owner of the token it found, and has revoked it *)
(* once it is past Revoke.                                                 *)
RefreshesInOrder ==
    \A r \in Requests :
        /\ req[r].at = "issue" => req[r].user \in Users
        /\ req[r].at \in {"revoke", "load"} => req[r].token # None
        /\ req[r].token # None =>
              /\ owner[req[r].token] = req[r].user
              /\ req[r].user \in Users
              /\ req[r].at \in {"load", "issue"} => req[r].token \in revoked

(* Only issued tokens have a parent.                                       *)
ParentOfStored == \A n \in Tokens : parent[n] # None => owner[n] # None

RotationInv == TypeOK /\ RefreshesInOrder /\ ParentOfStored /\ RotationRetiresOld

(* Every step keeps RotationInv.                                           *)
LEMMA RotationInvStep == RotationInv /\ [Next]_vars => RotationInv'
<1> SUFFICES ASSUME RotationInv, [Next]_vars
             PROVE  RotationInv'
    OBVIOUS
<1> USE TokensAssumption
<1> USE DEF RotationInv, TypeOK, RefreshesInOrder, ParentOfStored, RotationRetiresOld, table, Idle, Arrive,
            Goto, End, Stored, Live
<1>1. CASE \E r \in Requests, u \in Users : Login(r, u)
    BY <1>1 DEF Login
<1>2. CASE \E r \in Requests, k \in Tokens : Refresh(r, k)
    BY <1>2 DEF Refresh, Find
<1>3. CASE \E r \in Requests : Revoke(r)
    BY <1>3 DEF Revoke
<1>4. CASE \E r \in Requests : LoadUser(r)
    BY <1>4 DEF LoadUser
<1>5. ASSUME NEW r \in Requests, Issue(r)
      PROVE  RotationInv'
  <2>1. PICK n \in Tokens : /\ owner[n] = None
                            /\ owner' = [owner EXCEPT ![n] = req[r].user]
                            /\ parent' = [parent EXCEPT ![n] = req[r].token]
                            /\ UNCHANGED <<revoked, expired>>
                            /\ req[r].at = "issue"
                            /\ req' = [req EXCEPT ![r] = Idle]
      BY <1>5 DEF Issue
  <2>2. TypeOK'
      BY <2>1
  <2>3. RefreshesInOrder' /\ ParentOfStored'
      BY <2>1, <2>2
  <2>4. ASSUME NEW m \in Tokens, parent'[m] # None
        PROVE  /\ parent'[m] \in revoked'
               /\ owner'[parent'[m]] = owner'[m]
               /\ parent'[m] # m
    <3>1. CASE m = n
        BY <2>1, <2>4, <3>1
    <3>2. CASE m # n
      <4>1. parent'[m] = parent[m]
          BY <2>1, <3>2
      <4>2. /\ parent[m] \in revoked
            /\ owner[parent[m]] = owner[m]
            /\ parent[m] # m
          BY <2>4, <4>1
      <4>3. parent[m] # n
          BY <2>1, <4>1, <4>2, <2>4
      <4>4. QED
          BY <2>1, <2>2, <3>2, <4>1, <4>2, <4>3
    <3>3. QED
        BY <3>1, <3>2
  <2>5. QED
      BY <2>2, <2>3, <2>4
<1>6. CASE \E k \in Tokens : Logout(k)
    BY <1>6 DEF Logout
<1>7. CASE \E k \in Tokens : Expire(k)
    BY <1>7 DEF Expire
<1>8. CASE \E u \in Users : LogoutAll(u)
    BY <1>8 DEF LogoutAll
<1>9. CASE \E r \in Requests : Fail(r)
    BY <1>9 DEF Fail
<1>10. CASE UNCHANGED vars
    BY <1>10 DEF vars
<1>11. QED
    BY <1>1, <1>2, <1>3, <1>4, <1>5, <1>6, <1>7, <1>8, <1>9, <1>10 DEF Next

(* RotationInv is inductive.                                               *)
THEOREM RotationInvariant == Spec => []RotationInv
<1>1. Init => RotationInv
    BY TokensAssumption DEF Init, RotationInv, TypeOK, RefreshesInOrder, ParentOfStored,
        RotationRetiresOld, Idle
<1>2. QED
    BY <1>1, RotationInvStep, PTL DEF Spec

(* The types hold of every instance.                                       *)
THEOREM TokensTypeCorrect == Spec => []TypeOK
<1>1. RotationInv => TypeOK
    BY DEF RotationInv
<1>2. QED
    BY <1>1, RotationInvariant, PTL

(* No token is issued for another that is not revoked, or is another       *)
(* user's, in any instance: Rotate - revoke old, issue new.                *)
THEOREM RotationIsOrderly == Spec => []RotationRetiresOld
<1>1. RotationInv => RotationRetiresOld
    BY DEF RotationInv
<1>2. QED
    BY <1>1, RotationInvariant, PTL
-----------------------------------------------------------------------------
(* Whatever moves from one finite set to another, the two have no more     *)
(* members than before.                                                    *)
LEMMA NoMoreThanBefore ==
    ASSUME NEW S, NEW U, IsFiniteSet(S), IsFiniteSet(U), NEW T, NEW V,
           NEW n, NEW r,
           V \subseteq U,
           T \subseteq S \/ (T \subseteq S \cup {n} /\ r \in U \ V)
    PROVE  Cardinality(T) + Cardinality(V) <= Cardinality(S) + Cardinality(U)
<1>1. CASE T \subseteq S
  <2>1. /\ Cardinality(T) <= Cardinality(S) /\ IsFiniteSet(T)
        /\ Cardinality(V) <= Cardinality(U) /\ IsFiniteSet(V)
    BY <1>1, FS_Subset
  <2>2. Cardinality(T) \in Nat /\ Cardinality(V) \in Nat /\ Cardinality(S) \in Nat /\ Cardinality(U) \in Nat
    BY <2>1, FS_CardinalityType
  <2>3. QED
    BY <2>1, <2>2
<1>2. CASE T \subseteq S \cup {n} /\ r \in U \ V
  <2>0. /\ Cardinality(S) \in Nat /\ IsFiniteSet(S \cup {n})
        /\ Cardinality(S \cup {n}) = IF n \in S THEN Cardinality(S) ELSE Cardinality(S) + 1
    BY FS_AddElement, FS_CardinalityType
  <2>1. Cardinality(S \cup {n}) <= Cardinality(S) + 1 /\ IsFiniteSet(S \cup {n})
    BY <2>0
  <2>2. /\ IsFiniteSet(U \ {r}) /\ Cardinality(U \ {r}) = Cardinality(U) - 1
        /\ Cardinality(U) \in Nat
    BY <1>2, FS_RemoveElement, FS_CardinalityType
  <2>3. /\ Cardinality(T) <= Cardinality(S \cup {n}) /\ IsFiniteSet(T)
    BY <1>2, <2>1, FS_Subset
  <2>4. /\ Cardinality(V) <= Cardinality(U \ {r}) /\ IsFiniteSet(V)
    BY <1>2, <2>2, FS_Subset
  <2>5. Cardinality(T) \in Nat /\ Cardinality(V) \in Nat /\ Cardinality(S \cup {n}) \in Nat
    BY <2>1, <2>3, <2>4, FS_CardinalityType
  <2>6. QED
    BY <2>0, <2>1, <2>2, <2>3, <2>4, <2>5
<1>3. QED
    BY <1>1, <1>2

(* What a step does to a token that is revoked: no refresh begins with it, *)
(* and a refresh that issues its successor ends with that.                 *)
LEMMA RevokedOnlyServes ==
    ASSUME RotationInv, [Next]_vars, NEW k \in revoked
    PROVE  /\ UnderWay(k)' \subseteq UnderWay(k)
           /\ \/ Successors(k)' \subseteq Successors(k)
              \/ \E n \in Tokens, r \in Requests :
                    /\ Successors(k)' \subseteq Successors(k) \cup {n}
                    /\ r \in UnderWay(k) \ UnderWay(k)'
<1> USE TokensAssumption
<1>0. /\ req \in [Requests -> [at : {"idle", "revoke", "load", "issue"},
                               user : Users \cup {None}, token : Tokens \cup {None}]]
      /\ parent \in [Tokens -> Tokens \cup {None}]
      /\ k # None /\ k \in Tokens
    BY DEF RotationInv, TypeOK
<1>1. ASSUME NEW r \in Requests, Issue(r)
      PROVE  /\ UnderWay(k)' \subseteq UnderWay(k)
             /\ \/ Successors(k)' \subseteq Successors(k)
                \/ \E n \in Tokens :
                      /\ Successors(k)' \subseteq Successors(k) \cup {n}
                      /\ r \in UnderWay(k) \ UnderWay(k)'
  <2>1. PICK n \in Tokens : parent' = [parent EXCEPT ![n] = req[r].token]
    BY <1>1 DEF Issue
  <2>2. /\ \A x \in Requests : req'[x].token = k <=> x # r /\ req[x].token = k
    BY <1>0, <1>1 DEF Issue, End, Idle
  <2>3. UnderWay(k)' \subseteq UnderWay(k) /\ r \notin UnderWay(k)'
    BY <2>2 DEF UnderWay
  <2>4. CASE req[r].token = k
    BY <1>0, <2>1, <2>3, <2>4 DEF UnderWay, Successors
  <2>5. CASE req[r].token # k
    BY <1>0, <2>1, <2>3, <2>5 DEF Successors
  <2>6. QED
    BY <2>4, <2>5
<1>2. CASE \E r \in Requests, j \in Tokens : Refresh(r, j)
    BY <1>0, <1>2 DEF Refresh, Find, Live, Arrive, table, UnderWay, Successors
<1>3. CASE \E r \in Requests, u \in Users : Login(r, u)
    BY <1>0, <1>3 DEF Login, Arrive, table, UnderWay, Successors
<1>4. CASE \E r \in Requests : Revoke(r) \/ LoadUser(r) \/ Fail(r)
    BY <1>0, <1>4 DEF Revoke, LoadUser, Fail, Goto, End, Idle, table, UnderWay, Successors
<1>5. CASE UNCHANGED <<parent, req>>
    BY <1>5 DEF UnderWay, Successors
<1>6. QED
    BY <1>1, <1>2, <1>3, <1>4, <1>5 DEF Next, Logout, Expire, LogoutAll, vars

(* A revoked token gains no use: the refreshes under way with it only      *)
(* become fewer, and each yields one successor at most.                    *)
THEOREM RevokedStaysUnused == Spec => RevokedGainsNoUse
<1>1. ASSUME RotationInv, [Next]_vars, NEW k \in revoked
      PROVE  /\ UnderWay(k)' \subseteq UnderWay(k)
             /\ Cardinality(Successors(k)') + Cardinality(UnderWay(k)')
                    <= Cardinality(Successors(k)) + Cardinality(UnderWay(k))
  <2>1. IsFiniteSet(Successors(k)) /\ IsFiniteSet(UnderWay(k))
    BY TokensAssumption, FS_Subset DEF Successors, UnderWay
  <2>2. /\ UnderWay(k)' \subseteq UnderWay(k)
        /\ \/ Successors(k)' \subseteq Successors(k)
           \/ \E n \in Tokens, r \in Requests :
                 /\ Successors(k)' \subseteq Successors(k) \cup {n}
                 /\ r \in UnderWay(k) \ UnderWay(k)'
    BY <1>1, RevokedOnlyServes
  <2>3. QED
    BY <2>1, <2>2, NoMoreThanBefore
<1>2. RotationInv /\ [Next]_vars =>
        [\A k \in revoked :
            /\ UnderWay(k)' \subseteq UnderWay(k)
            /\ Cardinality(Successors(k)') + Cardinality(UnderWay(k)')
                   <= Cardinality(Successors(k)) + Cardinality(UnderWay(k))]_vars
    BY <1>1
<1>3. QED
    BY <1>2, RotationInvariant, PTL DEF Spec, RevokedGainsNoUse
-----------------------------------------------------------------------------
(* Accounts and OAuth.                                                     *)

WorkType ==
    [at : {"idle", "create", "touch", "exchange", "identify", "match", "link"},
     email : Emails \cup Registered \cup {None}, identity : Identities \cup {None},
     secret : Passwords \cup {None}, user : Users \cup {None}]

(* The identity a provider has answered with this email.                   *)
Answered(i, e) ==
    \E p \in Replies : /\ i = <<p.provider, p.id>>
                       /\ e = Exchange(p) /\ e # Failed

(* What a request has found where it stands.                               *)
WorkSound(w) ==
    /\ w.at = "exchange" => w.email \in Registered
    /\ w.at \in {"identify", "match", "link"} => Answered(w.identity, w.email)
    /\ w.at = "create" => \/ w.identity = None /\ w.email \in Emails /\ w.secret \in Passwords
                          \/ Answered(w.identity, w.email)
    /\ w.at \in {"link", "touch"} => w.user \in Users
    /\ w.at = "link" => email[w.user] = w.email

(* An identity is linked to a user of the email it comes with.             *)
LinksSound == \A i \in Identities : identity[i] # None => Answered(i, email[identity[i]])

(* A state that may still be consumed has let no callback through.         *)
StatesSound == \A s \in States : state[s] # "gone" => used[s] = 0

(* A user without password or identity is about to be linked, or was left, *)
(* or shares the email with another.                                       *)
LeftSound ==
    \A u \in Users :
        Created(u) /\ secret[u] = None /\ (\A i \in Identities : identity[i] # u) =>
            \/ \E r \in Requests : work[r].at = "link" /\ work[r].user = u
            \/ u \in left
            \/ \E v \in Users \ {u} : email[v] = email[u]

AccountsTypes ==
    /\ email \in [Users -> Emails \cup {None}]
    /\ secret \in [Users -> Passwords \cup {None}]
    /\ identity \in [Identities -> Users \cup {None}]
    /\ state \in [States -> Registered \cup {None, "gone"}]
    /\ used \in [States -> Nat]
    /\ left \subseteq Users
    /\ work \in [Requests -> WorkType]

AccountsInv ==
    /\ AccountsTypes
    /\ \A r \in Requests : WorkSound(work[r])
    /\ LinksSound
    /\ StatesSound /\ StateUsedOnce
    /\ LeftSound
-----------------------------------------------------------------------------
(* What exchange_code makes of an answer is an email, or it fails.         *)
LEMMA AnswersAreEmails ==
    /\ \A p \in Replies : Exchange(p) \in Emails \cup {Failed}
    /\ \A i, e : Answered(i, e) => i \in Identities /\ i # None /\ e \in Emails
    /\ \A i, e, f : Answered(i, e) /\ Answered(i, f) => e = f
<1>1. \A p \in Replies : Exchange(p) \in Emails \cup {Failed}
    BY AccountsAssumption DEF Exchange, Google, GitHub, Discord, Twitter
<1>2. \A i, e : Answered(i, e) => i \in Identities /\ i # None /\ e \in Emails
    BY <1>1, AccountsAssumption DEF Answered, Identities
<1>3. \A i, e, f : Answered(i, e) /\ Answered(i, f) => e = f
  <2> SUFFICES ASSUME NEW i, NEW e, NEW f, Answered(i, e), Answered(i, f) PROVE e = f
    OBVIOUS
  <2>1. PICK p \in Replies : i = <<p.provider, p.id>> /\ e = Exchange(p) /\ e # Failed
    BY DEF Answered
  <2>2. PICK q \in Replies : i = <<q.provider, q.id>> /\ f = Exchange(q) /\ f # Failed
    BY DEF Answered
  <2>3. p.provider = q.provider /\ p.id = q.id
    BY <2>1, <2>2
  <2>4. QED
    BY <2>1, <2>2, <2>3, AccountsAssumption
<1>4. QED
    BY <1>1, <1>2, <1>3

LEMMA NoWorkIsWork == NoWork \in WorkType /\ WorkSound(NoWork)
    BY DEF NoWork, WorkType, WorkSound

LEMMA AccountsInitially == AccountsInit => AccountsInv
<1> SUFFICES ASSUME AccountsInit PROVE AccountsInv
    OBVIOUS
<1>1. AccountsTypes
    BY NoWorkIsWork DEF AccountsInit, AccountsTypes
<1>2. \A r \in Requests : WorkSound(work[r])
    BY NoWorkIsWork DEF AccountsInit
<1>3. LinksSound /\ StatesSound /\ StateUsedOnce /\ LeftSound
    BY DEF AccountsInit, LinksSound, StatesSound, StateUsedOnce, LeftSound, Created
<1>4. QED
    BY <1>1, <1>2, <1>3 DEF AccountsInv
-----------------------------------------------------------------------------
(* A step that changes the work of one request only, and does not leave a  *)
(* link undone, keeps AccountsInv.                                         *)
LEMMA WorkMoves ==
    ASSUME AccountsInv, NEW r \in Requests, NEW w \in WorkType, Set(r, w), WorkSound(w),
           work[r].at # "link",
           UNCHANGED <<email, secret, identity, state, used, left>>
    PROVE  AccountsInv'
<1>1. /\ work \in [Requests -> WorkType]
      /\ \A x \in Requests : WorkSound(work[x])
    BY DEF AccountsInv, AccountsTypes
<1>2. /\ work' \in [Requests -> WorkType]
      /\ \A x \in Requests : work'[x] = IF x = r THEN w ELSE work[x]
    BY <1>1 DEF Set
<1>3. \A x \in Requests : WorkSound(work[x])'
    BY <1>1, <1>2 DEF WorkSound, Answered
<1>4. LinksSound' /\ StatesSound' /\ StateUsedOnce'
    BY DEF AccountsInv, LinksSound, Answered, StatesSound, StateUsedOnce
<1>5. LeftSound'
    BY <1>2 DEF AccountsInv, LeftSound, Created
<1>6. QED
    BY <1>2, <1>3, <1>4, <1>5 DEF AccountsInv, AccountsTypes

(* create_user keeps it: the user is new, and has a password, or is about  *)
(* to be linked.                                                           *)
LEMMA CreationKeeps ==
    ASSUME AccountsInv, NEW r \in Requests, CreateUser(r)
    PROVE  AccountsInv'
<1>0. /\ AccountsTypes /\ work[r] \in WorkType /\ work[r].at = "create"
      /\ \A x \in Requests : WorkSound(work[x])
      /\ LinksSound /\ LeftSound
    BY DEF AccountsInv, AccountsTypes, CreateUser
<1>1. PICK u \in Users :
        /\ email[u] = None
        /\ email' = [email EXCEPT ![u] = work[r].email]
        /\ secret' = [secret EXCEPT ![u] = work[r].secret]
        /\ \/ work[r].identity = None /\ Set(r, NoWork)
           \/ work[r].identity # None /\ Set(r, [work[r] EXCEPT !.at = "link", !.user = u])
    BY DEF CreateUser, Created
<1>2. UNCHANGED <<identity, state, used, left>>
    BY DEF CreateUser
<1> DEFINE w == IF work[r].identity = None THEN NoWork
                ELSE [work[r] EXCEPT !.at = "link", !.user = u]
<1>3. /\ work[r].email \in Emails /\ None \notin Emails
      /\ work[r].identity = None => work[r].secret \in Passwords /\ None \notin Passwords
      /\ work[r].identity # None => Answered(work[r].identity, work[r].email)
    BY <1>0, AnswersAreEmails, AccountsAssumption DEF WorkSound
<1>4. /\ work[r].identity = None => w = NoWork
      /\ work[r].identity # None => /\ w.at = "link" /\ w.user = u
                                    /\ w.email = work[r].email
                                    /\ w.identity = work[r].identity
      /\ w \in WorkType
    BY <1>0, NoWorkIsWork DEF WorkType
<1>5. Set(r, w)
    BY <1>1
<1> HIDE DEF w
<1>6. /\ work' \in [Requests -> WorkType]
      /\ \A x \in Requests : work'[x] = IF x = r THEN w ELSE work[x]
    BY <1>0, <1>4, <1>5 DEF AccountsTypes, Set
<1>7. /\ email' \in [Users -> Emails \cup {None}]
      /\ \A x \in Users : email'[x] = IF x = u THEN work[r].email ELSE email[x]
      /\ secret' \in [Users -> Passwords \cup {None}]
      /\ \A x \in Users : secret'[x] = IF x = u THEN work[r].secret ELSE secret[x]
    BY <1>0, <1>1, <1>3 DEF AccountsTypes, WorkType
<1>8. AccountsTypes'
    BY <1>0, <1>2, <1>6, <1>7 DEF AccountsTypes
<1>9. ASSUME NEW x \in Requests PROVE WorkSound(work[x])'
  <2>1. CASE x = r /\ work[r].identity = None
    BY <1>4, <1>6, <2>1 DEF WorkSound, NoWork
  <2>2. CASE x = r /\ work[r].identity # None
    BY <1>3, <1>4, <1>6, <1>7, <2>2 DEF WorkSound, Answered
  <2>3. CASE x # r
    <3>1. work'[x] = work[x] /\ WorkSound(work[x])
      BY <1>0, <1>6, <2>3
    <3>2. work[x].at = "link" => email'[work[x].user] = work[x].email
      BY <1>0, <1>1, <1>3, <1>7, <3>1, AnswersAreEmails DEF WorkSound
    <3>3. QED
      BY <3>1, <3>2 DEF WorkSound, Answered
  <2>4. QED
    BY <2>1, <2>2, <2>3
<1>10. LinksSound'
    <2>1. \A i \in Identities : identity[i] # None => email'[identity[i]] = email[identity[i]]
      BY <1>0, <1>1, <1>3, <1>7, AnswersAreEmails DEF LinksSound, AccountsTypes
    <2>2. QED
      BY <1>0, <1>2, <2>1 DEF LinksSound, Answered
<1>11. StatesSound' /\ StateUsedOnce'
    BY <1>2 DEF AccountsInv, StatesSound, StateUsedOnce
<1>12. ASSUME NEW x \in Users, Created(x)', secret'[x] = None, \A i \in Identities : identity'[i] # x
       PROVE  \/ \E q \in Requests : work'[q].at = "link" /\ work'[q].user = x
              \/ x \in left'
              \/ \E v \in Users \ {x} : email'[v] = email'[x]
  <2>1. CASE x = u
    BY <1>3, <1>4, <1>6, <1>7, <1>12, <2>1
  <2>2. CASE x # u
    <3>1. /\ Created(x) /\ secret[x] = None /\ \A i \in Identities : identity[i] # x
          /\ email'[x] = email[x] /\ email[x] # None
      BY <1>2, <1>7, <1>12, <2>2 DEF Created
    <3>2. \/ \E q \in Requests : work[q].at = "link" /\ work[q].user = x
          \/ x \in left
          \/ \E v \in Users \ {x} : email[v] = email[x]
      BY <1>0, <3>1 DEF LeftSound
    <3>3. ASSUME NEW q \in Requests, work[q].at = "link", work[q].user = x
          PROVE  work'[q].at = "link" /\ work'[q].user = x
      BY <1>0, <1>6, <3>3
    <3>4. ASSUME NEW v \in Users \ {x}, email[v] = email[x]
          PROVE  email'[v] = email'[x]
      BY <1>1, <1>7, <3>1, <3>4
    <3>5. QED
      BY <1>2, <3>2, <3>3, <3>4
  <2>3. QED
    BY <2>1, <2>2
<1>13. QED
    BY <1>8, <1>9, <1>10, <1>11, <1>12 DEF AccountsInv, LeftSound

(* create_oauth_account keeps it: an identity that was linked meanwhile    *)
(* belongs to a user of the same email.                                    *)
LEMMA LinkKeeps ==
    ASSUME AccountsInv, NEW r \in Requests, Link(r)
    PROVE  AccountsInv'
<1> DEFINE w == [work[r] EXCEPT !.at = "touch"]
           i == work[r].identity
           u == work[r].user
<1>0. /\ AccountsTypes /\ work[r] \in WorkType /\ work[r].at = "link"
      /\ \A x \in Requests : WorkSound(work[x])
      /\ LinksSound /\ LeftSound
    BY DEF AccountsInv, AccountsTypes, Link
<1>1. /\ identity' = [identity EXCEPT ![i] = IF identity[i] = None THEN u ELSE identity[i]]
      /\ Set(r, w) /\ UNCHANGED <<email, secret, state, used, left>>
    BY <1>0 DEF Link, Go, Set, AccountsTypes
<1>2. /\ Answered(i, work[r].email) /\ i \in Identities
      /\ u \in Users /\ u # None /\ email[u] = work[r].email
    BY <1>0, AnswersAreEmails, TokensAssumption DEF WorkSound
<1>3. w \in WorkType /\ w.at = "touch" /\ w.user = u
    BY <1>0 DEF WorkType
<1> HIDE DEF w
<1>4. /\ work' \in [Requests -> WorkType]
      /\ \A x \in Requests : work'[x] = IF x = r THEN w ELSE work[x]
    BY <1>0, <1>1, <1>3 DEF AccountsTypes, Set
<1>5. /\ identity' \in [Identities -> Users \cup {None}]
      /\ \A j \in Identities : identity'[j] = IF j = i /\ identity[i] = None THEN u ELSE identity[j]
    BY <1>0, <1>1, <1>2 DEF AccountsTypes
<1>6. AccountsTypes'
    BY <1>0, <1>1, <1>4, <1>5 DEF AccountsTypes
<1>7. \A x \in Requests : WorkSound(work[x])'
    BY <1>0, <1>1, <1>2, <1>3, <1>4 DEF WorkSound, Answered
<1>8. LinksSound'
    BY <1>0, <1>1, <1>2, <1>5 DEF LinksSound, Answered
<1>9. StatesSound' /\ StateUsedOnce'
    BY <1>1 DEF AccountsInv, StatesSound, StateUsedOnce
<1>10. ASSUME NEW x \in Users, Created(x), secret[x] = None, \A j \in Identities : identity'[j] # x
       PROVE  \/ \E q \in Requests : work'[q].at = "link" /\ work'[q].user = x
              \/ x \in left
              \/ \E v \in Users \ {x} : email[v] = email[x]
  <2>1. \A j \in Identities : identity[j] # x
    BY <1>2, <1>5, <1>10, TokensAssumption
  <2>2. \/ \E q \in Requests : work[q].at = "link" /\ work[q].user = x
        \/ x \in left
        \/ \E v \in Users \ {x} : email[v] = email[x]
    BY <1>0, <1>10, <2>1 DEF LeftSound
  <2>3. ASSUME NEW q \in Requests, work[q].at = "link", work[q].user = x, q # r
        PROVE  work'[q].at = "link" /\ work'[q].user = x
    BY <1>4, <2>3
  <2>4. CASE u = x
    <3>1. identity[i] # None /\ identity[i] # x /\ identity[i] \in Users
      BY <1>0, <1>2, <1>5, <1>10, <2>1, <2>4 DEF AccountsTypes
    <3>2. email[identity[i]] = email[x]
      BY <1>0, <1>2, <2>4, <3>1, AnswersAreEmails DEF LinksSound
    <3>3. QED
      BY <3>1, <3>2
  <2>5. QED
    BY <2>2, <2>3, <2>4
<1>11. QED
    BY <1>1, <1>6, <1>7, <1>8, <1>9, <1>10 DEF AccountsInv, LeftSound, Created

(* A step of the states keeps it: a state is consumed once.                *)
LEMMA StatesKeep ==
    ASSUME AccountsInv, NEW s \in States, NEW t \in Registered \cup {"gone"},
           state' = [state EXCEPT ![s] = t],
           UNCHANGED <<email, secret, identity, left>>,
           \/ used' = used /\ (t = "gone" \/ state[s] # "gone")
           \/ used' = [used EXCEPT ![s] = @ + 1] /\ t = "gone" /\ state[s] # "gone",
           \/ work' = work
           \/ \E r \in Requests, w \in WorkType :
                 Set(r, w) /\ WorkSound(w) /\ work[r].at # "link"
    PROVE  AccountsInv'
<1>0. AccountsTypes /\ LinksSound /\ LeftSound /\ \A x \in Requests : WorkSound(work[x])
    BY DEF AccountsInv
<1>1. /\ state' \in [States -> Registered \cup {None, "gone"}]
      /\ used' \in [States -> Nat]
      /\ \A x \in States : state'[x] # "gone" => used'[x] = 0
      /\ \A x \in States : used'[x] <= 1
    BY DEF AccountsInv, AccountsTypes, StatesSound, StateUsedOnce
<1>2. /\ work' \in [Requests -> WorkType]
      /\ \A x \in Requests : WorkSound(work[x])'
      /\ LeftSound'
  <2>1. CASE work' = work
    BY <1>0, <2>1 DEF AccountsTypes, WorkSound, Answered, LeftSound, Created
  <2>2. ASSUME NEW r \in Requests, NEW w \in WorkType, Set(r, w), WorkSound(w), work[r].at # "link"
        PROVE  /\ work' \in [Requests -> WorkType]
               /\ \A x \in Requests : WorkSound(work[x])'
               /\ LeftSound'
    <3>1. /\ work' \in [Requests -> WorkType]
          /\ \A x \in Requests : work'[x] = IF x = r THEN w ELSE work[x]
      BY <1>0, <2>2 DEF AccountsTypes, Set
    <3>2. QED
      BY <1>0, <2>2, <3>1 DEF WorkSound, Answered, LeftSound, Created
  <2>3. QED
    BY <2>1, <2>2
<1>3. QED
    BY <1>0, <1>1, <1>2
       DEF AccountsInv, AccountsTypes, LinksSound, Answered, StatesSound, StateUsedOnce

(* Every step keeps AccountsInv.                                           *)
LEMMA AccountsInvStep == AccountsInv /\ [AccountsNext]_allVars => AccountsInv'
<1> SUFFICES ASSUME AccountsInv, [AccountsNext]_allVars PROVE AccountsInv'
    OBVIOUS
<1>0. \A r \in Requests : work[r] \in WorkType /\ WorkSound(work[r])
    BY DEF AccountsInv, AccountsTypes
<1>1. ASSUME NEW r \in Requests, NEW e \in Emails, NEW p \in Passwords, Register(r, e, p)
      PROVE  AccountsInv'
  <2> DEFINE w == [NoWork EXCEPT !.at = "create", !.email = e, !.secret = p]
  <2>1. w \in WorkType /\ WorkSound(w)
    BY DEF WorkType, WorkSound, NoWork
  <2>2. Set(r, w) /\ UNCHANGED <<email, secret, identity, state, used, left>> /\ work[r].at = "idle"
    BY <1>1 DEF Register, Free, NoWork
  <2> HIDE DEF w
  <2>3. QED
    BY <2>1, <2>2, WorkMoves
<1>2. ASSUME NEW r \in Requests, NEW e \in Emails, NEW p \in Passwords, LoginWithPassword(r, e, p)
      PROVE  AccountsInv'
  <2>1. PICK u \in Users : Set(r, [NoWork EXCEPT !.at = "touch", !.user = u])
    BY <1>2 DEF LoginWithPassword, With
  <2> DEFINE w == [NoWork EXCEPT !.at = "touch", !.user = u]
  <2>2. w \in WorkType /\ WorkSound(w)
    BY DEF WorkType, WorkSound, NoWork
  <2>3. UNCHANGED <<email, secret, identity, state, used, left>> /\ work[r].at = "idle"
    BY <1>2 DEF LoginWithPassword, Free, NoWork
  <2>4. Set(r, w)
    BY <2>1
  <2> HIDE DEF w
  <2>5. QED
    BY <2>2, <2>3, <2>4, WorkMoves
<1>3. ASSUME NEW r \in Requests, TouchUser(r)
      PROVE  AccountsInv'
    BY <1>3, NoWorkIsWork, WorkMoves DEF TouchUser
<1>4. ASSUME NEW r \in Requests, NEW s \in States, NEW p \in Registered, Consume(r, s, p)
      PROVE  AccountsInv'
  <2> DEFINE w == [NoWork EXCEPT !.at = "exchange", !.email = p]
  <2>1. w \in WorkType /\ WorkSound(w)
    BY DEF WorkType, WorkSound, NoWork
  <2>2. /\ state' = [state EXCEPT ![s] = "gone"] /\ state[s] # "gone"
        /\ used' = [used EXCEPT ![s] = @ + 1]
        /\ Set(r, w) \/ work' = work
        /\ work[r].at # "link" /\ UNCHANGED <<email, secret, identity, left>>
    BY <1>4, AccountsAssumption DEF Consume, Free, NoWork
  <2> HIDE DEF w
  <2>3. QED
    BY <2>1, <2>2, StatesKeep
<1>5. ASSUME NEW r \in Requests, ExchangeCode(r)
      PROVE  AccountsInv'
  <2>1. PICK p \in Replies :
            IF Exchange(p) = Failed THEN Set(r, NoWork)
            ELSE Set(r, [NoWork EXCEPT !.at = "identify", !.email = Exchange(p),
                                       !.identity = <<p.provider, p.id>>])
    BY <1>5 DEF ExchangeCode
  <2>2. work[r].at # "link" /\ UNCHANGED <<email, secret, identity, state, used, left>>
    BY <1>5 DEF ExchangeCode
  <2>3. CASE Exchange(p) = Failed
    BY <2>1, <2>2, <2>3, NoWorkIsWork, WorkMoves
  <2>4. CASE Exchange(p) # Failed
    <3> DEFINE w == [NoWork EXCEPT !.at = "identify", !.email = Exchange(p),
                                   !.identity = <<p.provider, p.id>>]
    <3>1. Answered(<<p.provider, p.id>>, Exchange(p))
      BY <2>4 DEF Answered
    <3>2. <<p.provider, p.id>> \in Identities /\ Exchange(p) \in Emails
      BY <3>1, AnswersAreEmails
    <3>3. w \in WorkType /\ WorkSound(w)
      BY <3>1, <3>2 DEF WorkType, WorkSound, NoWork
    <3>4. Set(r, w)
      BY <2>1, <2>4
    <3> HIDE DEF w
    <3>5. QED
      BY <2>2, <3>3, <3>4, WorkMoves
  <2>5. QED
    BY <2>3, <2>4
<1>6. ASSUME NEW r \in Requests, Identify(r)
      PROVE  AccountsInv'
  <2>1. /\ Answered(work[r].identity, work[r].email) /\ work[r].identity \in Identities
        /\ work[r].at = "identify" /\ UNCHANGED <<email, secret, identity, state, used, left>>
    BY <1>0, <1>6, AnswersAreEmails DEF Identify, WorkSound
  <2> DEFINE u == identity[work[r].identity]
  <2>2. u \in Users \cup {None}
    BY <2>1 DEF AccountsInv, AccountsTypes
  <2>3. CASE u # None
    <3> DEFINE w == [work[r] EXCEPT !.at = "touch", !.user = u]
    <3>1. w \in WorkType /\ w.at = "touch" /\ w.user \in Users
      BY <1>0, <2>2, <2>3 DEF WorkType
    <3>2. Set(r, w)
      BY <1>6, <2>3 DEF Identify
    <3> HIDE DEF w
    <3>3. WorkSound(w)
      BY <3>1 DEF WorkSound
    <3>4. QED
      BY <2>1, <3>1, <3>2, <3>3, WorkMoves
  <2>4. CASE u = None
    <3> DEFINE w == [work[r] EXCEPT !.at = "match"]
    <3>1. w \in WorkType /\ w.at = "match" /\ w.identity = work[r].identity /\ w.email = work[r].email
      BY <1>0 DEF WorkType
    <3>2. Set(r, w)
      BY <1>6, <2>4 DEF Identify, Go, Set, AccountsInv, AccountsTypes
    <3> HIDE DEF w
    <3>3. WorkSound(w)
      BY <2>1, <3>1 DEF WorkSound
    <3>4. QED
      BY <2>1, <3>1, <3>2, <3>3, WorkMoves
  <2>5. QED
    BY <2>3, <2>4
<1>7. ASSUME NEW r \in Requests, Match(r)
      PROVE  AccountsInv'
  <2>1. /\ Answered(work[r].identity, work[r].email)
        /\ work[r].at = "match" /\ UNCHANGED <<email, secret, identity, state, used, left>>
    BY <1>0, <1>7 DEF Match, WorkSound
  <2>2. CASE Go(r, "create")
    <3> DEFINE w == [work[r] EXCEPT !.at = "create"]
    <3>1. w \in WorkType /\ w.at = "create" /\ w.identity = work[r].identity /\ w.email = work[r].email
      BY <1>0 DEF WorkType
    <3>2. Set(r, w)
      BY <2>2 DEF Go, Set, AccountsInv, AccountsTypes
    <3> HIDE DEF w
    <3>3. WorkSound(w)
      BY <2>1, <3>1 DEF WorkSound
    <3>4. QED
      BY <2>1, <3>1, <3>2, <3>3, WorkMoves
  <2>3. ASSUME NEW u \in With(work[r].email), Set(r, [work[r] EXCEPT !.at = "link", !.user = u])
        PROVE  AccountsInv'
    <3> DEFINE w == [work[r] EXCEPT !.at = "link", !.user = u]
    <3>1. u \in Users /\ email[u] = work[r].email
      BY <2>3 DEF With
    <3>2. /\ w \in WorkType /\ w.at = "link" /\ w.user = u
          /\ w.identity = work[r].identity /\ w.email = work[r].email
      BY <1>0, <3>1 DEF WorkType
    <3>3. Set(r, w)
      BY <2>3
    <3> HIDE DEF w
    <3>4. WorkSound(w)
      BY <2>1, <3>1, <3>2 DEF WorkSound
    <3>5. QED
      BY <2>1, <3>2, <3>3, <3>4, WorkMoves
  <2>4. QED
    BY <1>7, <2>2, <2>3 DEF Match
<1>8. ASSUME NEW r \in Requests, Abandon(r)
      PROVE  AccountsInv'
  <2>1. /\ Set(r, NoWork) /\ UNCHANGED <<email, secret, identity, state, used>>
        /\ left' = IF work[r].at = "link" THEN left \cup {work[r].user} ELSE left
    BY <1>8 DEF Abandon
  <2>2. CASE work[r].at # "link"
    BY <2>1, <2>2, NoWorkIsWork, WorkMoves
  <2>3. CASE work[r].at = "link"
    <3>1. /\ work' \in [Requests -> WorkType]
          /\ \A x \in Requests : work'[x] = IF x = r THEN NoWork ELSE work[x]
          /\ left' \subseteq Users
      BY <1>0, <2>1, <2>3, NoWorkIsWork DEF Set, AccountsInv, AccountsTypes, WorkSound
    <3>2. \A x \in Requests : WorkSound(work[x])'
      BY <1>0, <2>1, <3>1, NoWorkIsWork DEF WorkSound, Answered
    <3>3. LeftSound'
      BY <2>1, <2>3, <3>1 DEF AccountsInv, LeftSound, Created
    <3>4. QED
      BY <2>1, <3>1, <3>2, <3>3
         DEF AccountsInv, AccountsTypes, LinksSound, Answered, StatesSound, StateUsedOnce
  <2>4. QED
    BY <2>2, <2>3
<1>9. ASSUME NEW s \in States, StateExpires(s) \/ \E p \in Registered : Redirect(s, p)
      PROVE  AccountsInv'
    BY <1>9, StatesKeep, AccountsAssumption DEF StateExpires, Redirect
<1>10. CASE UNCHANGED accounts
    BY <1>10 DEF accounts, AccountsInv, AccountsTypes, WorkSound, Answered, LinksSound, StatesSound,
        StateUsedOnce, LeftSound, Created
<1>11. QED
    BY <1>1, <1>2, <1>3, <1>4, <1>5, <1>6, <1>7, <1>8, <1>9, <1>10, CreationKeeps, LinkKeeps
       DEF AccountsNext, AccountStep, TokenStep, allVars, accounts
-----------------------------------------------------------------------------
(* The inductive invariant of registration, login and OAuth: their types,  *)
(* what each request has found, whose each identity is, and why a user may *)
(* be without one.                                                         *)
THEOREM AccountsInvariant == AccountsSpec => []AccountsInv
    BY AccountsInitially, AccountsInvStep, PTL DEF AccountsSpec

(* Registration, login and OAuth issue tokens as login of RefreshTokens    *)
(* does: the whole implements it.                                          *)
THEOREM AccountsImplementTokens == AccountsSpec => Spec
<1>1. AccountsInit => Init
    BY DEF AccountsInit
<1>2. AccountsInv /\ [AccountsNext]_allVars => [Next]_vars
  <2> SUFFICES ASSUME AccountsInv, [AccountsNext]_allVars PROVE [Next]_vars
    OBVIOUS
  <2>1. CASE TokenStep
    BY <2>1 DEF TokenStep, Next
  <2>2. ASSUME NEW r \in Requests, AccountStep(r)
        PROVE  [Next]_vars
    <3>1. CASE UNCHANGED vars
      BY <3>1
    <3>2. CASE TouchUser(r)
      <4>1. Login(r, work[r].user) /\ work[r].user \in Users
        BY <3>2 DEF TouchUser, AccountsInv, WorkSound
      <4>2. QED
        BY <4>1 DEF Next
    <3>3. CASE CreateUser(r)
      BY <3>3 DEF CreateUser, Next
    <3>4. QED
      BY <2>2, <3>1, <3>2, <3>3
         DEF AccountStep, Register, LoginWithPassword, Consume, ExchangeCode, Identify, Match,
             Link, Abandon
  <2>3. CASE UNCHANGED vars
    BY <2>3
  <2>4. QED
    BY <2>1, <2>2, <2>3 DEF AccountsNext, StateExpires, Redirect, allVars
<1>3. QED
    BY <1>1, <1>2, AccountsInvariant, PTL DEF AccountsSpec, Spec

(* Type correctness for any users, emails, identities, states and tokens.  *)
THEOREM AccountsTypeCorrect == AccountsSpec => []AccountsTypeOK
<1>1. AccountsInv /\ TypeOK => AccountsTypeOK
    BY DEF AccountsInv, AccountsTypes, AccountsTypeOK, WorkType
<1>2. QED
    BY <1>1, AccountsInvariant, AccountsImplementTokens, TokensTypeCorrect, PTL

(* However the requests issue their tokens, a token is only issued for a   *)
(* revoked one of the same user.                                           *)
THEOREM AccountsRotateInOrder == AccountsSpec => []RotationRetiresOld
    BY AccountsImplementTokens, RotationIsOrderly, PTL

(* And a revoked token gains no use.                                       *)
THEOREM AccountsKeepRevoked == AccountsSpec => RevokedGainsNoUse
    BY AccountsImplementTokens, RevokedStaysUnused, PTL

(* One OAuth state lets at most one callback through, however many come.   *)
THEOREM StatesServeOnce == AccountsSpec => []StateUsedOnce
<1>1. AccountsInv => StateUsedOnce
    BY DEF AccountsInv
<1>2. QED
    BY <1>1, AccountsInvariant, PTL

(* A user whom neither a password nor an identity lets in was left by a    *)
(* callback that broke off, or shares the email with another.              *)
THEOREM OnlyRacesStrand == AccountsSpec => []UnreachableOnlyByRace
<1>1. AccountsInv => UnreachableOnlyByRace
    BY DEF AccountsInv, LeftSound, UnreachableOnlyByRace, Busy
<1>2. QED
    BY <1>1, AccountsInvariant, PTL

(* What a step does to an email that is taken: no request comes to create  *)
(* a user with it, and one that creates a user ends with that.             *)
LEMMA TakenOnlyServes ==
    ASSUME AccountsInv, [AccountsNext]_allVars, NEW e \in Emails, With(e) # {}
    PROVE  /\ Creating(e)' \subseteq Creating(e)
           /\ \/ With(e)' \subseteq With(e)
              \/ \E u \in Users, r \in Requests : /\ With(e)' \subseteq With(e) \cup {u}
                                                  /\ r \in Creating(e) \ Creating(e)'
<1>0. /\ work \in [Requests -> WorkType] /\ email \in [Users -> Emails \cup {None}]
      /\ \A r \in Requests : WorkSound(work[r])
    BY DEF AccountsInv, AccountsTypes
<1>1. ASSUME NEW r \in Requests, NEW w,
             Set(r, w) \/ work' = work,
             w.at = "create" => w.email # e
      PROVE  Creating(e)' \subseteq Creating(e) /\ (Set(r, w) => r \notin Creating(e)')
  <2>1. CASE work' = work
    BY <1>0, <1>1, <2>1 DEF Creating, Set
  <2>2. CASE Set(r, w)
    BY <1>0, <1>1, <2>2 DEF Creating, Set
  <2>3. QED
    BY <1>1, <2>1, <2>2
<1>2. ASSUME NEW r \in Requests, CreateUser(r)
      PROVE  /\ Creating(e)' \subseteq Creating(e)
             /\ \/ With(e)' \subseteq With(e)
                \/ \E u \in Users : /\ With(e)' \subseteq With(e) \cup {u}
                                    /\ r \in Creating(e) \ Creating(e)'
  <2>1. PICK u \in Users :
          /\ email' = [email EXCEPT ![u] = work[r].email]
          /\ \/ Set(r, NoWork)
             \/ Set(r, [work[r] EXCEPT !.at = "link", !.user = u])
    BY <1>2 DEF CreateUser
  <2>2. /\ NoWork.at = "idle"
        /\ [work[r] EXCEPT !.at = "link", !.user = u].at = "link"
    BY <1>0 DEF NoWork, WorkType
  <2>3. Creating(e)' \subseteq Creating(e) /\ r \notin Creating(e)'
    BY <1>1, <2>1, <2>2
  <2>4. CASE work[r].email = e
    BY <1>0, <1>2, <2>1, <2>3, <2>4 DEF With, Creating, CreateUser
  <2>5. CASE work[r].email # e
    BY <1>0, <2>1, <2>3, <2>5 DEF With
  <2>6. QED
    BY <2>4, <2>5
<1>3. ASSUME NEW r \in Requests, AccountStep(r), ~CreateUser(r)
      PROVE  Creating(e)' \subseteq Creating(e) /\ With(e)' = With(e)
  <2>0. r \in Requests /\ work[r] \in WorkType
    BY <1>0, <1>3
  <2>1. email' = email
    BY <1>3
       DEF AccountStep, Register, LoginWithPassword, TouchUser, Consume, ExchangeCode, Identify,
           Match, Link, Abandon
  <2>2. ASSUME NEW f \in Emails, NEW p \in Passwords, Register(r, f, p)
        PROVE  Creating(e)' \subseteq Creating(e)
    <3>1. f # e
      BY <2>2 DEF Register
    <3>2. [NoWork EXCEPT !.at = "create", !.email = f, !.secret = p].email = f
      BY DEF NoWork
    <3>3. QED
      BY <1>1, <2>0, <2>2, <3>1, <3>2 DEF Register
  <2>3. CASE Match(r)
    <3>1. CASE With(work[r].email) = {}
      <4>1. work[r].email # e
        BY <3>1
      <4>2. /\ [work[r] EXCEPT !.at = "create"].email = work[r].email
        BY <2>0 DEF WorkType
      <4>3. Set(r, [work[r] EXCEPT !.at = "create"])
        BY <1>0, <2>0, <2>3, <3>1 DEF Match, Go, Set
      <4>4. QED
        BY <1>1, <2>0, <2>1, <4>1, <4>2, <4>3 DEF With
    <3>2. CASE With(work[r].email) # {}
      <4>1. PICK u : Set(r, [work[r] EXCEPT !.at = "link", !.user = u])
        BY <2>3, <3>2 DEF Match
      <4>2. [work[r] EXCEPT !.at = "link", !.user = u].at = "link"
        BY <2>0 DEF WorkType
      <4>3. QED
        BY <1>1, <2>0, <2>1, <4>1, <4>2 DEF With
    <3>3. QED
      BY <3>1, <3>2
  <2>4. CASE TouchUser(r) \/ Abandon(r)
    BY <1>1, <2>0, <2>1, <2>4 DEF TouchUser, Abandon, NoWork, With
  <2>5. CASE ExchangeCode(r)
    <3>0. NoWork.at = "idle"
      BY DEF NoWork
    <3>a. \A f, i : [NoWork EXCEPT !.at = "identify", !.email = f, !.identity = i].at = "identify"
      BY DEF NoWork
    <3>b. PICK f, i :
            \/ Set(r, NoWork)
            \/ Set(r, [NoWork EXCEPT !.at = "identify", !.email = f, !.identity = i])
      BY <2>5 DEF ExchangeCode
    <3>1. PICK w : Set(r, w) /\ w.at # "create"
      BY ONLY <3>0, <3>a, <3>b
    <3>2. QED
      BY <1>1, <2>0, <2>1, <3>1 DEF With
  <2>6. CASE Identify(r)
    <3>1. /\ \A u : [work[r] EXCEPT !.at = "touch", !.user = u].at = "touch"
          /\ [work[r] EXCEPT !.at = "match"].at = "match"
      BY <2>0 DEF WorkType
    <3>2. PICK w : Set(r, w) /\ w.at # "create"
      BY <1>0, <2>0, <2>6, <3>1 DEF Identify, Go, Set
    <3>3. QED
      BY <1>1, <2>0, <2>1, <3>2 DEF With
  <2>7. CASE Link(r)
    <3>1. [work[r] EXCEPT !.at = "touch"].at = "touch"
      BY <2>0 DEF WorkType
    <3>2. PICK w : Set(r, w) /\ w.at # "create"
      BY <1>0, <2>0, <2>7, <3>1 DEF Link, Go, Set
    <3>3. QED
      BY <1>1, <2>0, <2>1, <3>2 DEF With
  <2>8. ASSUME NEW s \in States, NEW p \in Registered, Consume(r, s, p)
        PROVE  Creating(e)' \subseteq Creating(e)
    <3>1. [NoWork EXCEPT !.at = "exchange", !.email = p].at = "exchange"
      BY DEF NoWork
    <3>2. QED
      BY <1>1, <2>0, <2>8, <3>1 DEF Consume
  <2>9. ASSUME NEW f \in Emails, NEW p \in Passwords, LoginWithPassword(r, f, p)
        PROVE  Creating(e)' \subseteq Creating(e)
    <3>1. PICK u \in Users : Set(r, [NoWork EXCEPT !.at = "touch", !.user = u])
      BY <2>9 DEF LoginWithPassword, With
    <3>2. [NoWork EXCEPT !.at = "touch", !.user = u].at = "touch"
      BY DEF NoWork
    <3>3. QED
      BY <1>1, <2>0, <3>1, <3>2
  <2>10. QED
    BY <1>3, <2>1, <2>2, <2>3, <2>4, <2>5, <2>6, <2>7, <2>8, <2>9 DEF AccountStep, With
<1>4. CASE UNCHANGED <<email, work>>
    BY <1>4 DEF With, Creating
<1>5. QED
    BY <1>2, <1>3, <1>4 DEF AccountsNext, TokenStep, accounts, allVars, StateExpires, Redirect

(* Once an email is taken, only the requests that looked it up before can  *)
(* still create a user with it, and each of them one.                      *)
THEOREM TakenEmailStays == AccountsSpec => TakenEmailGainsNoUser
<1>1. ASSUME AccountsInv, [AccountsNext]_allVars, NEW e \in Emails, With(e) # {}
      PROVE  /\ Creating(e)' \subseteq Creating(e)
             /\ Cardinality(With(e)') + Cardinality(Creating(e)')
                    <= Cardinality(With(e)) + Cardinality(Creating(e))
  <2>1. IsFiniteSet(With(e)) /\ IsFiniteSet(Creating(e))
    BY TokensAssumption, AccountsAssumption, FS_Subset DEF With, Creating
  <2>2. /\ Creating(e)' \subseteq Creating(e)
        /\ \/ With(e)' \subseteq With(e)
           \/ \E u \in Users, r \in Requests : /\ With(e)' \subseteq With(e) \cup {u}
                                               /\ r \in Creating(e) \ Creating(e)'
    BY <1>1, TakenOnlyServes
  <2>3. QED
    BY <2>1, <2>2, NoMoreThanBefore
<1>2. AccountsInv /\ [AccountsNext]_allVars =>
        [\A e \in Emails : With(e) # {} =>
            /\ Creating(e)' \subseteq Creating(e)
            /\ Cardinality(With(e)') + Cardinality(Creating(e)')
                   <= Cardinality(With(e)) + Cardinality(Creating(e))]_allVars
    BY <1>1
<1>3. QED
    BY <1>2, AccountsInvariant, PTL DEF AccountsSpec, TakenEmailGainsNoUser
=============================================================================
