---------------------------- MODULE RefreshTokens ----------------------------
(***************************************************************************)
(* Refresh tokens: issue_tokens, refresh, logout and logout_all of         *)
(* AuthUseCases (features/auth/use_cases.rs) over TBL_REFRESH_TOKENS.      *)
(*                                                                         *)
(* Requests run concurrently, one SQL statement per step.  A request that  *)
(* is refused at its first statement changes nothing and is not a step.    *)
(***************************************************************************)
EXTENDS Naturals, FiniteSets

CONSTANTS Users,
          Tokens,      \* bound: the tokens ever issued
          Requests,    \* requests served at the same time
          None         \* no user, no token

ASSUME TokensAssumption ==
    /\ None \notin Users \cup Tokens
    /\ IsFiniteSet(Tokens) /\ IsFiniteSet(Requests)

VARIABLES owner,     \* user_id of each stored token, None while it is not issued
          revoked,   \* revoked_at is set
          expired,   \* expires_at has passed
          parent,    \* history: the token whose refresh issued it, None after a login
          req        \* each request: where it stands, the user and the token it works for

table == <<owner, revoked, expired, parent>>
vars == <<owner, revoked, expired, parent, req>>

Idle == [at |-> "idle", user |-> None, token |-> None]

Init ==
    /\ owner = [k \in Tokens |-> None]
    /\ revoked = {}
    /\ expired = {}
    /\ parent = [k \in Tokens |-> None]
    /\ req = [r \in Requests |-> Idle]
-----------------------------------------------------------------------------
Stored(k) == owner[k] # None
Live(k) == Stored(k) /\ k \notin revoked \cup expired

Arrive(r, place, u, k) ==
    /\ req[r] = Idle
    /\ req' = [req EXCEPT ![r] = [at |-> place, user |-> u, token |-> k]]

Goto(r, place) == req' = [req EXCEPT ![r].at = place]

End(r) == req' = [req EXCEPT ![r] = Idle]

(* login, once the password and update_last_login are through; register    *)
(* and the OAuth callback come to issue_tokens in the same way.            *)
Login(r, u) ==
    /\ Arrive(r, "issue", u, None)
    /\ UNCHANGED table

FindIgnoringRevoked(k) == Stored(k) /\ k \notin expired   \* a wrong variant: revoked_at is not asked for

(* find_refresh_token                                                      *)
Find(k) == Live(k)

Refresh(r, k) ==
    /\ Find(k)
    /\ Arrive(r, "revoke", owner[k], k)
    /\ UNCHANGED table

RevokeNothing(r) ==     \* a wrong variant: the old token is left as it is
    /\ req[r].at = "revoke"
    /\ Goto(r, "load")
    /\ UNCHANGED table

(* revoke_refresh_token: whether a row was still there to revoke is not    *)
(* looked at.                                                              *)
Revoke(r) ==
    /\ req[r].at = "revoke"
    /\ revoked' = revoked \cup {req[r].token}
    /\ Goto(r, "load")
    /\ UNCHANGED <<owner, expired, parent>>

(* find_user_by_id: a missing user is NotFound.                            *)
LoadUser(r) ==
    /\ req[r].at = "load"
    /\ Goto(r, "issue") \/ End(r)
    /\ UNCHANGED table

(* store_refresh_token with a hash not seen before.                        *)
Issue(r) ==
    /\ req[r].at = "issue"
    /\ \E n \in Tokens :
          /\ ~Stored(n)
          /\ owner' = [owner EXCEPT ![n] = req[r].user]
          /\ parent' = [parent EXCEPT ![n] = req[r].token]
    /\ End(r)
    /\ UNCHANGED <<revoked, expired>>

Logout(k) ==
    /\ Stored(k)
    /\ revoked' = revoked \cup {k}
    /\ UNCHANGED <<owner, expired, parent, req>>

(* revoke_all_user_tokens; a refresh of the user that is past its          *)
(* find_refresh_token still issues its token afterwards.                   *)
LogoutAll(u) ==
    /\ revoked' = revoked \cup {k \in Tokens : owner[k] = u}
    /\ UNCHANGED <<owner, expired, parent, req>>

Expire(k) ==
    /\ Stored(k)
    /\ expired' = expired \cup {k}
    /\ UNCHANGED <<owner, revoked, parent, req>>

(* A statement fails or the client goes away.  A refresh that ends between *)
(* Revoke and Issue leaves its user without a token.                       *)
Fail(r) ==
    /\ req[r].at # "idle"
    /\ End(r)
    /\ UNCHANGED table
-----------------------------------------------------------------------------
Next ==
    \/ \E r \in Requests :
          \/ \E u \in Users : Login(r, u)
          \/ \E k \in Tokens : Refresh(r, k)
          \/ Revoke(r) \/ LoadUser(r) \/ Issue(r) \/ Fail(r)
    \/ \E k \in Tokens : Logout(k) \/ Expire(k)
    \/ \E u \in Users : LogoutAll(u)

Spec == Init /\ [][Next]_vars
-----------------------------------------------------------------------------
TypeOK ==
    /\ owner \in [Tokens -> Users \cup {None}]
    /\ revoked \subseteq Tokens
    /\ expired \subseteq Tokens
    /\ parent \in [Tokens -> Tokens \cup {None}]
    /\ req \in [Requests -> [at : {"idle", "revoke", "load", "issue"},
                             user : Users \cup {None}, token : Tokens \cup {None}]]

Successors(k) == {n \in Tokens : parent[n] = k}

(* Refreshes that have found token k valid and may still issue a token.    *)
UnderWay(k) == {r \in Requests : req[r].token = k}

(* "Rotate - revoke old, issue new": no token is issued for another unless *)
(* that one is revoked and belongs to the same user, wherever the request  *)
(* is interrupted and whatever overlaps it.                                *)
RotationRetiresOld ==
    \A n \in Tokens : parent[n] # None =>
        /\ parent[n] \in revoked
        /\ owner[parent[n]] = owner[n]
        /\ parent[n] # n

(* Once a token is revoked, by rotation, logout or logout_all, no request  *)
(* comes to use it any more: what it still yields was already under way.   *)
RevokedGainsNoUse ==
    [][\A k \in revoked :
          /\ UnderWay(k)' \subseteq UnderWay(k)
          /\ Cardinality(Successors(k)') + Cardinality(UnderWay(k)')
                <= Cardinality(Successors(k)) + Cardinality(UnderWay(k))]_vars

(* "issue new (prevents token reuse)": a refresh token is good for one     *)
(* refresh.                                                                *)
RotationPreventsReuse == \A k \in Tokens : Cardinality(Successors(k)) <= 1
=============================================================================
