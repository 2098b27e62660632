------------------------------ MODULE Accounts ------------------------------
(***************************************************************************)
(* Accounts and OAuth: register, login, oauth_redirect and oauth_callback  *)
(* (features/auth/{handler,use_cases,repository}.rs, oauth/) over          *)
(* TBL_USERS, TBL_OAUTH_ACCOUNTS and TBL_OAUTH_STATES, composed with the   *)
(* refresh tokens they issue.                                              *)
(*                                                                         *)
(* One SQL statement, or one exchange with a provider, per step.  The      *)
(* tables are those the statements name; in the migrations two of them     *)
(* have other names, and expires_at of a state has no default.             *)
(***************************************************************************)
EXTENDS RefreshTokens

CONSTANTS Emails, Passwords,
          States,       \* bound: the OAuth states ever stored
          Registered,   \* the providers build_registry found credentials for
          Replies       \* what providers may answer: [provider, id, email, primary, username, verified, bot]

VARIABLES email,      \* email of each user, None while it is not created
          secret,     \* password_hash, None without one
          identity,   \* the user each identity is linked to: <<provider, provider_user_id>>
          state,      \* each OAuth state: None, its provider, "gone" once it is consumed or expired
          work,       \* what each request does before it issues tokens
          used,       \* history: callbacks that got each state
          left        \* history: users whose request ended before it linked them

accounts == <<email, secret, identity, state, work, used, left>>
allVars == <<vars, accounts>>

Failed == "failed"

Identities == {<<p.provider, p.id>> : p \in Replies}

NoWork == [at |-> "idle", email |-> None, identity |-> None, secret |-> None, user |-> None]
-----------------------------------------------------------------------------
(* exchange_code of each provider: the email of the profile, or Failed.    *)
Google(reply) == IF reply.email = None THEN Failed ELSE reply.email

GitHub(reply) ==
    IF reply.email # None THEN reply.email
    ELSE IF reply.primary # None THEN reply.primary ELSE Failed

Discord(reply) ==
    IF reply.bot \/ reply.email = None \/ ~reply.verified THEN Failed ELSE reply.email

Twitter(reply) == reply.username

Exchange(reply) ==
    CASE reply.provider = "google"  -> Google(reply)
      [] reply.provider = "github"  -> GitHub(reply)
      [] reply.provider = "discord" -> Discord(reply)
      [] reply.provider = "twitter" -> Twitter(reply)

(* What answers are: of a provider there is, with emails where there are   *)
(* any; and an identity has one email as long as the model runs.           *)
ASSUME AccountsAssumption ==
    /\ IsFiniteSet(Users)
    /\ None \notin Emails \cup Passwords \cup Registered /\ None \notin Identities
    /\ Failed \notin Emails /\ "gone" \notin Registered \cup {None}
    /\ \A p \in Replies : /\ p.provider \in {"google", "github", "discord", "twitter"}
                         /\ p.username \in Emails
                         /\ {p.email, p.primary} \subseteq Emails \cup {None}
    /\ \A p, q \in Replies :
          p.provider = q.provider /\ p.id = q.id /\ Failed \notin {Exchange(p), Exchange(q)} =>
              Exchange(p) = Exchange(q)

AccountsInit ==
    /\ Init
    /\ email = [u \in Users |-> None]
    /\ secret = [u \in Users |-> None]
    /\ identity = [i \in Identities |-> None]
    /\ state = [s \in States |-> None]
    /\ work = [r \in Requests |-> NoWork]
    /\ used = [s \in States |-> 0]
    /\ left = {}
-----------------------------------------------------------------------------
Created(u) == email[u] # None
With(e) == {u \in Users : email[u] = e}

Free(r) == work[r] = NoWork /\ req[r] = Idle

Set(r, w) == work' = [work EXCEPT ![r] = w]
Go(r, place) == work' = [work EXCEPT ![r].at = place]

(* A wrong variant: the email is not looked up.                            *)
RegisterUnchecked(r, e, p) ==
    /\ Free(r)
    /\ Set(r, [NoWork EXCEPT !.at = "create", !.email = e, !.secret = p])
    /\ UNCHANGED <<vars, email, secret, identity, state, used, left>>

(* register: find_user_by_email.                                           *)
Register(r, e, p) ==
    /\ Free(r)
    /\ With(e) = {}
    /\ Set(r, [NoWork EXCEPT !.at = "create", !.email = e, !.secret = p])
    /\ UNCHANGED <<vars, email, secret, identity, state, used, left>>

(* create_user, of register and of oauth_login_or_register.  The           *)
(* organization is a new id, so that the unique index on organization and  *)
(* email refuses nobody.                                                   *)
CreateUser(r) ==
    /\ work[r].at = "create"
    /\ \E u \in Users :
          /\ ~Created(u)
          /\ email' = [email EXCEPT ![u] = work[r].email]
          /\ secret' = [secret EXCEPT ![u] = work[r].secret]
          /\ \/ /\ work[r].identity = None
                /\ Login(r, u)
                /\ Set(r, NoWork)
             \/ /\ work[r].identity # None
                /\ Set(r, [work[r] EXCEPT !.at = "link", !.user = u])
                /\ UNCHANGED vars
    /\ UNCHANGED <<identity, state, used, left>>

(* login: find_user_by_email takes one row of those with the email, and    *)
(* the password is that row's.                                             *)
LoginWithPassword(r, e, p) ==
    /\ Free(r)
    /\ \E u \in With(e) :
          /\ secret[u] = p
          /\ Set(r, [NoWork EXCEPT !.at = "touch", !.user = u])
    /\ UNCHANGED <<vars, email, secret, identity, state, used, left>>

(* update_last_login, then issue_tokens.                                   *)
TouchUser(r) ==
    /\ work[r].at = "touch"
    /\ Login(r, work[r].user)
    /\ Set(r, NoWork)
    /\ UNCHANGED <<email, secret, identity, state, used, left>>
-----------------------------------------------------------------------------
(* oauth_redirect: store_oauth_state.                                      *)
Redirect(s, p) ==
    /\ p \in Registered
    /\ state[s] = None
    /\ state' = [state EXCEPT ![s] = p]
    /\ UNCHANGED <<vars, email, secret, identity, work, used, left>>

StateExpires(s) ==
    /\ state[s] \in Registered
    /\ state' = [state EXCEPT ![s] = "gone"]
    /\ UNCHANGED <<vars, email, secret, identity, work, used, left>>

(* A wrong variant: the state is read, and deleted when all is done.       *)
ConsumeByReading(r, s, p) ==
    /\ Free(r)
    /\ state[s] \in Registered
    /\ used' = [used EXCEPT ![s] = @ + 1]
    /\ IF state[s] = p THEN Set(r, [NoWork EXCEPT !.at = "exchange", !.email = p])
       ELSE UNCHANGED work
    /\ UNCHANGED <<vars, email, secret, identity, state, left>>

(* oauth_callback: consume_oauth_state deletes the state whichever         *)
(* provider's callback this is; then the provider must be the state's.     *)
Consume(r, s, p) ==
    /\ Free(r)
    /\ state[s] \in Registered
    /\ state' = [state EXCEPT ![s] = "gone"]
    /\ used' = [used EXCEPT ![s] = @ + 1]
    /\ IF state[s] = p THEN Set(r, [NoWork EXCEPT !.at = "exchange", !.email = p])
       ELSE UNCHANGED work
    /\ UNCHANGED <<vars, email, secret, identity, left>>

(* exchange_code: a profile, or the callback fails.                        *)
ExchangeCode(r) ==
    /\ work[r].at = "exchange"
    /\ \E reply \in Replies :
          /\ reply.provider = work[r].email
          /\ IF Exchange(reply) = Failed THEN Set(r, NoWork)
             ELSE Set(r, [NoWork EXCEPT !.at = "identify", !.email = Exchange(reply),
                                        !.identity = <<reply.provider, reply.id>>])
    /\ UNCHANGED <<vars, email, secret, identity, state, used, left>>

(* find_oauth_account, then find_user_by_id of a user that is known.       *)
Identify(r) ==
    /\ work[r].at = "identify"
    /\ LET u == identity[work[r].identity]
       IN  IF u # None THEN Set(r, [work[r] EXCEPT !.at = "touch", !.user = u])
           ELSE Go(r, "match")
    /\ UNCHANGED <<vars, email, secret, identity, state, used, left>>

(* find_user_by_email for the email of the profile.                        *)
Match(r) ==
    /\ work[r].at = "match"
    /\ \/ /\ With(work[r].email) = {}
          /\ Go(r, "create")
       \/ \E u \in With(work[r].email) : Set(r, [work[r] EXCEPT !.at = "link", !.user = u])
    /\ UNCHANGED <<vars, email, secret, identity, state, used, left>>

(* A wrong variant: the callback goes on without linking.                  *)
LinkNothing(r) ==
    /\ work[r].at = "link"
    /\ Go(r, "touch")
    /\ UNCHANGED <<vars, email, secret, identity, state, used, left>>

(* A wrong variant: the identity is given the user's email for its id.     *)
LinkEmail(r) ==
    /\ work[r].at = "link"
    /\ identity' = [identity EXCEPT ![work[r].identity] = work[r].email]
    /\ Go(r, "touch")
    /\ UNCHANGED <<vars, email, secret, state, used, left>>

(* create_oauth_account: ON CONFLICT DO NOTHING, and nobody asks whether   *)
(* there was one.                                                          *)
Link(r) ==
    /\ work[r].at = "link"
    /\ identity' = [identity EXCEPT ![work[r].identity] = IF @ = None THEN work[r].user ELSE @]
    /\ Go(r, "touch")
    /\ UNCHANGED <<vars, email, secret, state, used, left>>

(* A statement or an exchange fails, or the client goes away.              *)
Abandon(r) ==
    /\ work[r] # NoWork
    /\ Set(r, NoWork)
    /\ left' = IF work[r].at = "link" THEN left \cup {work[r].user} ELSE left
    /\ UNCHANGED <<vars, email, secret, identity, state, used>>
-----------------------------------------------------------------------------
(* What RefreshTokens models, but for Login, which the requests above end  *)
(* with.                                                                   *)
TokenStep ==
    /\ \/ \E r \in Requests :
             \/ \E k \in Tokens : Free(r) /\ Refresh(r, k)
             \/ Revoke(r) \/ LoadUser(r) \/ Issue(r) \/ Fail(r)
       \/ \E k \in Tokens : Logout(k) \/ Expire(k)
       \/ \E u \in Users : LogoutAll(u)
    /\ UNCHANGED accounts

AccountStep(r) ==
    \/ \E e \in Emails, p \in Passwords : Register(r, e, p) \/ LoginWithPassword(r, e, p)
    \/ \E s \in States, p \in Registered : Consume(r, s, p)
    \/ CreateUser(r) \/ TouchUser(r) \/ ExchangeCode(r) \/ Identify(r) \/ Match(r) \/ Link(r)
    \/ Abandon(r)

AccountsNext ==
    \/ TokenStep
    \/ \E r \in Requests : AccountStep(r)
    \/ \E s \in States : StateExpires(s) \/ \E p \in Registered : Redirect(s, p)

AccountsSpec == AccountsInit /\ [][AccountsNext]_allVars
-----------------------------------------------------------------------------
(* The variables have their types, those of the tokens included.           *)
AccountsTypeOK ==
    /\ TypeOK
    /\ email \in [Users -> Emails \cup {None}]
    /\ secret \in [Users -> Passwords \cup {None}]
    /\ identity \in [Identities -> Users \cup {None}]
    /\ state \in [States -> Registered \cup {None, "gone"}]
    /\ used \in [States -> Nat]
    /\ left \subseteq Users
    /\ work \in [Requests -> [at : {"idle", "create", "touch", "exchange", "identify", "match", "link"},
                              email : Emails \cup Registered \cup {None},
                              identity : Identities \cup {None},
                              secret : Passwords \cup {None}, user : Users \cup {None}]]

(* "DELETE and return in one query - prevents double-use": one state lets  *)
(* at most one callback through, however many come with it at once.        *)
StateUsedOnce == \A s \in States : used[s] <= 1

Creating(e) == {r \in Requests : work[r].at = "create" /\ work[r].email = e}

(* Once an email is taken no further request comes to create a user for    *)
(* it: two users have one email only when the requests that looked it up   *)
(* were under way together, and then never more than there were requests.  *)
TakenEmailGainsNoUser ==
    [][\A e \in Emails : With(e) # {} =>
          /\ Creating(e)' \subseteq Creating(e)
          /\ Cardinality(With(e)') + Cardinality(Creating(e)')
                <= Cardinality(With(e)) + Cardinality(Creating(e))]_allVars

Busy(u) == \E r \in Requests : work[r].user = u

(* A user created by a callback has no password, so that only an identity  *)
(* lets him in again.  One is without it only when his callback broke off  *)
(* before the link, or lost the identity to a callback that overlapped it  *)
(* and created another user for the same email.                            *)
UnreachableOnlyByRace ==
    \A u \in Users :
        Created(u) /\ secret[u] = None /\ ~Busy(u) /\ (\A i \in Identities : identity[i] # u) =>
            u \in left \/ \E v \in Users \ {u} : email[v] = email[u]
=============================================================================
