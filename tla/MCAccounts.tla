----------------------------- MODULE MCAccounts -----------------------------
(* Accounts on a small instance: each provider with a reply that makes a   *)
(* profile, and two with one that does not.                                *)
EXTENDS Accounts, TLC

CONSTANTS u1, u2, k1, k2, r1, r2, e1, p1, s1, s2

MCUsers == {u1, u2}
MCTokens == {k1, k2}
MCRequests == {r1, r2}
MCEmails == {e1}
MCPasswords == {p1}
MCStates == {s1, s2}

MCRegistered == {"google", "github", "discord", "twitter"}

Reply(provider, mail, primary, verified) ==
    [provider |-> provider, id |-> "id", email |-> mail, primary |-> primary, username |-> e1,
     verified |-> verified, bot |-> FALSE]

MCReplies == {Reply("google", e1, None, FALSE),
              Reply("github", None, e1, FALSE), Reply("github", None, None, FALSE),
              Reply("discord", e1, None, TRUE), Reply("discord", e1, None, FALSE),
              Reply("twitter", None, None, FALSE)}

Symmetric == Permutations(MCUsers) \cup Permutations(MCTokens) \cup Permutations(MCRequests)
                 \cup Permutations(MCStates)
=============================================================================
