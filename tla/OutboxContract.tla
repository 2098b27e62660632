--------------------------- MODULE OutboxContract ---------------------------
(***************************************************************************)
(* What the transactional outbox promises to the features that publish     *)
(* into it, without workers, batches, rows or errors: an accepted event    *)
(* gets at most MaxAttempts delivery attempts, at most one email goes out  *)
(* in each attempt, an event is reported delivered only after an email     *)
(* went out, and a delivered or abandoned event is never attempted again.  *)
(* Module Outbox implements it.                                            *)
(***************************************************************************)
EXTENDS Naturals

CONSTANTS Events,       \* the events that may be published
          MaxAttempts   \* attempts an event is worth

VARIABLES phase,    \* where each event stands
          budget,   \* attempts each event has left
          open,     \* TRUE while an attempt may still send its one email
          mails     \* emails that went out for each event

vars == <<phase, budget, open, mails>>

Phases == {"new", "queued", "attempting", "delivered", "abandoned"}

Init == /\ phase = [e \in Events |-> "new"]
        /\ budget = [e \in Events |-> MaxAttempts]
        /\ open = [e \in Events |-> FALSE]
        /\ mails = [e \in Events |-> 0]

Accept(e) == /\ phase[e] = "new"
             /\ phase' = [phase EXCEPT ![e] = "queued"]
             /\ UNCHANGED <<budget, open, mails>>

(* A set of queued events is taken together; each spends one attempt.  The *)
(* taker may never get to try some of them (those do not become open).     *)
Attempt(S, Opened) ==
    /\ S # {}
    /\ Opened \subseteq S
    /\ \A e \in S : phase[e] = "queued" /\ budget[e] > 0
    /\ phase' = [e \in Events |-> IF e \in S THEN "attempting" ELSE phase[e]]
    /\ budget' = [e \in Events |-> IF e \in S THEN budget[e] - 1 ELSE budget[e]]
    /\ open' = [e \in Events |-> IF e \in Opened THEN TRUE ELSE open[e]]
    /\ UNCHANGED mails

(* The one email of an open attempt goes out, or it does not.              *)
Try(e) == /\ phase[e] = "attempting"
          /\ open[e]
          /\ open' = [open EXCEPT ![e] = FALSE]
          /\ \/ mails' = [mails EXCEPT ![e] = @ + 1]
             \/ UNCHANGED mails
          /\ UNCHANGED <<phase, budget>>

(* Attempts of S are given up without having tried: they stay attempting.  *)
Drop(S) == /\ \A e \in S : open[e]
           /\ open' = [e \in Events |-> IF e \in S THEN FALSE ELSE open[e]]
           /\ UNCHANGED <<phase, budget, mails>>

(* An attempt that was tried is concluded; the concluding party may drop   *)
(* the other attempts S it had taken.                                      *)
Conclude(e, S) ==
    /\ phase[e] = "attempting"
    /\ ~open[e]
    /\ \A d \in S : open[d]
    /\ \/ mails[e] > 0 /\ phase' = [phase EXCEPT ![e] = "delivered"]
       \/ phase' = [phase EXCEPT ![e] = "abandoned"]
       \/ budget[e] > 0 /\ phase' = [phase EXCEPT ![e] = "queued"]
    /\ open' = [d \in Events |-> IF d \in S THEN FALSE ELSE open[d]]
    /\ UNCHANGED <<budget, mails>>

Next == \/ \E e \in Events : Accept(e) \/ Try(e)
        \/ \E S \in SUBSET Events :
              \/ \E Opened \in SUBSET S : Attempt(S, Opened)
              \/ Drop(S)
              \/ \E e \in Events : Conclude(e, S)

Spec == Init /\ [][Next]_vars
=============================================================================
