------------------------------- MODULE Outbox -------------------------------
(***************************************************************************)
(* The transactional outbox: rows of TBL_OUTBOX_EVENTS written by          *)
(* OutboxPublisher and consumed by the OutboxWorker tasks of one or more   *)
(* server processes (services/outbox/{publisher,worker}.rs).               *)
(*                                                                         *)
(* Each SQL statement is one atomic step; a worker may be killed between   *)
(* any two of them.  A statement may fail without effect, or take effect   *)
(* and fail to report it (the connection drops).  The same holds for the   *)
(* email provider.  BATCH_SIZE rows at most are claimed by one statement.  *)
(***************************************************************************)
EXTENDS Naturals, FiniteSets

CONSTANTS Events,        \* identities of the rows that may be inserted
          Undecodable,   \* rows whose payload serde_json cannot turn into an OutboxEvent
          Workers,       \* one worker task per server process
          NoEvent,       \* "no row in hand"
          BatchSize,     \* BATCH_SIZE
          MaxAttempts    \* MAX_ATTEMPTS

ASSUME OutboxAssumption ==
    /\ Undecodable \subseteq Events
    /\ NoEvent \notin Events
    /\ BatchSize \in Nat \ {0}
    /\ MaxAttempts \in Nat \ {0}

VARIABLES status,    \* column STATUS; "absent" before the row is inserted
          attempts,  \* column ATTEMPTS
          due,       \* SCHEDULED_AT <= NOW()
          pc,        \* where each worker task stands
          todo,      \* claimed rows the worker's `for row in rows` has not reached
          cur,       \* the row the worker is dispatching or has yet to record
          outcome,   \* what came of dispatching cur
          mails,     \* history: emails the provider accepted, per row
          unheard    \* history: of these, the ones the worker was told had failed

rows == <<status, attempts, due>>
tasks == <<pc, todo, cur, outcome>>
history == <<mails, unheard>>
vars == <<status, attempts, due, pc, todo, cur, outcome, mails, unheard>>

Statuses == {"absent", "pending", "processing", "done", "failed"}

Init ==
    /\ status = [e \in Events |-> "absent"]
    /\ attempts = [e \in Events |-> 0]
    /\ due = [e \in Events |-> FALSE]
    /\ pc = [w \in Workers |-> "down"]
    /\ todo = [w \in Workers |-> {}]
    /\ cur = [w \in Workers |-> NoEvent]
    /\ outcome = [w \in Workers |-> "none"]
    /\ mails = [e \in Events |-> 0]
    /\ unheard = [e \in Events |-> 0]
-----------------------------------------------------------------------------
(* The publisher, the clock and the life of a worker task.                 *)

(* publish / publish_in_tx, seen when the transaction commits; the column  *)
(* defaults are 'pending', 0 attempts, scheduled now.                      *)
Publish(e) ==
    /\ status[e] = "absent"
    /\ status' = [status EXCEPT ![e] = "pending"]
    /\ attempts' = [attempts EXCEPT ![e] = 0]
    /\ due' = [due EXCEPT ![e] = TRUE]
    /\ UNCHANGED <<tasks, history>>

(* The backoff of a rescheduled row elapses.                               *)
ComesDue(e) ==
    /\ status[e] = "pending"
    /\ ~due[e]
    /\ due' = [due EXCEPT ![e] = TRUE]
    /\ UNCHANGED <<status, attempts, tasks, history>>

Start(w) ==
    /\ pc[w] = "down"
    /\ pc' = [pc EXCEPT ![w] = "idle"]
    /\ UNCHANGED <<rows, todo, cur, outcome, history>>

(* The worker goes back to waiting for a tick, forgetting what it holds.   *)
LeaveBatch(w, next) ==
    /\ pc' = [pc EXCEPT ![w] = next]
    /\ todo' = [todo EXCEPT ![w] = {}]
    /\ cur' = [cur EXCEPT ![w] = NoEvent]
    /\ outcome' = [outcome EXCEPT ![w] = "none"]

(* The process is killed: nothing it held in memory survives.              *)
Crash(w) ==
    /\ pc[w] # "down"
    /\ LeaveBatch(w, "down")
    /\ UNCHANGED <<rows, history>>
-----------------------------------------------------------------------------
(* process_batch: claim.                                                   *)

ClaimableIgnoringStatus(e) ==    \* a wrong variant: the claim forgets STATUS = 'pending'
    /\ status[e] \in {"pending", "processing"}
    /\ attempts[e] < MaxAttempts
    /\ due[e]

ClaimableUnlimited(e) ==         \* a wrong variant: nor looks at ATTEMPTS
    /\ status[e] \in {"pending", "processing"}
    /\ due[e]

Claimable(e) ==
    /\ status[e] = "pending"
    /\ attempts[e] < MaxAttempts
    /\ due[e]

(* What one claim may return.  The LIMIT is kept; which of the due rows    *)
(* come first (ORDER BY scheduled_at) is left open, and a claim may return *)
(* fewer than the limit because SKIP LOCKED passes over rows another       *)
(* worker's uncommitted claim holds.                                       *)
Batches == {S \in SUBSET {e \in Events : Claimable(e)} :
                S # {} /\ Cardinality(S) <= BatchSize}

ClaimRows(S) ==
    /\ status' = [e \in Events |-> IF e \in S THEN "processing" ELSE status[e]]
    /\ attempts' = [e \in Events |-> IF e \in S THEN attempts[e] + 1 ELSE attempts[e]]
    /\ UNCHANGED due

Claim(w) ==
    /\ pc[w] = "idle"
    /\ \E S \in Batches :
          /\ ClaimRows(S)
          /\ pc' = [pc EXCEPT ![w] = "batch"]
          /\ todo' = [todo EXCEPT ![w] = S]
    /\ UNCHANGED <<cur, outcome, history>>

(* The UPDATE commits but fetch_all reports an error: `?` leaves           *)
(* process_batch, run logs it and waits for the next tick.                 *)
ClaimUnheard(w) ==
    /\ pc[w] = "idle"
    /\ \E S \in Batches : ClaimRows(S)
    /\ UNCHANGED <<tasks, history>>
-----------------------------------------------------------------------------
(* process_batch: decode and dispatch one row.                             *)

(* A wrong variant: process_batch handles one row and returns, `return Ok(())` for  *)
(* `continue`.                                                             *)
TakeFirstOnly(w, e, place, result) ==
    /\ pc[w] = "batch"
    /\ e \in todo[w]
    /\ pc' = [pc EXCEPT ![w] = place]
    /\ todo' = [todo EXCEPT ![w] = {}]
    /\ cur' = [cur EXCEPT ![w] = e]
    /\ outcome' = [outcome EXCEPT ![w] = result]
    /\ UNCHANGED <<rows, history>>

(* Picks the next row out of those claimed.                                *)
Take(w, e, place, result) ==
    /\ pc[w] = "batch"
    /\ e \in todo[w]
    /\ pc' = [pc EXCEPT ![w] = place]
    /\ todo' = [todo EXCEPT ![w] = @ \ {e}]
    /\ cur' = [cur EXCEPT ![w] = e]
    /\ outcome' = [outcome EXCEPT ![w] = result]
    /\ UNCHANGED <<rows, history>>

DecodeFails(w, e) == e \in Undecodable /\ Take(w, e, "record", "undecodable")

(* The request to the provider leaves; the task awaits its answer without  *)
(* a timeout, neither its own nor one of the HTTP client.                  *)
CallProvider(w, e) == e \notin Undecodable /\ Take(w, e, "sending", "none")

Dispatch(w) == \E e \in todo[w] : DecodeFails(w, e) \/ CallProvider(w, e)

(* The call ends.  What the provider did is seen at this step; a worker    *)
(* killed after the provider acted is one answered, then killed.           *)
Ends(w, result) ==
    /\ pc[w] = "sending"
    /\ pc' = [pc EXCEPT ![w] = "record"]
    /\ outcome' = [outcome EXCEPT ![w] = result]
    /\ UNCHANGED <<rows, todo, cur>>

DispatchOk(w) ==
    /\ Ends(w, "sent")
    /\ mails' = [mails EXCEPT ![cur[w]] = @ + 1]
    /\ UNCHANGED unheard

(* An error from the provider: nothing was sent, or it was accepted and    *)
(* the answer was lost.                                                    *)
DispatchErr(w) ==
    /\ Ends(w, "error")
    /\ \/ UNCHANGED history
       \/ /\ mails' = [mails EXCEPT ![cur[w]] = @ + 1]
          /\ unheard' = [unheard EXCEPT ![cur[w]] = @ + 1]

CallEnds(w) == DispatchOk(w) \/ DispatchErr(w)
-----------------------------------------------------------------------------
(* process_batch: record the outcome of the row in hand.                   *)

(* The loop turns to the next claimed row, or ends.                        *)
NextRow(w) ==
    /\ pc' = [pc EXCEPT ![w] = IF todo[w] = {} THEN "idle" ELSE "batch"]
    /\ cur' = [cur EXCEPT ![w] = NoEvent]
    /\ outcome' = [outcome EXCEPT ![w] = "none"]
    /\ UNCHANGED todo

(* The statement took effect; `?` abandons the rest of the batch if its    *)
(* answer was lost.                                                        *)
WrittenHeard(w) == NextRow(w)
WrittenUnheard(w) == LeaveBatch(w, "idle")

MarkDone(w) ==
    /\ pc[w] = "record"
    /\ outcome[w] = "sent"
    /\ status' = [status EXCEPT ![cur[w]] = "done"]
    /\ WrittenHeard(w) \/ WrittenUnheard(w)
    /\ UNCHANGED <<attempts, due, history>>

OutOfAttemptsLate(e) == attempts[e] > MaxAttempts   \* a wrong variant: > for >=
(* row.attempts is the value the claim returned; only the holder of a row  *)
(* is between its claim and here, so it is still the column's value.       *)
OutOfAttempts(e) == attempts[e] >= MaxAttempts

MarkFailed(w) ==
    /\ pc[w] = "record"
    /\ \/ outcome[w] = "undecodable"
       \/ outcome[w] = "error" /\ OutOfAttempts(cur[w])
    /\ status' = [status EXCEPT ![cur[w]] = "failed"]
    /\ WrittenHeard(w) \/ WrittenUnheard(w)
    /\ UNCHANGED <<attempts, due, history>>

(* scheduled_at moves 2^attempts minutes ahead; ComesDue ends the wait.    *)
Reschedule(w) ==
    /\ pc[w] = "record"
    /\ outcome[w] = "error"
    /\ ~OutOfAttempts(cur[w])
    /\ status' = [status EXCEPT ![cur[w]] = "pending"]
    /\ due' = [due EXCEPT ![cur[w]] = FALSE]
    /\ WrittenHeard(w) \/ WrittenUnheard(w)
    /\ UNCHANGED <<attempts, history>>

(* The statement failed without effect.                                    *)
WriteFails(w) ==
    /\ pc[w] = "record"
    /\ LeaveBatch(w, "idle")
    /\ UNCHANGED <<rows, history>>

Record(w) == MarkDone(w) \/ MarkFailed(w) \/ Reschedule(w) \/ WriteFails(w)
-----------------------------------------------------------------------------
WorkerNext(w) == \/ Start(w)
                 \/ Crash(w)
                 \/ Claim(w)
                 \/ ClaimUnheard(w)
                 \/ Dispatch(w)
                 \/ CallEnds(w)
                 \/ Record(w)

Next == \/ \E e \in Events : Publish(e) \/ ComesDue(e)
        \/ \E w \in Workers : WorkerNext(w)

Spec == Init /\ [][Next]_vars

(* A killed process is restarted, the clock runs, and a running worker     *)
(* goes on with its batch.  Strong fairness of Claim: a worker that keeps  *)
(* being restarted survives until its next tick now and then.  Record      *)
(* assumes that the server's own database answers a statement or fails it. *)
(* Nothing is assumed of CallEnds: no timeout bounds a call to the         *)
(* provider.                                                               *)
Fairness == /\ \A e \in Events : WF_vars(ComesDue(e))
            /\ \A w \in Workers : /\ WF_vars(Start(w))
                                  /\ SF_vars(Claim(w))
                                  /\ WF_vars(Dispatch(w))
                                  /\ WF_vars(Record(w))

FairSpec == Spec /\ Fairness
-----------------------------------------------------------------------------
TypeOK ==
    /\ status \in [Events -> Statuses]
    /\ attempts \in [Events -> 0..MaxAttempts]
    /\ due \in [Events -> BOOLEAN]
    /\ pc \in [Workers -> {"down", "idle", "batch", "sending", "record"}]
    /\ todo \in [Workers -> SUBSET Events]
    /\ cur \in [Workers -> Events \cup {NoEvent}]
    /\ outcome \in [Workers -> {"none", "undecodable", "sent", "error"}]
    /\ mails \in [Events -> Nat]
    /\ unheard \in [Events -> Nat]

(* The rows a worker has claimed and not yet recorded.                     *)
Held(w) == todo[w] \cup ({cur[w]} \ {NoEvent})

(* A row in status 'processing' that no running worker knows of.           *)
Stranded(e) == status[e] = "processing" /\ \A w \in Workers : e \notin Held(w)

(* The comment on the claim statement: a row is in the hands of one worker *)
(* at most, and is then in status 'processing'.                            *)
ExclusiveClaim ==
    /\ \A v, w \in Workers : v # w => Held(v) \cap Held(w) = {}
    /\ \A w \in Workers : \A e \in Held(w) : status[e] = "processing"

(* No pending row is beyond the reach of the claim: a row whose attempts   *)
(* are spent has been given up as 'failed', not left 'pending'.            *)
NoDeadPending == \A e \in Events : status[e] = "pending" => attempts[e] < MaxAttempts

(* The worker sends no duplicate of its own making: every email of a row   *)
(* but the last is one whose acceptance the provider failed to report.     *)
(* A crash or a failed UPDATE never causes a second email.                 *)
DuplicateOnlyIfUnheard == \A e \in Events : mails[e] <= unheard[e] + 1

(* What the final states claim is true: a 'done' row had an email          *)
(* accepted, a 'failed' row had no reported success and either could not   *)
(* be decoded or was tried MAX_ATTEMPTS times.                             *)
FinalStatusTruthful ==
    \A e \in Events :
        /\ status[e] = "done" => mails[e] = unheard[e] + 1
        /\ status[e] = "failed" => /\ mails[e] = unheard[e]
                                   /\ e \in Undecodable \/ attempts[e] = MaxAttempts

(* Nothing resets a row left in 'processing': once no worker holds it,     *)
(* it stays there (no sweep, no lease, no retry of such rows exists).      *)
StrandedIsForever == [][\A e \in Events : Stranded(e) => Stranded(e)']_vars

(* Without a crash, a lost answer or a failed statement no claimed row is  *)
(* forgotten: the loop visits every row of its batch.                      *)
StrandedOnlyByFault ==
    [][\A e \in Events : ~Stranded(e) /\ Stranded(e)' =>
          \E w \in Workers : \/ Crash(w) \/ ClaimUnheard(w) \/ WriteFails(w)
                             \/ pc[w] = "record" /\ WrittenUnheard(w)]_vars

(* A task that awaits an answer of the provider that never comes.          *)
AwaitsForGood(w) == <>[](pc[w] = "sending")
KeptForGood(e) == \E w \in Workers : <>[](pc[w] = "sending" /\ e \in Held(w))

(* Every published row is settled in the end, through however many         *)
(* retries, unless a fault stranded it, or it is in the batch of a worker  *)
(* whose call to the provider never returns (process_batch awaits          *)
(* `dispatch` without a timeout), or every worker awaits such a call.      *)
(* One hanging call costs its own batch only: the other workers go on.     *)
EveryEventResolved ==
    \A e \in Events :
        \/ status[e] = "pending" ~> status[e] \in {"done", "failed"} \/ Stranded(e)
        \/ KeptForGood(e)
        \/ \A w \in Workers : AwaitsForGood(w)

(* The rows whose email may still go out: not yet reached, or being sent.  *)
Untried(w) == todo[w] \cup {e \in Events : pc[w] = "sending" /\ cur[w] = e}

(* Refinement: the rows and workers implement the contract.                *)
ContractPhase(s) == CASE s = "absent"     -> "new"
                      [] s = "pending"    -> "queued"
                      [] s = "processing" -> "attempting"
                      [] s = "done"       -> "delivered"
                      [] s = "failed"     -> "abandoned"

Contract == INSTANCE OutboxContract WITH
    phase <- [e \in Events |-> ContractPhase(status[e])],
    budget <- [e \in Events |-> MaxAttempts - attempts[e]],
    open <- [e \in Events |-> \E w \in Workers : e \in Untried(w)],
    mails <- mails

(* The worker and the publisher keep the outbox's contract.                *)
ImplementsContract == Contract!Spec
=============================================================================
