---------------------------- MODULE OutboxProofs ----------------------------
(***************************************************************************)
(* Proofs about Outbox, and about the main() that starts its worker, for   *)
(* every set of events and workers, every batch size and every number of   *)
(* attempts.                                                               *)
(***************************************************************************)
EXTENDS ServerMain, TLAPS

(* The variables of a worker task agree with the place it has reached.     *)
TaskShape(w) ==
    /\ pc[w] \in {"down", "idle"} => todo[w] = {} /\ cur[w] = NoEvent
    /\ pc[w] = "batch" => cur[w] = NoEvent
    /\ pc[w] \in {"sending", "record"} => cur[w] \in Events /\ cur[w] \notin todo[w]

(* A row is held by the worker whose claim returned it, and by no other.   *)
Holding(w) ==
    /\ \A e \in todo[w] : status[e] = "processing"
    /\ pc[w] \in {"sending", "record"} => status[cur[w]] = "processing"

Apart(v, w) ==
    /\ todo[v] \cap todo[w] = {}
    /\ pc[v] \in {"sending", "record"} => cur[v] \notin todo[w]
    /\ pc[v] \in {"sending", "record"} /\ pc[w] \in {"sending", "record"} => cur[v] # cur[w]

(* A row is one reported email ahead of its unreported ones exactly from   *)
(* the answer that its email was sent; it is even until then.              *)
RowHistory(e) ==
    /\ mails[e] = unheard[e] \/ mails[e] = unheard[e] + 1
    /\ status[e] \in {"absent", "pending"} => mails[e] = unheard[e]
    /\ status[e] = "absent" => attempts[e] = 0
    /\ status[e] = "pending" => attempts[e] < MaxAttempts
    /\ status[e] = "done" => mails[e] = unheard[e] + 1
    /\ status[e] = "failed" => /\ mails[e] = unheard[e]
                               /\ e \in Undecodable \/ attempts[e] = MaxAttempts

TaskHistory(w) ==
    /\ \A e \in todo[w] : mails[e] = unheard[e]
    /\ pc[w] = "sending" => mails[cur[w]] = unheard[cur[w]]
    /\ pc[w] = "record" =>
          /\ outcome[w] \in {"undecodable", "sent", "error"}
          /\ outcome[w] = "sent" => mails[cur[w]] = unheard[cur[w]] + 1
          /\ outcome[w] # "sent" => mails[cur[w]] = unheard[cur[w]]
          /\ outcome[w] = "undecodable" => cur[w] \in Undecodable

(* The inductive invariant.                                                *)
OutboxInv ==
    /\ TypeOK
    /\ \A w \in Workers : TaskShape(w) /\ Holding(w) /\ TaskHistory(w)
    /\ \A v, w \in Workers : v # w => Apart(v, w)
    /\ \A e \in Events : RowHistory(e)
-----------------------------------------------------------------------------
(* Every variable keeps its type; attempts never passes MAX_ATTEMPTS.      *)
THEOREM TypeCorrect == Spec => []TypeOK
<1>1. Init => TypeOK
  BY OutboxAssumption DEF Init, TypeOK, Statuses
<1>2. TypeOK /\ [Next]_vars => TypeOK'
  <2> SUFFICES ASSUME TypeOK, [Next]_vars PROVE TypeOK'
    OBVIOUS
  <2> USE DEF TypeOK
  <2>1. ASSUME NEW e \in Events, Publish(e) PROVE TypeOK'
    BY <2>1, OutboxAssumption DEF Publish, Statuses, tasks, history
  <2>0. ASSUME NEW e \in Events, ComesDue(e) PROVE TypeOK'
    BY <2>0 DEF ComesDue, tasks, history
  <2>2. ASSUME NEW w \in Workers, Start(w) PROVE TypeOK'
    BY <2>2 DEF Start, rows, history
  <2>3. ASSUME NEW w \in Workers, Crash(w) PROVE TypeOK'
    BY <2>3 DEF Crash, LeaveBatch, rows, history
  <2>4. ASSUME NEW w \in Workers, NEW S \in Batches, ClaimRows(S)
        PROVE  /\ status' \in [Events -> Statuses]
               /\ attempts' \in [Events -> 0..MaxAttempts]
               /\ due' \in [Events -> BOOLEAN]
               /\ S \subseteq Events
    BY <2>4, OutboxAssumption DEF ClaimRows, Batches, Claimable, Statuses
  <2>5. ASSUME NEW w \in Workers, Claim(w) \/ ClaimUnheard(w) PROVE TypeOK'
    BY <2>4, <2>5 DEF Claim, ClaimUnheard, tasks, history
  <2>6. ASSUME NEW w \in Workers, Dispatch(w) PROVE TypeOK'
    BY <2>6 DEF Dispatch, DecodeFails, CallProvider, Take, rows, history
  <2>10. ASSUME NEW w \in Workers, CallEnds(w) PROVE TypeOK'
    BY <2>10 DEF CallEnds, DispatchOk, DispatchErr, Ends, rows, history
  <2>7. ASSUME NEW w \in Workers, Record(w) PROVE TypeOK'
    <3>1. ASSUME NextRow(w) \/ LeaveBatch(w, "idle")
          PROVE  /\ pc' \in [Workers -> {"down", "idle", "batch", "sending", "record"}]
                 /\ todo' \in [Workers -> SUBSET Events]
                 /\ cur' \in [Workers -> Events \cup {NoEvent}]
                 /\ outcome' \in [Workers -> {"none", "undecodable", "sent", "error"}]
      BY <3>1 DEF NextRow, LeaveBatch
    <3>2. CASE MarkDone(w)
      BY <3>1, <3>2 DEF MarkDone, WrittenHeard, WrittenUnheard, history, Statuses
    <3>3. CASE MarkFailed(w)
      BY <3>1, <3>3 DEF MarkFailed, WrittenHeard, WrittenUnheard, history, Statuses
    <3>4. CASE Reschedule(w)
      BY <3>1, <3>4 DEF Reschedule, WrittenHeard, WrittenUnheard, history, Statuses
    <3>5. CASE WriteFails(w)
      BY <3>1, <3>5 DEF WriteFails, rows, history
    <3>6. QED
      BY <2>7, <3>2, <3>3, <3>4, <3>5 DEF Record
  <2>8. CASE UNCHANGED vars
    BY <2>8 DEF vars
  <2>9. QED
    BY <2>0, <2>1, <2>2, <2>3, <2>5, <2>6, <2>7, <2>8, <2>10 DEF Next, WorkerNext
<1>3. QED
  BY <1>1, <1>2, PTL DEF Spec
-----------------------------------------------------------------------------
(* The claim touches rows no worker holds: they are pending, held rows are *)
(* processing.                                                             *)
LEMMA ClaimedRows ==
    ASSUME OutboxInv, NEW S \in Batches, ClaimRows(S)
    PROVE  /\ S \subseteq Events
           /\ \A e \in S : /\ status[e] = "pending"
                           /\ mails[e] = unheard[e]
                           /\ \A v \in Workers : /\ e \notin todo[v]
                                                 /\ pc[v] \in {"sending", "record"} => cur[v] # e
           /\ \A e \in Events : status'[e] = IF e \in S THEN "processing" ELSE status[e]
           /\ \A e \in Events \ S : attempts'[e] = attempts[e]
  BY DEF OutboxInv, TypeOK, Batches, Claimable, ClaimRows, RowHistory, Holding

(* The inductive invariant survives every step.                            *)
LEMMA OutboxInvStep == OutboxInv /\ TypeOK' /\ [Next]_vars => OutboxInv'
<1> SUFFICES ASSUME OutboxInv, TypeOK', [Next]_vars PROVE OutboxInv'
  OBVIOUS
<1> USE DEF OutboxInv
<1>1. ASSUME NEW e \in Events, Publish(e) PROVE OutboxInv'
  <2>1. /\ UNCHANGED <<pc, todo, cur, outcome, mails, unheard>>
        /\ status[e] = "absent" /\ status'[e] = "pending" /\ attempts'[e] = 0
        /\ \A d \in Events \ {e} : status'[d] = status[d] /\ attempts'[d] = attempts[d]
    BY <1>1 DEF Publish, TypeOK, tasks, history
  <2>2. \A w \in Workers : (TaskShape(w) /\ Holding(w) /\ TaskHistory(w))'
    BY <2>1 DEF TaskShape, Holding, TaskHistory, TypeOK
  <2>3. \A v, w \in Workers : v # w => Apart(v, w)'
    BY <2>1 DEF Apart
  <2>4. \A d \in Events : RowHistory(d)'
    BY <2>1, OutboxAssumption DEF RowHistory
  <2>5. QED
    BY <2>2, <2>3, <2>4
<1>2. ASSUME NEW e \in Events, ComesDue(e) PROVE OutboxInv'
  BY <1>2 DEF ComesDue, tasks, history, TaskShape, Holding, TaskHistory, Apart, RowHistory
<1>3. ASSUME NEW w \in Workers, Start(w) PROVE OutboxInv'
  <2>1. UNCHANGED <<status, attempts, todo, cur, outcome, mails, unheard>>
    BY <1>3 DEF Start, rows, history
  <2>2. \A v \in Workers : \/ pc'[v] = pc[v]
                           \/ pc[v] = "down" /\ pc'[v] = "idle"
    BY <1>3 DEF Start, TypeOK
  <2>3. QED
    BY <2>1, <2>2 DEF TaskShape, Holding, TaskHistory, Apart, RowHistory
<1>4. ASSUME NEW w \in Workers, NEW next \in {"down", "idle"}, LeaveBatch(w, next)
      PROVE  /\ pc'[w] = next /\ todo'[w] = {} /\ cur'[w] = NoEvent
             /\ \A v \in Workers \ {w} : /\ pc'[v] = pc[v] /\ todo'[v] = todo[v]
                                         /\ cur'[v] = cur[v] /\ outcome'[v] = outcome[v]
  BY <1>4 DEF LeaveBatch, TypeOK
<1>5. ASSUME NEW w \in Workers, Crash(w) PROVE OutboxInv'
  <2>1. UNCHANGED <<status, attempts, mails, unheard>> /\ LeaveBatch(w, "down")
    BY <1>5 DEF Crash, rows, history
  <2>2. QED
    BY <2>1, <1>4 DEF TaskShape, Holding, TaskHistory, Apart, RowHistory
<1>6. ASSUME NEW w \in Workers, WriteFails(w) PROVE OutboxInv'
  <2>1. UNCHANGED <<status, attempts, mails, unheard>> /\ LeaveBatch(w, "idle")
    BY <1>6 DEF WriteFails, rows, history
  <2>2. QED
    BY <2>1, <1>4 DEF TaskShape, Holding, TaskHistory, Apart, RowHistory
<1>7. ASSUME NEW w \in Workers, Claim(w) PROVE OutboxInv'
  <2>1. PICK S \in Batches : /\ ClaimRows(S)
                             /\ pc' = [pc EXCEPT ![w] = "batch"]
                             /\ todo' = [todo EXCEPT ![w] = S]
    BY <1>7 DEF Claim
  <2>2. pc[w] = "idle" /\ UNCHANGED <<cur, outcome, mails, unheard>>
    BY <1>7 DEF Claim, history
  <2>3. /\ pc'[w] = "batch" /\ todo'[w] = S
        /\ \A v \in Workers \ {w} : pc'[v] = pc[v] /\ todo'[v] = todo[v]
    BY <2>1 DEF TypeOK
  <2>4. \A v \in Workers : (TaskShape(v) /\ Holding(v) /\ TaskHistory(v))'
    <3> SUFFICES ASSUME NEW v \in Workers
                 PROVE  (TaskShape(v) /\ Holding(v) /\ TaskHistory(v))'
      OBVIOUS
    <3>1. CASE v = w
      BY <3>1, <2>1, <2>2, <2>3, ClaimedRows DEF TaskShape, Holding, TaskHistory
    <3>2. CASE v # w
      BY <3>2, <2>1, <2>2, <2>3, ClaimedRows DEF TaskShape, Holding, TaskHistory, TypeOK
    <3>3. QED
      BY <3>1, <3>2
  <2>5. \A u, v \in Workers : u # v => Apart(u, v)'
    BY <2>1, <2>2, <2>3, ClaimedRows DEF Apart
  <2>6. \A e \in Events : RowHistory(e)'
    BY <2>1, <2>2, ClaimedRows DEF RowHistory
  <2>7. QED
    BY <2>4, <2>5, <2>6
<1>8. ASSUME NEW w \in Workers, ClaimUnheard(w) PROVE OutboxInv'
  <2>1. PICK S \in Batches : ClaimRows(S)
    BY <1>8 DEF ClaimUnheard
  <2>2. UNCHANGED <<pc, todo, cur, outcome, mails, unheard>>
    BY <1>8 DEF ClaimUnheard, tasks, history
  <2>3. \A v \in Workers : (TaskShape(v) /\ Holding(v) /\ TaskHistory(v))'
    BY <2>1, <2>2, ClaimedRows DEF TaskShape, Holding, TaskHistory, TypeOK
  <2>4. \A u, v \in Workers : u # v => Apart(u, v)'
    BY <2>2 DEF Apart
  <2>5. \A e \in Events : RowHistory(e)'
    BY <2>1, <2>2, ClaimedRows DEF RowHistory
  <2>6. QED
    BY <2>3, <2>4, <2>5
<1>9. ASSUME NEW w \in Workers, Dispatch(w) PROVE OutboxInv'
  <2>1. PICK e \in todo[w] : DecodeFails(w, e) \/ CallProvider(w, e)
    BY <1>9 DEF Dispatch
  <2>2. e \in Events
    BY DEF TypeOK
  <2>3. /\ pc[w] = "batch" /\ todo'[w] = todo[w] \ {e} /\ cur'[w] = e
        /\ \/ pc'[w] = "record" /\ outcome'[w] = "undecodable" /\ e \in Undecodable
           \/ pc'[w] = "sending"
        /\ UNCHANGED <<status, attempts, mails, unheard>>
        /\ \A v \in Workers \ {w} : /\ pc'[v] = pc[v] /\ todo'[v] = todo[v]
                                    /\ cur'[v] = cur[v] /\ outcome'[v] = outcome[v]
    BY <2>1 DEF DecodeFails, CallProvider, Take, TypeOK, rows, history
  <2>4. /\ status[e] = "processing" /\ mails[e] = unheard[e]
        /\ \A v \in Workers \ {w} : /\ e \notin todo[v]
                                    /\ pc[v] \in {"sending", "record"} => cur[v] # e
    BY DEF Holding, TaskHistory, Apart
  <2>5. \A v \in Workers : (TaskShape(v) /\ Holding(v) /\ TaskHistory(v))'
    <3> SUFFICES ASSUME NEW v \in Workers
                 PROVE  (TaskShape(v) /\ Holding(v) /\ TaskHistory(v))'
      OBVIOUS
    <3>1. CASE v = w
      BY <3>1, <2>2, <2>3, <2>4 DEF TaskShape, Holding, TaskHistory
    <3>2. CASE v # w
      BY <3>2, <2>3 DEF TaskShape, Holding, TaskHistory
    <3>3. QED
      BY <3>1, <3>2
  <2>6. \A u, v \in Workers : u # v => Apart(u, v)'
    <3> SUFFICES ASSUME NEW u \in Workers, NEW v \in Workers, u # v PROVE Apart(u, v)'
      OBVIOUS
    <3>1. Apart(u, v) /\ Apart(v, u)
      OBVIOUS
    <3>2. QED
      BY <2>3, <2>4, <3>1 DEF Apart
  <2>7. \A d \in Events : RowHistory(d)'
    BY <2>3 DEF RowHistory
  <2>8. QED
    BY <2>5, <2>6, <2>7
<1>13. ASSUME NEW w \in Workers, CallEnds(w) PROVE OutboxInv'
  <2>1. PICK e \in Events : e = cur[w]
    BY <1>13 DEF CallEnds, DispatchOk, DispatchErr, Ends, TaskShape
  <2>2. /\ pc[w] = "sending" /\ pc'[w] = "record"
        /\ UNCHANGED <<status, attempts, todo, cur>>
        /\ \A v \in Workers \ {w} : pc'[v] = pc[v] /\ outcome'[v] = outcome[v]
    BY <1>13 DEF CallEnds, DispatchOk, DispatchErr, Ends, TypeOK, rows
  <2>3. /\ \A d \in Events \ {e} : mails'[d] = mails[d] /\ unheard'[d] = unheard[d]
        /\ \/ /\ outcome'[w] = "sent"
              /\ mails'[e] = mails[e] + 1 /\ unheard'[e] = unheard[e]
           \/ /\ outcome'[w] = "error"
              /\ \/ mails'[e] = mails[e] /\ unheard'[e] = unheard[e]
                 \/ mails'[e] = mails[e] + 1 /\ unheard'[e] = unheard[e] + 1
    BY <1>13, <2>1 DEF CallEnds, DispatchOk, DispatchErr, Ends, TypeOK, history
  <2>4. /\ status[e] = "processing" /\ mails[e] = unheard[e] /\ e \notin todo[w]
        /\ \A v \in Workers \ {w} : /\ e \notin todo[v]
                                    /\ pc[v] \in {"sending", "record"} => cur[v] # e
    BY <2>1, <2>2 DEF TaskShape, Holding, TaskHistory, Apart
  <2>5. mails[e] \in Nat /\ unheard[e] \in Nat
    BY DEF TypeOK
  <2>6. \A v \in Workers : (TaskShape(v) /\ Holding(v) /\ TaskHistory(v))'
    <3> SUFFICES ASSUME NEW v \in Workers
                 PROVE  (TaskShape(v) /\ Holding(v) /\ TaskHistory(v))'
      OBVIOUS
    <3>1. CASE v = w
      <4>1. TaskShape(w)' /\ Holding(w)'
        BY <2>1, <2>2 DEF TaskShape, Holding
      <4>2. TaskHistory(w)'
        BY <2>1, <2>2, <2>3, <2>4, <2>5 DEF TaskHistory, TypeOK
      <4>3. QED
        BY <3>1, <4>1, <4>2
    <3>2. CASE v # w
      <4>1. TaskShape(v) /\ Holding(v) /\ TaskHistory(v) /\ todo[v] \subseteq Events
        BY DEF TypeOK
      <4>2. QED
        BY <3>2, <4>1, <2>2, <2>3, <2>4 DEF TaskShape, Holding, TaskHistory
    <3>3. QED
      BY <3>1, <3>2
  <2>7. \A u, v \in Workers : u # v => Apart(u, v)'
    <3> SUFFICES ASSUME NEW u \in Workers, NEW v \in Workers, u # v PROVE Apart(u, v)'
      OBVIOUS
    <3>1. Apart(u, v)
      OBVIOUS
    <3>2. QED
      BY <2>2, <3>1 DEF Apart
  <2>8. \A d \in Events : RowHistory(d)'
    BY <2>2, <2>3, <2>4, <2>5 DEF RowHistory
  <2>9. QED
    BY <2>6, <2>7, <2>8
<1>10. ASSUME NEW w \in Workers, MarkDone(w) \/ MarkFailed(w) \/ Reschedule(w)
       PROVE OutboxInv'
  <2>1. /\ pc[w] = "record"
        /\ UNCHANGED <<attempts, mails, unheard>>
        /\ NextRow(w) \/ LeaveBatch(w, "idle")
    BY <1>10 DEF MarkDone, MarkFailed, Reschedule, WrittenHeard, WrittenUnheard, history
  <2>2. /\ cur[w] \in Events /\ cur[w] \notin todo[w]
        /\ status[cur[w]] = "processing"
        /\ \A v \in Workers \ {w} : /\ cur[w] \notin todo[v]
                                    /\ pc[v] \in {"sending", "record"} => cur[v] # cur[w]
    BY <2>1 DEF TaskShape, Holding, Apart
  <2>3. /\ pc'[w] \in {"idle", "batch"} /\ cur'[w] = NoEvent
        /\ todo'[w] \subseteq todo[w]
        /\ pc'[w] = "idle" => todo'[w] = {}
        /\ \A v \in Workers \ {w} : /\ pc'[v] = pc[v] /\ todo'[v] = todo[v]
                                    /\ cur'[v] = cur[v] /\ outcome'[v] = outcome[v]
    BY <2>1 DEF NextRow, LeaveBatch, TypeOK
  <2>4. /\ \A d \in Events \ {cur[w]} : status'[d] = status[d]
        /\ \/ outcome[w] = "sent" /\ status'[cur[w]] = "done"
           \/ /\ outcome[w] = "undecodable" \/ (outcome[w] = "error" /\ OutOfAttempts(cur[w]))
              /\ status'[cur[w]] = "failed"
           \/ /\ outcome[w] = "error" /\ ~OutOfAttempts(cur[w])
              /\ status'[cur[w]] = "pending"
    BY <1>10, <2>2 DEF MarkDone, MarkFailed, Reschedule, TypeOK
  <2>5. \A v \in Workers : (TaskShape(v) /\ Holding(v) /\ TaskHistory(v))'
    <3> SUFFICES ASSUME NEW v \in Workers
                 PROVE  (TaskShape(v) /\ Holding(v) /\ TaskHistory(v))'
      OBVIOUS
    <3>1. CASE v = w
      BY <3>1, <2>1, <2>2, <2>3, <2>4 DEF TaskShape, Holding, TaskHistory, TypeOK
    <3>2. CASE v # w
      BY <3>2, <2>1, <2>2, <2>3, <2>4 DEF TaskShape, Holding, TaskHistory, TypeOK
    <3>3. QED
      BY <3>1, <3>2
  <2>6. \A u, v \in Workers : u # v => Apart(u, v)'
    <3> SUFFICES ASSUME NEW u \in Workers, NEW v \in Workers, u # v PROVE Apart(u, v)'
      OBVIOUS
    <3>1. Apart(u, v)
      OBVIOUS
    <3>2. QED
      BY <2>3, <3>1 DEF Apart
  <2>7. \A d \in Events : RowHistory(d)'
    <3> SUFFICES ASSUME NEW d \in Events PROVE RowHistory(d)'
      OBVIOUS
    <3>1. CASE d # cur[w]
      BY <3>1, <2>1, <2>4 DEF RowHistory
    <3>2. CASE d = cur[w]
      <4>1. attempts[d] \in 0..MaxAttempts /\ MaxAttempts \in Nat
        BY OutboxAssumption DEF TypeOK
      <4>2. TaskHistory(w) /\ RowHistory(d)
        OBVIOUS
      <4>3. QED
        BY <3>2, <4>1, <4>2, <2>1, <2>2, <2>4 DEF RowHistory, TaskHistory, OutOfAttempts
    <3>3. QED
      BY <3>1, <3>2
  <2>8. QED
    BY <2>5, <2>6, <2>7
<1>11. CASE UNCHANGED vars
  BY <1>11 DEF vars, TaskShape, Holding, TaskHistory, Apart, RowHistory
<1>12. QED
  BY <1>1, <1>2, <1>3, <1>5, <1>6, <1>7, <1>8, <1>9, <1>10, <1>11, <1>13
  DEF Next, WorkerNext, Record

(* The inductive invariant holds throughout.                               *)
THEOREM OutboxInvariant == Spec => []OutboxInv
<1>1. Init => OutboxInv
  BY OutboxAssumption
  DEF Init, OutboxInv, TypeOK, Statuses, TaskShape, Holding, TaskHistory, Apart, RowHistory
<1>2. QED
  BY <1>1, OutboxInvStep, TypeCorrect, PTL DEF Spec

(* A row is in the hands of one worker at most, and is then 'processing':  *)
(* the claim's promise that other workers skip the rows of this one.       *)
THEOREM ClaimIsExclusive == Spec => []ExclusiveClaim
<1>1. OutboxInv => ExclusiveClaim
  BY DEF OutboxInv, ExclusiveClaim, Held, TypeOK, TaskShape, Holding, Apart
<1>2. QED
  BY <1>1, OutboxInvariant, PTL

(* No row is left 'pending' beyond the claim's reach.                      *)
THEOREM PendingIsAlive == Spec => []NoDeadPending
<1>1. OutboxInv => NoDeadPending
  BY DEF OutboxInv, NoDeadPending, RowHistory
<1>2. QED
  BY <1>1, OutboxInvariant, PTL

(* Every email of a row but one is an email whose acceptance the provider  *)
(* failed to report: crashes and failed updates never send a second one.   *)
THEOREM NoDuplicateOfItsOwn == Spec => []DuplicateOnlyIfUnheard
<1>1. OutboxInv => DuplicateOnlyIfUnheard
  BY DEF OutboxInv, DuplicateOnlyIfUnheard, RowHistory, TypeOK
<1>2. QED
  BY <1>1, OutboxInvariant, PTL

(* 'done' means an email was reported accepted; 'failed' means none was,   *)
(* and the attempts are spent or the payload is unreadable.                *)
THEOREM FinalStatusIsTruthful == Spec => []FinalStatusTruthful
<1>1. OutboxInv => FinalStatusTruthful
  BY DEF OutboxInv, FinalStatusTruthful, RowHistory
<1>2. QED
  BY <1>1, OutboxInvariant, PTL

(* A row once left 'processing' by a crash or a failed statement is never  *)
(* picked up again: no step of the worker reaches it.                      *)
THEOREM StrandedStaysStranded == Spec => StrandedIsForever
<1>1. ASSUME OutboxInv, [Next]_vars, NEW e \in Events, Stranded(e)
      PROVE  Stranded(e)'
  <2>1. /\ status[e] = "processing"
        /\ \A w \in Workers : /\ e \notin todo[w]
                              /\ cur[w] # e
    BY <1>1, OutboxAssumption DEF Stranded, Held
  <2> SUFFICES status'[e] = "processing"
               /\ \A w \in Workers : e \notin todo'[w] /\ cur'[w] # e
    BY DEF Stranded, Held
  <2> USE DEF OutboxInv, TypeOK
  <2>2. ASSUME NEW d \in Events, Publish(d) \/ ComesDue(d)
        PROVE  UNCHANGED <<todo, cur>> /\ status'[e] = "processing"
    BY <1>1, <2>1, <2>2 DEF Publish, ComesDue, tasks
  <2>3. ASSUME NEW w \in Workers, NEW next \in {"down", "idle"}, LeaveBatch(w, next)
        PROVE  \A v \in Workers : e \notin todo'[v] /\ cur'[v] # e
    BY <1>1, <2>1, <2>3, OutboxAssumption DEF LeaveBatch
  <2>4. ASSUME NEW w \in Workers, Start(w)
        PROVE  UNCHANGED <<status, todo, cur>>
    BY <2>4 DEF Start, rows
  <2>5. ASSUME NEW w \in Workers, Crash(w) \/ WriteFails(w)
        PROVE  status' = status /\ (LeaveBatch(w, "down") \/ LeaveBatch(w, "idle"))
    BY <2>5 DEF Crash, WriteFails, rows
  <2>6. ASSUME NEW w \in Workers, Claim(w) \/ ClaimUnheard(w)
        PROVE  /\ status'[e] = "processing"
               /\ \A v \in Workers : e \notin todo'[v] /\ cur'[v] # e
    <3>1. PICK S \in Batches : /\ ClaimRows(S)
                               /\ UNCHANGED todo \/ todo' = [todo EXCEPT ![w] = S]
      BY <2>6 DEF Claim, ClaimUnheard, tasks
    <3>2. cur' = cur
      BY <2>6 DEF Claim, ClaimUnheard, tasks
    <3>3. e \notin S /\ status'[e] = "processing"
      BY <1>1, <2>1, <3>1, ClaimedRows
    <3>4. QED
      BY <1>1, <2>1, <3>1, <3>2, <3>3
  <2>7. ASSUME NEW w \in Workers, Dispatch(w)
        PROVE  /\ status' = status
               /\ \A v \in Workers : e \notin todo'[v] /\ cur'[v] # e
    BY <1>1, <2>1, <2>7 DEF Dispatch, DecodeFails, CallProvider, Take, rows
  <2>11. ASSUME NEW w \in Workers, CallEnds(w)
         PROVE  UNCHANGED <<status, todo, cur>>
    BY <2>11 DEF CallEnds, DispatchOk, DispatchErr, Ends, rows
  <2>8. ASSUME NEW w \in Workers, MarkDone(w) \/ MarkFailed(w) \/ Reschedule(w)
        PROVE  /\ status'[e] = "processing"
               /\ \A v \in Workers : e \notin todo'[v] /\ cur'[v] # e
    <3>1. NextRow(w) \/ LeaveBatch(w, "idle")
      BY <2>8 DEF MarkDone, MarkFailed, Reschedule, WrittenHeard, WrittenUnheard
    <3>2. \A v \in Workers : e \notin todo'[v] /\ cur'[v] # e
      <4>1. CASE NextRow(w)
        BY <1>1, <2>1, <4>1, OutboxAssumption DEF NextRow
      <4>2. CASE LeaveBatch(w, "idle")
        BY <2>3, <4>2
      <4>3. QED
        BY <3>1, <4>1, <4>2
    <3>3. status'[e] = "processing"
      BY <1>1, <2>1, <2>8 DEF MarkDone, MarkFailed, Reschedule
    <3>4. QED
      BY <3>2, <3>3
  <2>9. CASE UNCHANGED vars
    BY <2>1, <2>9 DEF vars
  <2>10. QED
    BY <1>1, <2>1, <2>2, <2>3, <2>4, <2>5, <2>6, <2>7, <2>8, <2>9, <2>11
    DEF Next, WorkerNext, Record
<1>2. OutboxInv /\ [Next]_vars => [\A e \in Events : Stranded(e) => Stranded(e)']_vars
  BY <1>1
<1>3. QED
  BY <1>2, OutboxInvariant, PTL DEF Spec, StrandedIsForever
-----------------------------------------------------------------------------
(* The refinement mapping, part by part.                                   *)
Phase == [e \in Events |-> ContractPhase(status[e])]
Budget == [e \in Events |-> MaxAttempts - attempts[e]]
Open == [e \in Events |-> \E w \in Workers : e \in Untried(w)]

LEMMA PhaseOfStatus == /\ ContractPhase("absent") = "new"
                       /\ ContractPhase("pending") = "queued"
                       /\ ContractPhase("processing") = "attempting"
                       /\ ContractPhase("done") = "delivered"
                       /\ ContractPhase("failed") = "abandoned"
  BY DEF ContractPhase

(* A row is untried in the hands of one worker at most: taking it out of   *)
(* those of this worker closes its attempt.                                *)
LEMMA ClosedRows ==
    ASSUME OutboxInv, NEW w \in Workers, NEW S \in SUBSET Untried(w),
           Untried(w)' = Untried(w) \ S,
           \A v \in Workers \ {w} : Untried(v)' = Untried(v)
    PROVE  /\ \A e \in S : Open[e]
           /\ Open' = [e \in Events |-> IF e \in S THEN FALSE ELSE Open[e]]
<1>1. Untried(w) \subseteq Events
  BY DEF Untried, OutboxInv, TypeOK
<1>2. \A v \in Workers \ {w} : Untried(v) \cap Untried(w) = {}
  BY DEF Untried, OutboxInv, TypeOK, Apart
<1>3. \A e \in Events : (\E v \in Workers : e \in Untried(v)')
                         <=> e \notin S /\ \E v \in Workers : e \in Untried(v)
  BY <1>2
<1>4. \A e \in S : Open[e]
  BY <1>1 DEF Open
<1>5. \A e \in Events : Open'[e] = (IF e \in S THEN FALSE ELSE Open[e])
  BY <1>3 DEF Open
<1>6. Open' = [e \in Events |-> Open'[e]]
  BY DEF Open
<1>7. QED
  BY <1>4, <1>5, <1>6

(* The other workers keep what they hold.                                  *)
LEMMA OthersUntried ==
    ASSUME NEW v \in Workers, todo'[v] = todo[v], pc'[v] = pc[v], cur'[v] = cur[v]
    PROVE  Untried(v)' = Untried(v)
  BY DEF Untried

(* Crash, and a failed record: the batch is dropped.                       *)
LEMMA BatchDropped ==
    ASSUME OutboxInv, NEW w \in Workers, NEW next \in {"down", "idle"},
           LeaveBatch(w, next), UNCHANGED <<rows, history>>
    PROVE  \E S \in SUBSET Events : Contract!Drop(S)
<1>1. PICK S \in SUBSET Events : S = Untried(w)
  BY DEF OutboxInv, TypeOK, Untried
<1>2. Untried(w)' = {}
  BY DEF LeaveBatch, Untried, OutboxInv, TypeOK
<1>3. /\ \A e \in S : Open[e]
      /\ Open' = [e \in Events |-> IF e \in S THEN FALSE ELSE Open[e]]
  <2>1. S \in SUBSET Untried(w) /\ Untried(w)' = Untried(w) \ S
    BY <1>1, <1>2
  <2>2. \A v \in Workers \ {w} : Untried(v)' = Untried(v)
    BY OthersUntried DEF LeaveBatch, OutboxInv, TypeOK
  <2>3. QED
    BY <2>1, <2>2, ClosedRows
<1>4. UNCHANGED <<Phase, Budget, mails>>
  BY DEF Phase, Budget, rows, history
<1>5. Contract!Drop(S)
  BY <1>3, <1>4 DEF Contract!Drop, Phase, Budget, Open
<1>6. QED
  BY <1>5

(* Every step of the workers and the publisher is a step of the contract,  *)
(* or leaves what the contract speaks of alone.                            *)
LEMMA ContractStep ==
    ASSUME OutboxInv, TypeOK', [Next]_vars
    PROVE  [Contract!Next]_(Contract!vars)
<1> DEFINE Quiet == UNCHANGED <<Phase, Budget, Open, mails>>
<1>0. Quiet => UNCHANGED Contract!vars
  BY DEF Contract!vars, Phase, Budget, Open
<1>1. ASSUME NEW e \in Events, Publish(e) PROVE Contract!Accept(e)
  <2>1. /\ UNCHANGED <<pc, todo, cur, mails>> /\ status[e] = "absent"
        /\ status' = [status EXCEPT ![e] = "pending"]
        /\ attempts' = [attempts EXCEPT ![e] = 0]
    BY <1>1 DEF Publish, tasks, history
  <2>2. /\ status[e] = "absent" /\ status'[e] = "pending" /\ attempts'[e] = attempts[e]
        /\ \A d \in Events \ {e} : status'[d] = status[d] /\ attempts'[d] = attempts[d]
    BY <2>1 DEF OutboxInv, TypeOK, RowHistory
  <2>3. Phase[e] = "new" /\ Phase' = [Phase EXCEPT ![e] = "queued"]
    BY <2>2, PhaseOfStatus DEF Phase
  <2>4. UNCHANGED <<Budget, Open, mails>>
    BY <2>1, <2>2 DEF Budget, Open, Untried
  <2>5. QED
    BY <2>3, <2>4 DEF Contract!Accept, Phase, Budget, Open
<1>2. ASSUME NEW e \in Events, ComesDue(e) PROVE Quiet
  BY <1>2 DEF ComesDue, tasks, history, Phase, Budget, Open, Untried
<1>3. ASSUME NEW w \in Workers, Start(w) PROVE Quiet
  <2>1. \A v \in Workers : Untried(v)' = Untried(v)
    BY <1>3 DEF Start, Untried, OutboxInv, TypeOK
  <2>2. QED
    BY <1>3, <2>1 DEF Start, rows, history, Phase, Budget, Open
<1>4. ASSUME NEW w \in Workers, Crash(w) \/ WriteFails(w)
      PROVE  \E S \in SUBSET Events : Contract!Drop(S)
  BY <1>4, BatchDropped DEF Crash, WriteFails
<1>5. ASSUME NEW w \in Workers, NEW S \in Batches, ClaimRows(S)
      PROVE  /\ S # {} /\ S \in SUBSET Events
             /\ \A e \in S : Phase[e] = "queued" /\ Budget[e] > 0
             /\ Phase' = [e \in Events |-> IF e \in S THEN "attempting" ELSE Phase[e]]
             /\ Budget' = [e \in Events |-> IF e \in S THEN Budget[e] - 1 ELSE Budget[e]]
  <2>1. /\ S # {} /\ S \in SUBSET Events
        /\ \A e \in S : status[e] = "pending" /\ attempts[e] < MaxAttempts
    BY DEF Batches, Claimable
  <2>3. \A e \in Events : attempts[e] \in Nat /\ MaxAttempts \in Nat
    BY OutboxAssumption DEF OutboxInv, TypeOK
  <2>2. \A e \in Events : /\ status'[e] = IF e \in S THEN "processing" ELSE status[e]
                          /\ attempts'[e] = IF e \in S THEN attempts[e] + 1 ELSE attempts[e]
    BY <1>5, <2>3 DEF ClaimRows
  <2>4. /\ \A e \in S : Phase[e] = "queued"
        /\ Phase' = [e \in Events |-> IF e \in S THEN "attempting" ELSE Phase[e]]
    <3>1. \A e \in S : Phase[e] = "queued"
      BY <2>1, PhaseOfStatus DEF Phase
    <3>2. \A e \in Events : ContractPhase(status[e])'
                               = IF e \in S THEN "attempting" ELSE ContractPhase(status[e])
      BY <2>2, PhaseOfStatus
    <3>3. QED
      BY <3>1, <3>2 DEF Phase
  <2>5. \A e \in S : Budget[e] > 0
    BY <2>1, <2>3 DEF Budget
  <2>6. \A e \in Events : MaxAttempts - attempts'[e]
                             = IF e \in S THEN (MaxAttempts - attempts[e]) - 1
                                          ELSE MaxAttempts - attempts[e]
    <3> SUFFICES ASSUME NEW e \in Events
                 PROVE  MaxAttempts - attempts'[e]
                          = IF e \in S THEN (MaxAttempts - attempts[e]) - 1
                                       ELSE MaxAttempts - attempts[e]
      OBVIOUS
    <3>1. CASE e \in S
      BY <3>1, <2>2, <2>3
    <3>2. CASE e \notin S
      BY <3>2, <2>2, <2>3
    <3>3. QED
      BY <3>1, <3>2
  <2>7. Budget' = [e \in Events |-> IF e \in S THEN Budget[e] - 1 ELSE Budget[e]]
    BY <2>6 DEF Budget
  <2>8. QED
    BY <2>1, <2>4, <2>5, <2>7
<1>6. ASSUME NEW w \in Workers, Claim(w)
      PROVE  \E S \in SUBSET Events : Contract!Attempt(S, S)
  <2>1. PICK S \in Batches : /\ ClaimRows(S)
                             /\ pc' = [pc EXCEPT ![w] = "batch"]
                             /\ todo' = [todo EXCEPT ![w] = S]
    BY <1>6 DEF Claim
  <2>2. UNCHANGED <<mails, cur>> /\ pc[w] = "idle" /\ todo[w] = {}
    BY <1>6 DEF Claim, history, OutboxInv, TaskShape
  <2>3. /\ Untried(w) = {} /\ Untried(w)' = S
        /\ \A v \in Workers \ {w} : Untried(v)' = Untried(v)
    BY <2>1, <2>2 DEF OutboxInv, TypeOK, Untried
  <2>4. Open' = [e \in Events |-> IF e \in S THEN TRUE ELSE Open[e]]
    BY <2>3 DEF Open
  <2>5. S # {} /\ S \in SUBSET Events /\ Contract!Attempt(S, S)
    BY <1>5, <2>1, <2>2, <2>4 DEF Contract!Attempt, Phase, Budget, Open
  <2>6. QED
    BY <2>5
<1>7. ASSUME NEW w \in Workers, ClaimUnheard(w)
      PROVE  \E S \in SUBSET Events : Contract!Attempt(S, {})
  <2>1. PICK S \in Batches : ClaimRows(S)
    BY <1>7 DEF ClaimUnheard
  <2>2. UNCHANGED <<mails, todo, pc, cur>>
    BY <1>7 DEF ClaimUnheard, tasks, history
  <2>3. Open' = [e \in Events |-> IF e \in {} THEN TRUE ELSE Open[e]]
    BY <2>2 DEF Open, Untried
  <2>4. S # {} /\ S \in SUBSET Events /\ Contract!Attempt(S, {})
    BY <1>5, <2>1, <2>2, <2>3 DEF Contract!Attempt, Phase, Budget, Open
  <2>5. QED
    BY <2>4
<1>8. ASSUME NEW w \in Workers, NEW e \in Events, e \in Untried(w), status[e] = "processing",
             UNCHANGED <<status, attempts>>, Untried(w)' = Untried(w) \ {e},
             \A v \in Workers \ {w} : Untried(v)' = Untried(v),
             mails' = [mails EXCEPT ![e] = @ + 1] \/ UNCHANGED mails
      PROVE  Contract!Try(e)
  <2>1. Open[e] /\ Open' = [d \in Events |-> IF d \in {e} THEN FALSE ELSE Open[d]]
    BY <1>8, ClosedRows
  <2>2. Open' = [Open EXCEPT ![e] = FALSE]
    BY <2>1 DEF Open
  <2>3. Phase[e] = "attempting" /\ UNCHANGED <<Phase, Budget>>
    BY <1>8, PhaseOfStatus DEF Phase, Budget
  <2>4. QED
    BY <1>8, <2>1, <2>2, <2>3 DEF Contract!Try, Phase, Budget, Open
<1>12. ASSUME NEW w \in Workers, Dispatch(w)
       PROVE  Quiet \/ \E e \in Events : Contract!Try(e)
  <2>1. PICK e \in todo[w] : DecodeFails(w, e) \/ CallProvider(w, e)
    BY <1>12 DEF Dispatch
  <2>2. /\ UNCHANGED <<status, attempts, mails>> /\ pc[w] = "batch"
        /\ todo'[w] = todo[w] \ {e} /\ cur'[w] = e
        /\ \A v \in Workers \ {w} : /\ pc'[v] = pc[v] /\ todo'[v] = todo[v]
                                    /\ cur'[v] = cur[v]
    BY <2>1 DEF DecodeFails, CallProvider, Take, rows, history, OutboxInv, TypeOK
  <2>3. e \in Events /\ status[e] = "processing" /\ e \in Untried(w)
    BY DEF OutboxInv, TypeOK, Holding, Untried
  <2>4. \A v \in Workers \ {w} : Untried(v)' = Untried(v)
    BY <2>2, OthersUntried
  <2>5. CASE DecodeFails(w, e)
    <3>1. pc'[w] = "record"
      BY <2>5 DEF DecodeFails, Take, OutboxInv, TypeOK
    <3>2. Untried(w)' = Untried(w) \ {e}
      BY <2>2, <3>1 DEF Untried
    <3>3. QED
      BY <1>8, <2>2, <2>3, <2>4, <3>2
  <2>6. CASE CallProvider(w, e)
    <3>1. pc'[w] = "sending"
      BY <2>6 DEF CallProvider, Take, OutboxInv, TypeOK
    <3>2. Untried(w)' = Untried(w)
      BY <2>2, <2>3, <3>1 DEF Untried
    <3>3. QED
      BY <2>2, <2>4, <3>2 DEF Phase, Budget, Open
  <2>7. QED
    BY <2>1, <2>5, <2>6
<1>13. ASSUME NEW w \in Workers, CallEnds(w)
       PROVE  \E e \in Events : Contract!Try(e)
  <2>1. PICK e \in Events : e = cur[w]
    BY <1>13 DEF CallEnds, DispatchOk, DispatchErr, Ends, OutboxInv, TaskShape
  <2>2. /\ UNCHANGED <<status, attempts, todo, cur>>
        /\ pc[w] = "sending" /\ pc'[w] = "record"
        /\ \A v \in Workers \ {w} : pc'[v] = pc[v]
        /\ mails' = [mails EXCEPT ![e] = @ + 1] \/ UNCHANGED mails
    BY <1>13, <2>1
    DEF CallEnds, DispatchOk, DispatchErr, Ends, rows, history, OutboxInv, TypeOK
  <2>3. status[e] = "processing" /\ e \in Untried(w) /\ e \notin todo[w]
    BY <2>1, <2>2 DEF OutboxInv, TaskShape, Holding, Untried
  <2>4. Untried(w)' = Untried(w) \ {e}
    BY <2>1, <2>2, <2>3 DEF Untried
  <2>5. \A v \in Workers \ {w} : Untried(v)' = Untried(v)
    BY <2>2, OthersUntried
  <2>6. QED
    BY <1>8, <2>2, <2>3, <2>4, <2>5
<1>9. ASSUME NEW w \in Workers, MarkDone(w) \/ MarkFailed(w) \/ Reschedule(w)
      PROVE  \E S \in SUBSET Events, e \in Events : Contract!Conclude(e, S)
  <2>1. /\ UNCHANGED <<attempts, mails>> /\ pc[w] = "record"
        /\ NextRow(w) \/ LeaveBatch(w, "idle")
    BY <1>9 DEF MarkDone, MarkFailed, Reschedule, WrittenHeard, WrittenUnheard, history
  <2>0. PICK e \in Events : e = cur[w]
    BY <2>1 DEF OutboxInv, TaskShape
  <2>2. /\ e = cur[w] /\ status[e] = "processing"
        /\ \A v \in Workers : e \notin Untried(v)
    BY <2>0, <2>1 DEF OutboxInv, TaskShape, Holding, Apart, Untried
  <2>3. /\ Untried(w) = todo[w] /\ Untried(w)' = todo'[w]
        /\ todo'[w] = todo[w] \/ todo'[w] = {}
        /\ \A v \in Workers \ {w} : Untried(v)' = Untried(v)
    <3>1. /\ pc'[w] \in {"idle", "batch"}
          /\ todo'[w] = todo[w] \/ todo'[w] = {}
          /\ \A v \in Workers \ {w} : /\ pc'[v] = pc[v] /\ todo'[v] = todo[v]
                                      /\ cur'[v] = cur[v]
      BY <2>1 DEF NextRow, LeaveBatch, OutboxInv, TypeOK
    <3>2. QED
      BY <2>1, <3>1, OthersUntried DEF Untried
  <2>9. PICK S \in SUBSET Untried(w) : Untried(w)' = Untried(w) \ S
    <3>1. CASE todo'[w] = todo[w]
      <4>1. {} \in SUBSET Untried(w) /\ Untried(w)' = Untried(w) \ {}
        BY <2>3, <3>1
      <4>2. QED
        BY <4>1
    <3>2. CASE todo'[w] = {}
      <4>1. Untried(w) \in SUBSET Untried(w) /\ Untried(w)' = Untried(w) \ Untried(w)
        BY <2>3, <3>2
      <4>2. QED
        BY <4>1
    <3>3. QED
      BY <2>3, <3>1, <3>2
  <2>4. /\ S \in SUBSET Events /\ \A d \in S : Open[d]
        /\ Open' = [d \in Events |-> IF d \in S THEN FALSE ELSE Open[d]]
    <3>1. Untried(w) \subseteq Events
      BY DEF OutboxInv, TypeOK, Untried
    <3>2. QED
      BY <2>3, <2>9, <3>1, ClosedRows
  <2>5. Phase[e] = "attempting" /\ ~Open[e] /\ UNCHANGED Budget
    BY <2>1, <2>2, PhaseOfStatus DEF Phase, Open, Budget
  <2>6. \/ mails[e] > 0 /\ Phase' = [Phase EXCEPT ![e] = "delivered"]
        \/ Phase' = [Phase EXCEPT ![e] = "abandoned"]
        \/ Budget[e] > 0 /\ Phase' = [Phase EXCEPT ![e] = "queued"]
    <3>1. CASE MarkDone(w)
      <4>1. mails[e] = unheard[e] + 1 /\ unheard[e] \in Nat
        BY <2>2, <3>1 DEF MarkDone, OutboxInv, TaskHistory, TypeOK
      <4>2. status' = [status EXCEPT ![e] = "done"]
        BY <2>2, <3>1 DEF MarkDone
      <4>3. Phase' = [Phase EXCEPT ![e] = "delivered"]
        BY <4>2, PhaseOfStatus DEF Phase, OutboxInv, TypeOK
      <4>4. QED
        BY <4>1, <4>3
    <3>2. CASE MarkFailed(w)
      <4>1. status' = [status EXCEPT ![e] = "failed"]
        BY <2>2, <3>2 DEF MarkFailed
      <4>2. QED
        BY <4>1, PhaseOfStatus DEF Phase, OutboxInv, TypeOK
    <3>3. CASE Reschedule(w)
      <4>1. attempts[e] \in 0..MaxAttempts /\ MaxAttempts \in Nat
        BY <2>2, OutboxAssumption DEF OutboxInv, TypeOK
      <4>2. Budget[e] > 0
        BY <2>2, <3>3, <4>1 DEF Reschedule, OutOfAttempts, Budget
      <4>3. status' = [status EXCEPT ![e] = "pending"]
        BY <2>2, <3>3 DEF Reschedule
      <4>4. Phase' = [Phase EXCEPT ![e] = "queued"]
        BY <4>3, PhaseOfStatus DEF Phase, OutboxInv, TypeOK
      <4>5. QED
        BY <4>2, <4>4
    <3>4. QED
      BY <1>9, <3>1, <3>2, <3>3
  <2>7. Contract!Conclude(e, S)
    BY <2>1, <2>4, <2>5, <2>6 DEF Contract!Conclude, Phase, Budget, Open
  <2>8. QED
    BY <2>2, <2>4, <2>7
<1>10. CASE UNCHANGED vars
  BY <1>10, <1>0 DEF vars, Phase, Budget, Open, Untried
<1>11. QED
  BY <1>0, <1>1, <1>2, <1>3, <1>4, <1>6, <1>7, <1>9, <1>10, <1>12, <1>13
  DEF Next, WorkerNext, Record, Contract!Next

(* The outbox keeps its contract: at most MAX_ATTEMPTS attempts, one email *)
(* at most in each, 'done' only after one went out, and none afterwards.   *)
THEOREM OutboxKeepsContract == Spec => ImplementsContract
<1>1. Init => Contract!Init
  <2>1. ASSUME Init
        PROVE  /\ Phase = [e \in Events |-> "new"]
               /\ Budget = [e \in Events |-> MaxAttempts]
               /\ Open = [e \in Events |-> FALSE]
               /\ mails = [e \in Events |-> 0]
    BY <2>1, PhaseOfStatus, OutboxAssumption DEF Init, Phase, Budget, Open, Untried
  <2>2. QED
    BY <2>1 DEF Contract!Init, Phase, Budget, Open
<1>2. OutboxInv /\ TypeOK' /\ [Next]_vars => [Contract!Next]_(Contract!vars)
  BY ContractStep
<1>3. QED
  BY <1>1, <1>2, OutboxInvariant, TypeCorrect, PTL
  DEF Spec, ImplementsContract, Contract!Spec
-----------------------------------------------------------------------------
(* A row is left stranded by a crash, a failed or an unanswered statement  *)
(* and by nothing else: the loop over a batch forgets no row.              *)
THEOREM StrandedByFault == Spec => StrandedOnlyByFault
<1> DEFINE Fault(w) == \/ Crash(w) \/ ClaimUnheard(w) \/ WriteFails(w)
                       \/ pc[w] = "record" /\ WrittenUnheard(w)
<1>1. ASSUME OutboxInv, TypeOK', [Next]_vars, NEW e \in Events, ~Stranded(e), Stranded(e)',
             \A w \in Workers : ~Fault(w)
      PROVE  FALSE
  <2> USE <1>1 DEF OutboxInv, TypeOK
  <2>1. status'[e] = "processing" /\ \A v \in Workers : e \notin todo'[v] /\ cur'[v] # e
    BY OutboxAssumption DEF Stranded, Held
  <2>2. status[e] = "processing" => \E v \in Workers : e \in todo[v] \/ cur[v] = e
    BY DEF Stranded, Held
  <2>3. ASSUME NEW d \in Events, Publish(d) \/ ComesDue(d) PROVE FALSE
    BY <2>1, <2>2, <2>3 DEF Publish, ComesDue, tasks
  <2>4. ASSUME NEW w \in Workers, Start(w) PROVE FALSE
    BY <2>1, <2>2, <2>4 DEF Start, rows
  <2>5. ASSUME NEW w \in Workers, Claim(w) PROVE FALSE
    <3>1. PICK S \in Batches : ClaimRows(S) /\ todo' = [todo EXCEPT ![w] = S]
      BY <2>5 DEF Claim
    <3>2. cur' = cur /\ todo[w] = {}
      BY <2>5 DEF Claim, TaskShape
    <3>3. e \notin S /\ \A v \in Workers : e \notin todo[v]
      BY <2>1, <3>1, <3>2
    <3>4. status[e] = "processing"
      BY <2>1, <3>1, <3>3, ClaimedRows
    <3>5. QED
      BY <2>1, <2>2, <3>2, <3>3, <3>4
  <2>6. ASSUME NEW w \in Workers, Dispatch(w) PROVE FALSE
    <3>1. PICK d \in todo[w] : Take(w, d, "record", "undecodable") \/ Take(w, d, "sending", "none")
      BY <2>6 DEF Dispatch, DecodeFails, CallProvider
    <3>2. /\ status' = status /\ cur[w] = NoEvent /\ d \in Events
          /\ todo' = [todo EXCEPT ![w] = @ \ {d}] /\ cur' = [cur EXCEPT ![w] = d]
      BY <3>1 DEF Take, rows, TaskShape
    <3>3. PICK v \in Workers : e \in todo[v] \/ cur[v] = e
      BY <2>1, <2>2, <3>2
    <3>4. v = w /\ e # d /\ e \in todo[w]
      BY <2>1, <3>2, <3>3, OutboxAssumption
    <3>5. QED
      BY <2>1, <3>2, <3>4
  <2>10. ASSUME NEW w \in Workers, CallEnds(w) PROVE FALSE
    BY <2>1, <2>2, <2>10 DEF CallEnds, DispatchOk, DispatchErr, Ends, rows
  <2>7. ASSUME NEW w \in Workers, MarkDone(w) \/ MarkFailed(w) \/ Reschedule(w) PROVE FALSE
    <3>1. pc[w] = "record" /\ NextRow(w)
      BY <2>7 DEF MarkDone, MarkFailed, Reschedule, WrittenHeard
    <3>2. cur[w] # e => status[e] = "processing"
      BY <2>1, <2>7 DEF MarkDone, MarkFailed, Reschedule
    <3>3. cur[w] = e => status'[e] # "processing"
      BY <2>7 DEF MarkDone, MarkFailed, Reschedule
    <3>4. QED
      BY <2>1, <2>2, <3>1, <3>2, <3>3 DEF NextRow
  <2>8. CASE UNCHANGED vars
    BY <2>1, <2>2, <2>8 DEF vars
  <2>9. QED
    BY <2>3, <2>4, <2>5, <2>6, <2>7, <2>8, <2>10 DEF Next, WorkerNext, Record
<1>2. ASSUME OutboxInv, TypeOK', [Next]_vars
      PROVE  [\A e \in Events : ~Stranded(e) /\ Stranded(e)' =>
                 \E w \in Workers : \/ Crash(w) \/ ClaimUnheard(w) \/ WriteFails(w)
                                    \/ pc[w] = "record" /\ WrittenUnheard(w)]_vars
  BY <1>1, <1>2
<1>3. QED
  BY <1>2, OutboxInvariant, TypeCorrect, PTL DEF Spec, StrandedOnlyByFault
-----------------------------------------------------------------------------
(* The server process.                                                     *)

(* main() only starts, runs and ends the worker: whatever it does is a     *)
(* step of the outbox or none, so that every theorem about Spec holds of   *)
(* the server as main.rs runs it.                                          *)
THEOREM MainRunsTheOutbox == MainSpec => Spec
<1>1. MainInit => Init
  BY DEF MainInit
<1>2. [MainNext]_mainVars => [Next]_vars
  <2> SUFFICES ASSUME [MainNext]_mainVars PROVE [Next]_vars
    OBVIOUS
  <2>1. ASSUME NEW e \in Events, HandlerPublishes(e) \/ ClockRuns(e) PROVE Next
    BY <2>1 DEF HandlerPublishes, ClockRuns, Next
  <2>2. ASSUME NEW w \in Workers, Boot(w) \/ ServeReturns(w) PROVE UNCHANGED vars
    BY <2>2 DEF Boot, ServeReturns
  <2>3. ASSUME NEW w \in Workers, StartWorker(w) \/ MainReturns(w) \/ WorkerRuns(w)
        PROVE  Next \/ UNCHANGED vars
    BY <2>3 DEF StartWorker, MainReturns, WorkerRuns, Next, WorkerNext
  <2>4. QED
    BY <2>1, <2>2, <2>3 DEF MainNext, mainVars
<1>3. QED
  BY <1>1, <1>2, PTL DEF MainSpec, Spec

(* What main() has come to before it calls worker.start().                 *)
BeforeStart == {"boot", "serving", "served"}

(* The inductive invariant: only main() starts a worker, and rows that no  *)
(* worker ever claimed are as they were published.                         *)
MainInv ==
    /\ main \in [Workers -> BeforeStart \cup {"ending", "gone"}]
    /\ \A w \in Workers : main[w] \in BeforeStart => pc[w] = "down"
    /\ (\A w \in Workers : main[w] \in BeforeStart) =>
          \A e \in Events : /\ status[e] \in {"absent", "pending"}
                            /\ attempts[e] = 0 /\ mails[e] = 0

LEMMA MainInvStep == TypeOK /\ MainInv /\ [MainNext]_mainVars => MainInv'
<1> SUFFICES ASSUME TypeOK, MainInv, [MainNext]_mainVars PROVE MainInv'
  OBVIOUS
<1> USE DEF BeforeStart
<1>1. ASSUME NEW e \in Events, HandlerPublishes(e) \/ ClockRuns(e) PROVE MainInv'
  <2>1. UNCHANGED <<main, pc, mails>>
    BY <1>1 DEF HandlerPublishes, ClockRuns, Publish, ComesDue, tasks, history
  <2>2. \/ /\ status' = [status EXCEPT ![e] = "pending"]
           /\ attempts' = [attempts EXCEPT ![e] = 0]
        \/ UNCHANGED <<status, attempts>>
    BY <1>1 DEF HandlerPublishes, ClockRuns, Publish, ComesDue
  <2>3. QED
    BY <2>1, <2>2 DEF MainInv, TypeOK
<1>2. ASSUME NEW w \in Workers, Boot(w) \/ ServeReturns(w) PROVE MainInv'
  <2>1. /\ UNCHANGED <<pc, status, attempts, mails>>
        /\ main[w] \in BeforeStart
        /\ \E at \in BeforeStart : main' = [main EXCEPT ![w] = at]
    BY <1>2 DEF Boot, ServeReturns, vars
  <2>2. QED
    BY <2>1 DEF MainInv
<1>3. ASSUME NEW w \in Workers, StartWorker(w) PROVE MainInv'
  <2>1. /\ main' = [main EXCEPT ![w] = "ending"]
        /\ pc' = [pc EXCEPT ![w] = "idle"]
    BY <1>3 DEF StartWorker, Start
  <2>2. main'[w] \notin BeforeStart
    BY <2>1 DEF MainInv
  <2>3. QED
    BY <2>1, <2>2 DEF MainInv, TypeOK
<1>4. ASSUME NEW w \in Workers, MainReturns(w) PROVE MainInv'
  <2>1. /\ main' = [main EXCEPT ![w] = "gone"]
        /\ pc' = pc \/ pc' = [pc EXCEPT ![w] = "down"]
    BY <1>4 DEF MainReturns, Crash, LeaveBatch, vars
  <2>2. main'[w] \notin BeforeStart
    BY <2>1 DEF MainInv
  <2>3. QED
    BY <2>1, <2>2 DEF MainInv, TypeOK
<1>5. ASSUME NEW w \in Workers, WorkerRuns(w) PROVE MainInv'
  <2>1. UNCHANGED main /\ pc[w] # "down"
    BY <1>5 DEF WorkerRuns, Claim, ClaimUnheard, Dispatch, DecodeFails, CallProvider,
                Take, CallEnds, DispatchOk, DispatchErr, Ends, Record, MarkDone, MarkFailed, Reschedule, WriteFails
  <2>2. \A v \in Workers \ {w} : pc'[v] = pc[v]
    BY <1>5 DEF WorkerRuns, Claim, ClaimUnheard, Dispatch, DecodeFails, CallProvider,
                Take, CallEnds, DispatchOk, DispatchErr, Ends, Record, MarkDone, MarkFailed, Reschedule, WriteFails, WrittenHeard,
                WrittenUnheard, NextRow, LeaveBatch, tasks, TypeOK
  <2>3. QED
    BY <2>1, <2>2 DEF MainInv
<1>6. CASE UNCHANGED mainVars
  BY <1>6 DEF mainVars, vars, MainInv
<1>7. QED
  BY <1>1, <1>2, <1>3, <1>4, <1>5, <1>6 DEF MainNext

(* As long as axum::serve has not returned in any process, no email is     *)
(* sent and no event is claimed, however many are published: main() starts *)
(* the worker after it.                                                    *)
THEOREM NothingIsSentWhileServing ==
    MainSpec => []((\A w \in Workers : main[w] \in {"boot", "serving"}) =>
                        \A e \in Events : mails[e] = 0 /\ status[e] \in {"absent", "pending"})
<1>1. MainInit => MainInv
  BY DEF MainInit, Init, MainInv, BeforeStart
<1>2. MainInv => ((\A w \in Workers : main[w] \in {"boot", "serving"}) =>
                        \A e \in Events : mails[e] = 0 /\ status[e] \in {"absent", "pending"})
  BY DEF MainInv, BeforeStart
<1>3. MainSpec => []TypeOK
  BY MainRunsTheOutbox, TypeCorrect, PTL
<1>4. QED
  BY <1>1, <1>2, <1>3, MainInvStep, PTL DEF MainSpec
=============================================================================
