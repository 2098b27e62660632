-------------------------- MODULE OraclePoolProofs --------------------------
(***************************************************************************)
(* What module OraclePool promises, for any number of threads and any size *)
(* of the pool.  The argument counts threads by place: a step moves one    *)
(* thread, or one that returns a connection and one it notifies, and so    *)
(* changes two or three counts by one (Move).                              *)
(***************************************************************************)
EXTENDS OraclePool, TLAPS, FiniteSetTheorems

Tally(f) == [p \in Places |-> Cardinality({t \in Threads : f[t] = p})]

(* A thread waits, or was notified, only after it saw the counter at the   *)
(* limit, which it never leaves again.                                     *)
FullWhenWaiting ==
    Those("waiting") # {} \/ Those("notified") # {} => opened = Limit

(* What new opened is in the pool or lent: no step takes a connection away.*)
Recycled == idle + Cardinality(Those("holding")) >= Needed

IInv == TypeOK /\ SlotsAccounted /\ NoLostWakeup /\ FullWhenWaiting /\ Recycled

LEMMA LimitNat == Limit \in Nat \ {0} /\ Needed \in Nat \ {0} /\ Needed <= Limit
  BY PoolAssumption DEF Limit, Needed, Greater

LEMMA TallyNat ==
  \A f : /\ Tally(f) \in [Places -> Nat]
        /\ \A p \in Places : Tally(f)[p] = 0 <=> {t \in Threads : f[t] = p} = {}
<1> TAKE f
<1>1. ASSUME NEW p \in Places
      PROVE  /\ Tally(f)[p] \in Nat
             /\ Tally(f)[p] = 0 <=> {t \in Threads : f[t] = p} = {}
  <2>1. IsFiniteSet({t \in Threads : f[t] = p})
    BY PoolAssumption, FS_Subset
  <2>2. QED
    BY <2>1, FS_CardinalityType, FS_EmptySet DEF Tally
<1>2. QED
  BY <1>1 DEF Tally

LEMMA Occupied ==
  ASSUME NEW f \in [Threads -> Places], NEW t \in Threads
  PROVE  f[t] \in Places /\ Tally(f)[f[t]] # 0
<1>1. t \in {u \in Threads : f[u] = f[t]} /\ f[t] \in Places
  OBVIOUS
<1>2. QED
  BY <1>1, TallyNat

(* Moving a thread adds one to the count of the place it goes to and takes *)
(* one from that of the place it leaves.                                   *)
LEMMA Move ==
  ASSUME NEW f \in [Threads -> Places], NEW t \in Threads, NEW q \in Places, f[t] # q
  PROVE  Tally([f EXCEPT ![t] = q]) = [Tally(f) EXCEPT ![q] = @ + 1, ![f[t]] = @ - 1]
<1> DEFINE g == [f EXCEPT ![t] = q]
           At(h, p) == {u \in Threads : h[u] = p}
<1>1. \A h, p : IsFiniteSet(At(h, p))
  BY PoolAssumption, FS_Subset
<1>2. At(g, q) = At(f, q) \cup {t} /\ t \notin At(f, q)
  OBVIOUS
<1>3. At(g, f[t]) = At(f, f[t]) \ {t} /\ t \in At(f, f[t])
  OBVIOUS
<1>4. \A p \in Places \ {q, f[t]} : At(g, p) = At(f, p)
  OBVIOUS
<1>5. \A h : Tally(h) = [p \in Places |-> Cardinality(At(h, p))]
  BY DEF Tally
<1> HIDE DEF At, g
<1>6. Cardinality(At(g, q)) = Cardinality(At(f, q)) + 1
  BY <1>1, <1>2, FS_AddElement
<1>7. Cardinality(At(g, f[t])) = Cardinality(At(f, f[t])) - 1
  BY <1>1, <1>3, FS_RemoveElement
<1>8. f[t] \in Places /\ f[t] # q
  OBVIOUS
<1>9. Tally(g) = [Tally(f) EXCEPT ![q] = @ + 1, ![f[t]] = @ - 1]
  BY <1>4, <1>5, <1>6, <1>7, <1>8
<1>10. QED
  BY <1>9 DEF g

(* The invariant in terms of the counts.                                   *)
Counts(i, o, n, c) ==
    /\ i \in Nat /\ o \in Nat /\ n \in Nat
    /\ c \in [Places -> Nat]
    /\ o = i + c["holding"] + c["connecting"] + n
    /\ o <= Limit
    /\ i + c["holding"] >= Needed
    /\ c["waiting"] # 0 => c["notified"] >= i
    /\ c["waiting"] # 0 \/ c["notified"] # 0 => o = Limit

LEMMA InvIsCounts ==
  IInv <=> at \in [Threads -> Places] /\ Counts(idle, opened, failures, Tally(at))
<1>1. /\ Tally(at)["holding"] = Cardinality(Those("holding"))
      /\ Tally(at)["connecting"] = Cardinality(Those("connecting"))
      /\ Tally(at)["notified"] = Cardinality(Those("notified"))
  BY DEF Tally, Those, Places
<1>2. /\ Tally(at)["waiting"] # 0 <=> Those("waiting") # {}
      /\ Tally(at)["notified"] # 0 <=> Those("notified") # {}
  BY TallyNat DEF Those, Places
<1>3. Tally(at) \in [Places -> Nat]
  BY TallyNat
<1>4. QED
  BY <1>1, <1>2, <1>3 DEF IInv, TypeOK, SlotsAccounted, NoLostWakeup, FullWhenWaiting, Recycled, Counts

LEMMA InvIsCountsNext ==
  IInv' <=> at' \in [Threads -> Places] /\ Counts(idle', opened', failures', Tally(at'))
<1>1. /\ Tally(at')["holding"] = Cardinality(Those("holding")')
      /\ Tally(at')["connecting"] = Cardinality(Those("connecting")')
      /\ Tally(at')["notified"] = Cardinality(Those("notified")')
  BY DEF Tally, Those, Places
<1>2. /\ Tally(at')["waiting"] # 0 <=> Those("waiting")' # {}
      /\ Tally(at')["notified"] # 0 <=> Those("notified")' # {}
  BY TallyNat DEF Those, Places
<1>3. Tally(at') \in [Places -> Nat]
  BY TallyNat
<1>4. QED
  BY <1>1, <1>2, <1>3 DEF IInv, TypeOK, SlotsAccounted, NoLostWakeup, FullWhenWaiting, Recycled, Counts

(* The loop of get keeps the invariant, for a thread that was notified,    *)
(* one that woke up by itself, and one that is new to it.                  *)
LEMMA LookKeeps ==
  ASSUME IInv, NEW t \in Threads, at[t] \in {"out", "waiting", "notified"}, Look(t),
         failures' = failures
  PROVE  IInv'
<1>0. /\ at \in [Threads -> Places] /\ Counts(idle, opened, failures, Tally(at))
      /\ Limit \in Nat \ {0} /\ Needed \in Nat \ {0}
  BY InvIsCounts, LimitNat
<1>o. Tally(at)[at[t]] # 0
  BY <1>0, Occupied
<1>m. ASSUME NEW q \in Places, at[t] # q
      PROVE  Tally([at EXCEPT ![t] = q]) = [Tally(at) EXCEPT ![q] = @ + 1, ![at[t]] = @ - 1]
  BY <1>0, <1>m, Move
<1>q. SUFFICES at' \in [Threads -> Places] /\ Counts(idle', opened', failures', Tally(at'))
  BY InvIsCountsNext
<1>1. CASE idle > 0 /\ idle' = idle - 1 /\ Goto(t, "holding") /\ UNCHANGED opened
  <2>1. at' \in [Threads -> Places]
    BY <1>0, <1>1 DEF Goto, Places
  <2>2. Tally(at') = [Tally(at) EXCEPT !["holding"] = @ + 1, ![at[t]] = @ - 1]
    BY <1>1, <1>m DEF Goto, Places
  <2>3. QED
    BY <1>0, <1>o, <1>1, <2>1, <2>2 DEF Counts, Places
<1>2. CASE idle = 0 /\ opened < Limit /\ opened' = opened + 1 /\ Goto(t, "connecting") /\ UNCHANGED idle
  <2>1. at' \in [Threads -> Places]
    BY <1>0, <1>2 DEF Goto, Places
  <2>2. Tally(at') = [Tally(at) EXCEPT !["connecting"] = @ + 1, ![at[t]] = @ - 1]
    BY <1>2, <1>m DEF Goto, Places
  <2>3. QED
    BY <1>0, <1>o, <1>2, <2>1, <2>2 DEF Counts, Places
<1>3. CASE idle = 0 /\ opened >= Limit /\ Goto(t, "waiting") /\ UNCHANGED <<idle, opened>>
  <2>1. at' \in [Threads -> Places]
    BY <1>0, <1>3 DEF Goto, Places
  <2>2. CASE at[t] = "waiting"
    <3>1. at' = at
      BY <2>2, <1>3, <1>0 DEF Goto
    <3>2. QED
      BY <3>1, <1>3, <1>0
  <2>3. CASE at[t] # "waiting"
    <3>1. Tally(at') = [Tally(at) EXCEPT !["waiting"] = @ + 1, ![at[t]] = @ - 1]
      BY <1>3, <2>3, <1>m DEF Goto, Places
    <3>2. QED
      BY <1>0, <1>o, <1>3, <2>1, <2>3, <3>1 DEF Counts, Places
  <2>4. QED
    BY <2>2, <2>3
<1>4. QED
  BY <1>1, <1>2, <1>3 DEF Look

(* A connection that goes back takes its thread out, and a waiting thread, *)
(* when there is one, to the mutex: one more idle, one more notified.      *)
LEMMA ReturnKeeps ==
  ASSUME IInv, NEW t \in Threads, Return(t)
  PROVE  IInv'
<1>0. /\ at \in [Threads -> Places] /\ Counts(idle, opened, failures, Tally(at))
      /\ Limit \in Nat \ {0} /\ Needed \in Nat \ {0}
  BY InvIsCounts, LimitNat
<1>q. SUFFICES at' \in [Threads -> Places] /\ Counts(idle', opened', failures', Tally(at'))
  BY InvIsCountsNext
<1>o. Tally(at)[at[t]] # 0
  BY <1>0, Occupied
<1>1. at[t] = "holding" /\ idle' = idle + 1 /\ opened' = opened /\ failures' = failures
  BY DEF Return
<1> DEFINE f == [at EXCEPT ![t] = "out"]
<1>2. f \in [Threads -> Places]
  BY <1>0 DEF Places
<1>3. Tally(f) = [Tally(at) EXCEPT !["out"] = @ + 1, !["holding"] = @ - 1]
  <2>1. "out" \in Places /\ at[t] # "out"
    BY <1>1 DEF Places
  <2>2. Tally(f) = [Tally(at) EXCEPT !["out"] = @ + 1, ![at[t]] = @ - 1]
    BY <1>0, <2>1, Move
  <2>3. QED
    BY <1>1, <2>2
<1>4. CASE Those("waiting") = {}
  <2>1. at' = f
    BY <1>4 DEF Return, Goto
  <2>2. Tally(at)["waiting"] = 0
    BY <1>4, TallyNat DEF Those, Places
  <2> HIDE DEF f
  <2>3. QED
    BY <1>0, <1>o, <1>1, <1>2, <1>3, <2>1, <2>2 DEF Counts, Places
<1>5. CASE Those("waiting") # {}
  <2>1. PICK w \in Those("waiting") : at' = [at EXCEPT ![t] = "out", ![w] = "notified"]
    BY <1>5 DEF Return
  <2>2. w \in Threads /\ f[w] = "waiting" /\ at' = [f EXCEPT ![w] = "notified"]
    BY <2>1, <1>0, <1>1 DEF Those
  <2>3. at' \in [Threads -> Places]
    BY <1>2, <2>2 DEF Places
  <2>4. Tally(at') = [Tally(f) EXCEPT !["notified"] = @ + 1, !["waiting"] = @ - 1]
    <3> HIDE DEF f
    <3>1. "notified" \in Places /\ f[w] # "notified"
      BY <2>2 DEF Places
    <3>2. Tally([f EXCEPT ![w] = "notified"]) = [Tally(f) EXCEPT !["notified"] = @ + 1, ![f[w]] = @ - 1]
      BY <1>2, <2>2, <3>1, Move
    <3>3. QED
      BY <2>2, <3>2
  <2>5. Tally(at)["waiting"] \in Nat \ {0}
    BY <1>5, TallyNat DEF Those, Places
  <2> HIDE DEF f
  <2>6. QED
    BY <1>0, <1>o, <1>1, <1>3, <2>3, <2>4, <2>5 DEF Counts, Places
<1>6. QED
  BY <1>4, <1>5

(* A connect that succeeds makes its thread a holder; one that fails moves *)
(* its slot from the threads that connect to the failures.                 *)
LEMMA ConnectKeeps ==
  ASSUME IInv, NEW t \in Threads, ConnectSucceeds(t) \/ ConnectFails(t)
  PROVE  IInv'
<1>0. /\ at \in [Threads -> Places] /\ Counts(idle, opened, failures, Tally(at))
      /\ Limit \in Nat \ {0} /\ Needed \in Nat \ {0}
  BY InvIsCounts, LimitNat
<1>o. Tally(at)[at[t]] # 0
  BY <1>0, Occupied
<1>m. ASSUME NEW q \in Places, at[t] # q
      PROVE  Tally([at EXCEPT ![t] = q]) = [Tally(at) EXCEPT ![q] = @ + 1, ![at[t]] = @ - 1]
  BY <1>0, <1>m, Move
<1>q. SUFFICES at' \in [Threads -> Places] /\ Counts(idle', opened', failures', Tally(at'))
  BY InvIsCountsNext
<1>1. CASE ConnectSucceeds(t)
  <2>1. at' \in [Threads -> Places]
    BY <1>0, <1>1 DEF ConnectSucceeds, Goto, Places
  <2>2. Tally(at') = [Tally(at) EXCEPT !["holding"] = @ + 1, !["connecting"] = @ - 1]
    BY <1>1, <1>m DEF ConnectSucceeds, Goto, Places
  <2>3. QED
    BY <1>0, <1>o, <1>1, <2>1, <2>2 DEF Counts, Places, ConnectSucceeds
<1>2. CASE ConnectFails(t)
  <2>1. at' \in [Threads -> Places]
    BY <1>0, <1>2 DEF ConnectFails, Goto, Places
  <2>2. Tally(at') = [Tally(at) EXCEPT !["out"] = @ + 1, !["connecting"] = @ - 1]
    BY <1>2, <1>m DEF ConnectFails, Goto, Places
  <2>3. QED
    BY <1>0, <1>o, <1>2, <2>1, <2>2 DEF Counts, Places, ConnectFails
<1>3. QED
  BY <1>1, <1>2

LEMMA InitInv == Init => IInv
<1>1. SUFFICES ASSUME Init PROVE at \in [Threads -> Places] /\ Counts(idle, opened, failures, Tally(at))
  BY InvIsCounts
<1>2. at \in [Threads -> Places]
  BY <1>1 DEF Init, Places
<1>3. ASSUME NEW p \in Places, p # "out" PROVE Tally(at)[p] = 0
  <2>1. {t \in Threads : at[t] = p} = {}
    BY <1>1, <1>3 DEF Init
  <2>2. QED
    BY <2>1, TallyNat
<1>4. QED
  BY <1>1, <1>2, <1>3, TallyNat, LimitNat DEF Init, Counts, Places

LEMMA NextInv == IInv /\ [Next]_vars => IInv'
<1>1. SUFFICES ASSUME IInv, [Next]_vars PROVE IInv'
  OBVIOUS
<1>2. CASE UNCHANGED vars
  BY <1>1, <1>2, InvIsCounts, InvIsCountsNext DEF vars
<1>3. ASSUME NEW t \in Threads, Get(t) \/ Resume(t) \/ WakeSpuriously(t) PROVE IInv'
  BY <1>1, <1>3, LookKeeps DEF Get, Resume, WakeSpuriously
<1>4. ASSUME NEW t \in Threads, Return(t) PROVE IInv'
  BY <1>1, <1>4, ReturnKeeps
<1>5. ASSUME NEW t \in Threads, ConnectSucceeds(t) \/ ConnectFails(t) PROVE IInv'
  BY <1>1, <1>5, ConnectKeeps
<1>6. QED
  BY <1>1, <1>2, <1>3, <1>4, <1>5 DEF Next, Step

(* The inductive invariant holds.                                          *)
THEOREM Inductive == Spec => []IInv
  BY InitInv, NextInv, PTL DEF Spec

(* The variables keep their types: idle never falls below zero.            *)
THEOREM TypeCorrect == Spec => []TypeOK
<1>1. IInv => TypeOK
  BY DEF IInv
<1>2. QED
  BY <1>1, Inductive, PTL

(* Connections idle, lent, being made and lost to failed connects are      *)
(* exactly those counted, and never more than the limit.                   *)
THEOREM Accounted == Spec => []SlotsAccounted
<1>1. IInv => SlotsAccounted
  BY DEF IInv
<1>2. QED
  BY <1>1, Inductive, PTL

(* While a thread waits, every idle connection has a notified thread.      *)
THEOREM WakeupKept == Spec => []NoLostWakeup
<1>1. IInv => NoLostWakeup
  BY DEF IInv
<1>2. QED
  BY <1>1, Inductive, PTL

(* Whatever connects fail, the connections that new opened stay in use, so *)
(* that threads never wait with nobody to wake them: if none was notified, *)
(* no connection is idle (NoLostWakeup), hence all of those are lent.      *)
THEOREM NeverStuckHolds == Spec => []NeverStuck
<1>1. IInv => NeverStuck
  <2>1. SUFFICES ASSUME IInv, Those("waiting") # {}, Those("notified") = {}
                 PROVE  Those("holding") # {}
    BY DEF NeverStuck, IInv, Recycled
  <2>2. Counts(idle, opened, failures, Tally(at))
    BY <2>1, InvIsCounts
  <2>3. Tally(at)["waiting"] # 0 /\ Tally(at)["notified"] = 0
    BY <2>1, TallyNat DEF Those, Places
  <2>4. Tally(at)["holding"] # 0
    BY <2>2, <2>3, LimitNat DEF Counts, Places
  <2>5. QED
    BY <2>4, TallyNat DEF Those, Places
<1>2. QED
  BY <1>1, Inductive, PTL
=============================================================================
