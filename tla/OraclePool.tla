----------------------------- MODULE OraclePool -----------------------------
(***************************************************************************)
(* The connection pool of the Oracle driver (drivers/oracle/pool.rs), used *)
(* by blocking threads: a mutex around the idle connections, a counter of  *)
(* those opened, and a condition variable.  What a thread does while it    *)
(* holds the mutex is one step; wait gives the mutex up, and a thread that *)
(* was notified competes for it with those that call get.                  *)
(***************************************************************************)
EXTENDS Naturals, FiniteSets

CONSTANTS Threads,      \* the blocking threads
          PoolMin, PoolMax,
          MaxFailures   \* bound: attempts to connect that fail

ASSUME PoolAssumption ==
    /\ IsFiniteSet(Threads)
    /\ PoolMin \in Nat /\ PoolMax \in Nat /\ MaxFailures \in Nat

VARIABLES idle,         \* connections in the idle vector
          opened,       \* the counter
          at,           \* where each thread is
          failures      \* history: connects that failed after the counter was raised

vars == <<idle, opened, at, failures>>

Greater(m, n) == IF m >= n THEN m ELSE n

(* max.max(min).max(1) and min.max(1)                                      *)
Limit == Greater(Greater(PoolMax, PoolMin), 1)
Needed == Greater(PoolMin, 1)

Places == {"out", "connecting", "holding", "waiting", "notified"}

Those(place) == {t \in Threads : at[t] = place}

Goto(t, place) == at' = [at EXCEPT ![t] = place]

(* new opened what it needed, or there is no pool.                         *)
Init ==
    /\ idle = Needed /\ opened = Needed
    /\ at = [t \in Threads |-> "out"]
    /\ failures = 0
-----------------------------------------------------------------------------
(* A wrong variant: opened is compared too late by one.                    *)
LookOffByOne(t) ==
    \/ /\ idle > 0
       /\ idle' = idle - 1
       /\ Goto(t, "holding")
       /\ UNCHANGED opened
    \/ /\ idle = 0 /\ opened <= Limit
       /\ opened' = opened + 1
       /\ Goto(t, "connecting")
       /\ UNCHANGED idle
    \/ /\ idle = 0 /\ opened > Limit
       /\ Goto(t, "waiting")
       /\ UNCHANGED <<idle, opened>>

(* The loop of get: a connection from the vector, or a new one, or wait.   *)
Look(t) ==
    \/ /\ idle > 0
       /\ idle' = idle - 1
       /\ Goto(t, "holding")
       /\ UNCHANGED opened
    \/ /\ idle = 0 /\ opened < Limit
       /\ opened' = opened + 1
       /\ Goto(t, "connecting")
       /\ UNCHANGED idle
    \/ /\ idle = 0 /\ opened >= Limit
       /\ Goto(t, "waiting")
       /\ UNCHANGED <<idle, opened>>

Get(t) ==
    /\ at[t] = "out"
    /\ Look(t)
    /\ UNCHANGED failures

(* A notified thread has the mutex again.                                  *)
Resume(t) ==
    /\ at[t] = "notified"
    /\ Look(t)
    /\ UNCHANGED failures

(* wait may return without a notification.                                 *)
WakeSpuriously(t) ==
    /\ at[t] = "waiting"
    /\ Look(t)
    /\ UNCHANGED failures

ConnectSucceeds(t) ==
    /\ at[t] = "connecting"
    /\ Goto(t, "holding")
    /\ UNCHANGED <<idle, opened, failures>>

(* The error goes to the caller; the counter keeps what it was raised by,  *)
(* and nobody is notified.                                                 *)
ConnectFails(t) ==
    /\ at[t] = "connecting"
    /\ failures < MaxFailures
    /\ failures' = failures + 1
    /\ Goto(t, "out")
    /\ UNCHANGED <<idle, opened>>

(* A wrong variant: the connection is put back without a notification.     *)
ReturnSilently(t) ==
    /\ at[t] = "holding"
    /\ idle' = idle + 1
    /\ Goto(t, "out")
    /\ UNCHANGED <<opened, failures>>

(* The connection is dropped: it goes back, and one waiter is notified.    *)
Return(t) ==
    /\ at[t] = "holding"
    /\ idle' = idle + 1
    /\ IF Those("waiting") = {} THEN Goto(t, "out")
       ELSE \E w \in Those("waiting") : at' = [at EXCEPT ![t] = "out", ![w] = "notified"]
    /\ UNCHANGED <<opened, failures>>
-----------------------------------------------------------------------------
Step(t) == Resume(t) \/ ConnectSucceeds(t) \/ ConnectFails(t) \/ Return(t)

Next == \E t \in Threads : Get(t) \/ WakeSpuriously(t) \/ Step(t)

(* A thread that is in get, connects or has a connection goes on; none has *)
(* to call get or to wake up by itself.                                    *)
Spec == Init /\ [][Next]_vars /\ \A t \in Threads : WF_vars(Step(t))
-----------------------------------------------------------------------------
(* The variables have their types.                                         *)
TypeOK ==
    /\ idle \in Nat /\ opened \in Nat /\ failures \in Nat
    /\ at \in [Threads -> Places]

(* Every connection counted is idle, with a thread, being made, or one     *)
(* that could not be made; and there are never more than the pool may      *)
(* have, whoever overtakes whom between the check of the counter and the   *)
(* connect outside the mutex.                                              *)
SlotsAccounted ==
    /\ opened = idle + Cardinality(Those("holding")) + Cardinality(Those("connecting")) + failures
    /\ opened <= Limit

(* No wake-up is lost: as long as a thread waits, each idle connection has *)
(* a thread that was notified and will look.                               *)
NoLostWakeup == Those("waiting") # {} => Cardinality(Those("notified")) >= idle

(* The pool is never stuck, however many connects fail: a failed connect   *)
(* leaks its slot (opened is never lowered), but the connections `new`     *)
(* opened are recycled for ever, so that the leak shrinks the pool to      *)
(* these and no further, and when threads wait one of these connections is *)
(* lent, or a thread is on its way to it.                                  *)
NeverStuck ==
    /\ idle + Cardinality(Those("holding")) >= Needed
    /\ Those("waiting") # {} => Those("holding") # {} \/ Those("notified") # {}

(* A thread that waits sees a connection come back to the pool, though     *)
(* another thread may take it first.                                       *)
ConnectionsComeBack ==
    \A t \in Threads : at[t] = "waiting" ~> at[t] # "waiting" \/ Those("notified") # {}
=============================================================================
