----------------------------- MODULE ServerMain -----------------------------
(***************************************************************************)
(* The server process around the outbox: main() of main.rs builds the      *)
(* application, serves HTTP requests, and creates and starts its           *)
(* OutboxWorker, in the order in which main.rs does these things.          *)
(* Requests publish events only while some process serves.  One run of     *)
(* each process is modelled, without crashes (module Outbox has those).    *)
(***************************************************************************)
EXTENDS Outbox

VARIABLE main    \* where main() of each process (one per worker) stands

mainVars == <<vars, main>>

MainInit == /\ Init
            /\ main = [w \in Workers |-> "boot"]

(* Configuration, pools, routers and the listener are ready.               *)
Boot(w) == /\ main[w] = "boot"
           /\ main' = [main EXCEPT ![w] = "serving"]
           /\ UNCHANGED vars

(* A request handler of a serving process commits an event.                *)
HandlerPublishes(e) == /\ \E w \in Workers : main[w] = "serving"
                       /\ Publish(e)
                       /\ UNCHANGED main

(* axum::serve(listener, app).await? comes back.  It has no shutdown       *)
(* signal to wait for, so nothing makes it return.                         *)
ServeReturns(w) == /\ main[w] = "serving"
                   /\ main' = [main EXCEPT ![w] = "served"]
                   /\ UNCHANGED vars

(* worker.start()                                                          *)
StartWorker(w) == /\ main[w] = "served"
                  /\ Start(w)
                  /\ main' = [main EXCEPT ![w] = "ending"]

(* main returns: the runtime is dropped, and the worker task with it.      *)
MainReturns(w) == /\ main[w] = "ending"
                  /\ main' = [main EXCEPT ![w] = "gone"]
                  /\ IF pc[w] = "down" THEN UNCHANGED vars ELSE Crash(w)

WorkerRuns(w) == /\ \/ Claim(w) \/ ClaimUnheard(w)
                    \/ Dispatch(w) \/ CallEnds(w) \/ Record(w)
                 /\ UNCHANGED main

ClockRuns(e) == ComesDue(e) /\ UNCHANGED main

MainNext == \/ \E e \in Events : HandlerPublishes(e) \/ ClockRuns(e)
            \/ \E w \in Workers : \/ Boot(w) \/ ServeReturns(w) \/ StartWorker(w)
                                  \/ MainReturns(w) \/ WorkerRuns(w)

(* Every process boots, starts what it has come to start and runs its      *)
(* worker; nothing obliges a server that serves to stop serving.           *)
MainFairness ==
    /\ \A e \in Events : WF_mainVars(ClockRuns(e))
    /\ \A w \in Workers : /\ WF_mainVars(Boot(w))
                          /\ WF_mainVars(StartWorker(w))
                          /\ SF_mainVars(Claim(w) /\ UNCHANGED main)
                          /\ WF_mainVars((Dispatch(w) \/ Record(w)) /\ UNCHANGED main)

MainSpec == MainInit /\ [][MainNext]_mainVars /\ MainFairness

(* What start() is for ("Spawn the worker as a background task.  Call once *)
(* at startup from main.rs"): an event published by a request is           *)
(* eventually attempted.                                                   *)
PublishedIsAttempted == \A e \in Events : status[e] = "pending" ~> status[e] # "pending"
=============================================================================
