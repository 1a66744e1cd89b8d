------------------------------ MODULE MCNetwork ------------------------------
(* The network page's operations and the ping it runs, on a small instance. *)
(* They share no state here: a ping is one operation of the page, which only *)
(* knows it by its outcome.  The first state chooses which of them runs.     *)
EXTENDS NetworkOperation, PingRun

VARIABLE part
netVars == <<vars, pingVars, part>>

NetworkInit ==
    /\ Init /\ PingInit /\ part \in {"page", "ping"}
    /\ part = "ping" => pending = asked /\ asked = CHOOSE op \in Operations : TRUE
NetworkNext ==
    /\ UNCHANGED part
    /\ \/ part = "page" /\ Next /\ UNCHANGED pingVars
       \/ part = "ping" /\ PingNext /\ UNCHANGED vars

\* The fairness of FairSpec and of PingFairSpec.
NetworkSpec ==
    /\ NetworkInit /\ [][NetworkNext]_netVars
    /\ WF_vars(part = "page" /\ Worker) /\ WF_vars(part = "page" /\ Callback)
    /\ SF_vars(part = "page" /\ TickBegin)
    /\ WF_pingVars(part = "ping" /\ PingWorker) /\ WF_pingVars(part = "ping" /\ PingTick)

\* What was started ends and is answered: a result that waits is shown if the page stays
\* open, and a ping ends whatever the network does.
AnsweredInTheEnd == ResultShown /\ RunEnds
==============================================================================
