------------------------------ MODULE MCSystem -------------------------------
(* What main.c does behind every page, on small instances: updates and boot  *)
(* health, and the two product links.  The updater only asks the links       *)
(* whether they are idle (see MCProductLinkRestart.cfg); the rest is apart,  *)
(* and the first state chooses the part.                                     *)
EXTENDS OtaUpdate, MCProductLink

\* Three releases, the last one installable only over the second.
Releases == 1..3
Predecessors == [v \in Releases |-> IF v = 3 THEN 2 ELSE 1]

VARIABLE part
systemVars == <<vars, linkVars, part>>

SystemInit ==
    /\ Init /\ LinkInit /\ part \in {"ota", "links"}
    /\ part # "ota" => nvsReady /\ storageReady /\ ~work
SystemNext ==
    /\ UNCHANGED part
    /\ \/ part = "ota" /\ Next /\ UNCHANGED linkVars
       \/ part = "links" /\ LinkNext /\ UNCHANGED vars

\* The fairness of the two specifications.
SystemSpec ==
    /\ SystemInit /\ [][SystemNext]_systemVars
    /\ WF_vars(part = "ota" /\ (SaveResult \/ ErasePending))
    /\ WF_vars(part = "ota" /\ HealthTimer)
    /\ WF_vars(part = "ota" /\ (WorkerStep \/ Restart))
    /\ WF_linkVars(part = "links" /\ UiTail) /\ WF_linkVars(part = "links" /\ HostStep)
    /\ SF_linkVars(part = "links" /\ HandleConnect)
    /\ SF_linkVars(part = "links" /\ HandleDisconnect)
    /\ WF_linkVars(part = "links" /\ (Established \/ ConnectTimeout))
    /\ \A peer \in Peers : WF_linkVars(part = "links" /\ link[peer] = "closing" /\ LinkEnds(peer))
==============================================================================
