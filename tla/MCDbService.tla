---------------------------- MODULE MCDbService ----------------------------
(* Instances for TLC of SpscQueue, by itself and in the service that       *)
(* DbService builds over it.                                               *)
EXTENDS DbService

\* Which of them takes the steps.
VARIABLE part

MCInit == part \in {"queue", "service"} /\ DbInit

MCNext ==
    /\ UNCHANGED part
    /\ \/ part = "queue" /\ Next /\ UNCHANGED serviceVars
       \/ part = "service" /\ DbNext

MCSpec == MCInit /\ [][MCNext]_<<part, dbVars>> /\ DbFairness
=============================================================================
