----------------------------- MODULE MCWorkers -----------------------------
(* Instances for TLC of the utilities that keep others at work, one at a   *)
(* time: async_task its threads, and shell_daemon a server.                *)
EXTENDS AsyncTask, SchedulerDaemon

\* Which of them takes the steps.  The others stay in an initial state, where
\* fairness asks for nothing.
VARIABLE part

MCInit ==
    /\ part \in {"tasks", "daemons"}
    /\ Init /\ DaemonInit

MCNext ==
    /\ UNCHANGED part
    /\ \/ part = "tasks" /\ Next /\ UNCHANGED daemonVars
       \/ part = "daemons" /\ DaemonNext /\ UNCHANGED vars

MCSpec ==
    /\ MCInit
    /\ [][MCNext]_<<part, vars, daemonVars>>
    /\ Fairness /\ DaemonFairness
=============================================================================
