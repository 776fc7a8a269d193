-------------------------- MODULE SchedulerDaemon --------------------------
(***************************************************************************)
(* shell_daemon: scheduler_daemon.sh, which looks every ten seconds        *)
(* whether a scheduler_server runs and starts one if not, and the scripts  *)
(* that start and stop it.  restart.sh runs both at the same time, and     *)
(* start.sh does not look for a daemon, so there may be several.  A script *)
(* finds processes by name with ps, and those on the port with lsof; a     *)
(* child of a daemon has the daemon's name until it becomes the server.    *)
(*                                                                         *)
(* A ps or lsof and the kill it is piped into are one step, except in      *)
(* stop.sh, where a daemon can start a server in between.  Pids are not    *)
(* given away again, and what else is on the port is left out.             *)
(***************************************************************************)
EXTENDS Integers, FiniteSets

CONSTANTS
    Daemons,            \* runs of scheduler_daemon.sh
    Servers,            \* bound: servers at a time
    MaxStops            \* bound: runs of stop.sh

ASSUME DaemonAssumption == Daemons \cap Servers = {} /\ MaxStops \in Nat

VARIABLES
    daemon,             \* where each daemon is
    server,             \* what each server does; SIGSTOP makes it "stopped"
    term,               \* the servers among them that a SIGTERM waits for
    stop, stops,        \* where stop.sh is, how often it was run
    doomed,             \* the processes its ps has listed
    newcomers           \* ghost: started too late for stop.sh to know

daemonVars == <<daemon, server, term, stop, stops, doomed, newcomers>>

DaemonStates == {"none", "find", "stopped", "kill", "wait", "port", "start", "sleep", "killed"}
ServerStates == {"none", "forked", "starting", "serving", "stopped"}

DaemonTypeOK ==
    /\ daemon \in [Daemons -> DaemonStates]
    /\ server \in [Servers -> ServerStates]
    /\ term \subseteq {s \in Servers : server[s] = "stopped"}
    /\ stop \in {"idle", "kill_daemons", "servers", "kill_servers"}
    /\ stops \in 0 .. MaxStops
    /\ doomed \subseteq Daemons \cup Servers /\ newcomers \subseteq Daemons \cup Servers

DaemonInit ==
    /\ daemon = [d \in Daemons |-> "none"]
    /\ server = [s \in Servers |-> "none"]
    /\ term = {}
    /\ stop = "idle" /\ stops = 0
    /\ doomed = {} /\ newcomers = {}

Lives(d) == daemon[d] \notin {"none", "killed"}
Found == {s \in Servers : server[s] \notin {"none", "forked"}}

\* kill -15: a stopped process gets it when it goes on.
Terminate(killed) ==
    /\ server' = [s \in Servers |-> IF s \in killed /\ server[s] # "stopped" THEN "none" ELSE server[s]]
    /\ term' = term \cup {s \in killed : server[s] = "stopped"}

-----------------------------------------------------------------------------
(* scheduler_daemon.sh.                                                    *)

Goto(d, p) == daemon' = [daemon EXCEPT ![d] = p]

\* start.sh
StartDaemon(d) ==
    /\ daemon[d] = "none"
    /\ Goto(d, "find")
    /\ newcomers' = IF stop = "idle" THEN {} ELSE newcomers \cup {d}
    /\ UNCHANGED <<server, term, stop, stops, doomed>>

\* Defect: one server is one too few.
FindProgramOffByOne(d) ==
    /\ daemon[d] = "find"
    /\ Goto(d, IF Cardinality(Found) < 0 THEN "port" ELSE "stopped")
    /\ UNCHANGED <<server, term, stop, stops, doomed, newcomers>>

\* program_start(): program_find_count, then program_stop_count.
FindProgram(d) ==
    /\ daemon[d] = "find"
    /\ Goto(d, IF Cardinality(Found) < 1 THEN "port" ELSE "stopped")
    /\ UNCHANGED <<server, term, stop, stops, doomed, newcomers>>

FindStopped(d) ==
    /\ daemon[d] = "stopped"
    /\ Goto(d, IF \E s \in Found : server[s] = "stopped" THEN "kill" ELSE "sleep")
    /\ UNCHANGED <<server, term, stop, stops, doomed, newcomers>>

\* kill_program().
KillProgram(d) ==
    /\ daemon[d] = "kill"
    /\ Terminate(Found)
    /\ Goto(d, "wait")
    /\ UNCHANGED <<stop, stops, doomed, newcomers>>

\* sleep 1, and sleep 10 of the main loop.
Sleep(d) ==
    /\ daemon[d] \in {"wait", "sleep"}
    /\ Goto(d, IF daemon[d] = "wait" THEN "port" ELSE "find")
    /\ UNCHANGED <<server, term, stop, stops, doomed, newcomers>>

\* run_program(): what holds the port, then the new server.
KillPort(d) ==
    /\ daemon[d] = "port"
    /\ Terminate({s \in Servers : server[s] \in {"serving", "stopped"}})
    /\ Goto(d, "start")
    /\ UNCHANGED <<stop, stops, doomed, newcomers>>

\* Any place will do for it, and its pid is on no list.
StartServer(d) ==
    /\ daemon[d] = "start"
    /\ \E s \in Servers : server[s] = "none"
    /\ LET s == CHOOSE s \in Servers : server[s] = "none" IN
        /\ server' = [server EXCEPT ![s] = "forked"]
        /\ newcomers' = newcomers \cup
              IF stop = "kill_daemons" \/ d \in newcomers THEN {s} ELSE {}
        /\ doomed' = doomed \ {s}
    /\ Goto(d, "sleep")
    /\ UNCHANGED <<term, stop, stops>>

DaemonStep(d) ==
    \/ FindProgram(d) \/ FindStopped(d) \/ KillProgram(d) \/ Sleep(d) \/ KillPort(d)
    \/ StartServer(d)

-----------------------------------------------------------------------------
(* stop.sh.                                                                *)

StopFindDaemons ==
    /\ stop = "idle" /\ stops < MaxStops
    /\ stop' = "kill_daemons" /\ stops' = stops + 1
    /\ doomed' = {d \in Daemons : Lives(d)} \cup {s \in Servers : server[s] = "forked"}
    /\ UNCHANGED <<daemon, server, term, newcomers>>

\* kill -9: no process can put it off.
StopKillDaemons ==
    /\ stop = "kill_daemons"
    /\ daemon' = [d \in Daemons |-> IF d \in doomed THEN "killed" ELSE daemon[d]]
    /\ server' = [s \in Servers |-> IF s \in doomed THEN "none" ELSE server[s]]
    /\ term' = term \ doomed
    /\ stop' = "servers"
    /\ UNCHANGED <<stops, doomed, newcomers>>

StopFindServers ==
    /\ stop = "servers"
    /\ doomed' = Found
    /\ stop' = "kill_servers"
    /\ UNCHANGED <<daemon, server, term, stops, newcomers>>

StopKillServers ==
    /\ stop = "kill_servers"
    /\ Terminate(doomed)
    /\ doomed' = {} /\ newcomers' = {} /\ stop' = "idle"
    /\ UNCHANGED <<daemon, stops>>

\* Defect: the servers are killed before the daemons.
StopServersFirst ==
    \/ /\ stop = "idle" /\ stops < MaxStops
       /\ Terminate(Found)
       /\ stop' = "servers" /\ stops' = stops + 1
       /\ UNCHANGED <<daemon, doomed, newcomers>>
    \/ /\ stop = "servers"
       /\ doomed' = {d \in Daemons : Lives(d)} \cup {s \in Servers : server[s] = "forked"}
       /\ stop' = "kill_daemons"
       /\ UNCHANGED <<daemon, server, term, stops, newcomers>>
    \/ /\ stop = "kill_daemons"
       /\ daemon' = [d \in Daemons |-> IF d \in doomed THEN "killed" ELSE daemon[d]]
       /\ server' = [s \in Servers |-> IF s \in doomed THEN "none" ELSE server[s]]
       /\ term' = term \ doomed /\ doomed' = {} /\ newcomers' = {} /\ stop' = "idle"
       /\ UNCHANGED stops

StopStep == StopFindDaemons \/ StopKillDaemons \/ StopFindServers \/ StopKillServers

-----------------------------------------------------------------------------
(* scheduler_server, which is not part of the repository: it takes the     *)
(* port, or ends if that is taken.                                         *)

Turn(s, p) ==
    /\ server' = [server EXCEPT ![s] = p]
    /\ UNCHANGED <<daemon, stop, stops, doomed, newcomers>>

PortTaken == \E s \in Servers : server[s] \in {"serving", "stopped"}

ServerRuns(s) ==
    /\ \/ server[s] = "forked" /\ Turn(s, "starting")
       \/ server[s] = "starting" /\ Turn(s, IF PortTaken THEN "none" ELSE "serving")
    /\ UNCHANGED term

ServerEnds(s) == server[s] = "serving" /\ Turn(s, "none") /\ UNCHANGED term

ServerStops(s) == server[s] = "serving" /\ Turn(s, "stopped") /\ UNCHANGED term

ServerGoesOn(s) ==
    /\ server[s] = "stopped"
    /\ Turn(s, IF s \in term THEN "none" ELSE "serving")
    /\ term' = term \ {s}

DaemonNext ==
    \/ \E d \in Daemons : StartDaemon(d) \/ DaemonStep(d)
    \/ StopStep
    \/ \E s \in Servers : ServerRuns(s) \/ ServerEnds(s) \/ ServerStops(s) \/ ServerGoesOn(s)

\* The daemons and the servers run; nobody has to start or stop anything.
DaemonFairness ==
    /\ \A d \in Daemons : WF_daemonVars(DaemonStep(d))
    /\ \A s \in Servers : WF_daemonVars(ServerRuns(s))

DaemonSpec == DaemonInit /\ [][DaemonNext]_daemonVars /\ DaemonFairness
-----------------------------------------------------------------------------
(* Properties.                                                             *)

(* What stop.sh leaves behind: daemons that start.sh started while it ran, *)
(* the servers they started, those that a daemon started between the ps    *)
(* that finds it and the kill, and servers that are stopped and will end   *)
(* when they go on.  (And the types are right.)                            *)
StopLeavesNewcomers ==
    /\ []DaemonTypeOK
    /\ [][stop # "idle" /\ stop' = "idle" =>
            /\ \A d \in Daemons : Lives(d)' => d \in newcomers
            /\ \A s \in Servers : server'[s] # "none" => s \in newcomers \cup term']_daemonVars

(* As long as a daemon lives a server serves again and again, whatever     *)
(* other daemons, stop.sh and crashes do, unless one that is stopped keeps *)
(* the port: what is started over it cannot serve.                         *)
DaemonKeepsServer ==
    \A d \in Daemons : <>[]Lives(d) => []<>PortTaken
=============================================================================
