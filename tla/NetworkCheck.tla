---------------------------- MODULE NetworkCheck ----------------------------
(***************************************************************************)
(* network_check/network_check.c: a caller starts a thread that runs one   *)
(* check, most by reading the output of a command, and kills that command  *)
(* when it takes too long.  Nothing is shared but the caller's "param",    *)
(* and what a fork shares: a command inherits the write ends of the pipes  *)
(* that other checks have open in that moment, and its reader sees the end *)
(* of the file only when nobody holds a write end any more.                *)
(***************************************************************************)
EXTENDS Integers

CONSTANTS
    Checks,             \* calls of get_address(), ..., test_download()
    Pids,               \* bound: the numbers the system has for processes
    Vacant, Outsider    \* whose a pid is: nobody's, or of no check's child

ASSUME PidsAssumption ==
    /\ Pids \subseteq Nat \ {0}
    /\ Vacant \notin Checks /\ Outsider \notin Checks /\ Vacant # Outsider

\* What a check waits for: no command, one process (bash becomes it), or a
\* pipeline, for which bash starts other processes and waits.
Kinds == {"none", "single", "pipeline"}

VARIABLES
    kind,       \* the kind of each check
    cpc,        \* thread_check(): where each caller is
    tpc,        \* do_thread_check(): where each thread is
    aborted,    \* the local of thread_check()
    result,     \* param->result
    child_pid,  \* param->child_pid: 0, then what fork() has returned
    cpid,       \* the local of my_popen(); 0 before the fork
    found,      \* the thread has found the answer in the output
    writer,     \* checks whose write end this process has open
    holder,     \* the processes of the system: whose each pid is
    shell,      \* the process that was forked
    helpers,    \* the processes of a pipeline
    held,       \* the write ends that shell and helpers hold
    output,     \* lines of the command in the pipe: none, the answer, one more
    struck      \* ghost: whose processes the kill() of each check has reached

caller == <<cpc, aborted>>
param == <<result, child_pid>>
thread == <<tpc, cpid, found, writer>>
processes == <<holder, shell, helpers, held>>
vars == <<kind, caller, param, thread, processes, output, struck>>

Failed == -1        \* what fork() returns when it makes no child

Init ==
    /\ kind \in [Checks -> Kinds]
    /\ cpc = [c \in Checks |-> "idle"]
    /\ tpc = [c \in Checks |-> "none"]
    /\ aborted = [c \in Checks |-> FALSE]
    /\ result = [c \in Checks |-> "pending"]
    /\ child_pid = [c \in Checks |-> 0]
    /\ cpid = [c \in Checks |-> 0]
    /\ found = [c \in Checks |-> FALSE]
    /\ writer = {}
    /\ holder \in [Pids -> {Vacant, Outsider}]
    /\ shell = [c \in Checks |-> "none"]
    /\ helpers = [c \in Checks |-> "none"]
    /\ held = [c \in Checks |-> {}]
    /\ output = [c \in Checks |-> 0]
    /\ struck = [c \in Checks |-> {}]

Put(f, c, v) == [f EXCEPT ![c] = v]
Runs(c) == shell[c] = "running" \/ helpers[c] = "running"
AtEnd(c) == c \notin writer /\ \A d \in Checks : c \in held[d] => ~Runs(d)

-----------------------------------------------------------------------------
(* The caller: get_xxx() and thread_check().                               *)

\* get_xxx() prepares "param" and creates the thread, which may fail.
Call(c) ==
    /\ cpc[c] = "idle"
    /\ \/ cpc' = Put(cpc, c, "poll") /\ tpc' = Put(tpc, c, "start") /\ UNCHANGED result
       \/ cpc' = Put(cpc, c, "returned") /\ result' = Put(result, c, "exception") /\ UNCHANGED tpc
    /\ UNCHANGED <<kind, aborted, child_pid, cpid, found, writer, processes, output, struck>>

PollOver(c) ==
    /\ cpc[c] = "poll" /\ result[c] # "pending"
    /\ cpc' = Put(cpc, c, "join")
    /\ UNCHANGED <<kind, aborted, param, thread, processes, output, struck>>

\* The test of the result comes before that of the child and the time.
PollPending(c) ==
    /\ cpc[c] = "poll" /\ result[c] = "pending"
    /\ cpc' = Put(cpc, c, "test")
    /\ UNCHANGED <<kind, aborted, param, thread, processes, output, struck>>

\* There is no child, or it is not yet time(NULL) >= time_start + timeout:
\* time is left out, and may or may not be over whenever it is asked for.
PollSleep(c) ==
    /\ cpc[c] = "test"
    /\ cpc' = Put(cpc, c, "poll")
    /\ UNCHANGED <<kind, aborted, param, thread, processes, output, struck>>

\* There is a child, or -1, and it is time.
Abort(c) ==
    /\ cpc[c] = "test" /\ child_pid[c] # 0
    /\ cpc' = Put(cpc, c, "kill")
    /\ aborted' = Put(aborted, c, TRUE)
    /\ UNCHANGED <<kind, param, thread, processes, output, struck>>

\* Whose processes a signal to this number reaches: 0 are those of the
\* caller's group, -1 all there are.
Reached(pid) == IF pid \in Pids THEN {holder[pid]} \ {Vacant} ELSE Checks \cup {Outsider}

\* kill(child_pid, SIGKILL), which does nothing to a zombie.
Kill(c) ==
    /\ cpc[c] = "kill"
    /\ cpc' = Put(cpc, c, "join")
    /\ struck' = Put(struck, c, Reached(child_pid[c]))
    /\ LET Killed(f) == [d \in Checks |-> IF d \in struck'[c] /\ f[d] = "running"
                                          THEN "killed" ELSE f[d]]
       IN /\ shell' = Killed(shell)
          /\ helpers' = IF child_pid[c] \in Pids THEN helpers ELSE Killed(helpers)
    /\ UNCHANGED <<kind, aborted, param, thread, holder, held, output>>

\* Defect: an answer that came in spite of the kill is thrown away.
JoinForgetful(c) ==
    /\ cpc[c] = "join" /\ tpc[c] = "done"
    /\ cpc' = Put(cpc, c, "returned")
    /\ result' = IF aborted[c] THEN Put(result, c, "timeout") ELSE result
    /\ UNCHANGED <<kind, aborted, child_pid, thread, processes, output, struck>>

Join(c) ==
    /\ cpc[c] = "join" /\ tpc[c] = "done"
    /\ cpc' = Put(cpc, c, "returned")
    /\ result' = IF aborted[c] /\ result[c] # "success" THEN Put(result, c, "timeout") ELSE result
    /\ UNCHANGED <<kind, aborted, child_pid, thread, processes, output, struck>>

-----------------------------------------------------------------------------
(* The thread: do_thread_check() and the check itself.                     *)

MoveTo(c, l) == tpc' = Put(tpc, c, l)
Conclude(c, r) == MoveTo(c, "done") /\ result' = Put(result, c, r)

\* The checks without a command and what they return: no socket, nothing of
\* use in the list, or the answer; what they call ends by itself.
AddressOutcomes == {"exception", "failure", "success"}  \* do_get_address()
DnsOutcomes == {"exception", "failure", "success"}      \* do_get_dns()
DomainOutcomes == {"exception", "failure", "success"}   \* do_parse_domain()
CheckItself(c) ==
    /\ tpc[c] = "start" /\ kind[c] = "none"
    /\ \E r \in AddressOutcomes \cup DnsOutcomes \cup DomainOutcomes :
          Conclude(c, r) /\ found' = Put(found, c, r = "success")
    /\ UNCHANGED <<kind, caller, child_pid, cpid, writer, processes, output, struck>>

OpenPipe(c) ==
    /\ tpc[c] = "start" /\ kind[c] # "none"
    /\ \/ writer' = writer \cup {c} /\ MoveTo(c, "fork")
       \/ MoveTo(c, "failed") /\ UNCHANGED writer
    /\ UNCHANGED <<kind, caller, param, cpid, found, processes, output, struck>>

\* fork() gives the child a pid that is nobody's, and every write end that is
\* open in the process.  Failure is looked for as "cpid < -1", which it never is.
Fork(c) ==
    /\ tpc[c] = "fork"
    /\ MoveTo(c, "pid")
    /\ \/ /\ \E p \in Pids : /\ holder[p] = Vacant
                             /\ holder' = Put(holder, p, c)
                             /\ cpid' = Put(cpid, c, p)
          /\ shell' = Put(shell, c, "running")
          /\ held' = Put(held, c, writer)
       \/ cpid' = Put(cpid, c, Failed) /\ UNCHANGED <<holder, shell, held>>
    /\ UNCHANGED <<kind, caller, param, found, writer, helpers, output, struck>>

StorePid(c) ==
    /\ tpc[c] = "pid"
    /\ child_pid' = Put(child_pid, c, cpid[c])
    /\ MoveTo(c, "close")
    /\ UNCHANGED <<kind, caller, result, cpid, found, writer, processes, output, struck>>

\* Defect: the write end stays open in the process.
CloseWriterNever(c) ==
    /\ tpc[c] = "close"
    /\ MoveTo(c, "read") \/ MoveTo(c, "failed")
    /\ UNCHANGED <<kind, caller, param, cpid, found, writer, processes, output, struck>>

\* close() of the write end, and fdopen(), which may fail.
CloseWriter(c) ==
    /\ tpc[c] = "close"
    /\ writer' = writer \ {c}
    /\ MoveTo(c, "read") \/ MoveTo(c, "failed")
    /\ UNCHANGED <<kind, caller, param, cpid, found, processes, output, struck>>

\* do_get_gateway(), do_ping_server() and do_test_download() read line by
\* line until one brings the answer.
ReadAnswer(c) ==
    /\ tpc[c] = "read" /\ ~found[c] /\ output[c] >= 1
    /\ found' = Put(found, c, TRUE)
    /\ UNCHANGED <<kind, caller, param, tpc, cpid, writer, processes, output, struck>>

ReadOver(c) ==
    /\ MoveTo(c, "pclose")
    /\ UNCHANGED <<kind, caller, param, cpid, found, writer, processes, output, struck>>

\* fgets() comes before the test of the result: even with the answer found it
\* takes another line, or the end of the file, to leave the loop.
ReadAnother(c) == tpc[c] = "read" /\ found[c] /\ output[c] = 2 /\ ReadOver(c)

\* What was written is read before the end.
ReadEnd(c) == tpc[c] = "read" /\ AtEnd(c) /\ (found[c] \/ output[c] = 0) /\ ReadOver(c)

\* Defect: my_pclose() waits for the child, as pclose() does, and frees its pid.
ClosePipeReaps(c) ==
    /\ tpc[c] = "pclose" /\ shell[c] # "running"
    /\ output' = Put(output, c, 0)
    /\ holder' = [p \in Pids |-> IF p = cpid[c] THEN Vacant ELSE holder[p]]
    /\ MoveTo(c, "store")
    /\ UNCHANGED <<kind, caller, param, cpid, found, writer, shell, helpers, held, struck>>

\* my_pclose() is fclose(): nobody waits for the child, which remains a zombie
\* and keeps its pid.
ClosePipe(c) ==
    /\ tpc[c] = "pclose"
    /\ output' = Put(output, c, 0)
    /\ MoveTo(c, "store")
    /\ UNCHANGED <<kind, caller, param, cpid, found, writer, processes, struck>>

\* What the check returns becomes param->result, and the thread ends.
StoreResult(c) ==
    /\ \/ tpc[c] = "failed" /\ Conclude(c, "exception")
       \/ tpc[c] = "store" /\ Conclude(c, IF found[c] THEN "success" ELSE "failure")
    /\ UNCHANGED <<kind, caller, child_pid, cpid, found, writer, processes, output, struck>>

-----------------------------------------------------------------------------
(* The command.                                                            *)

\* Lines that nobody is going to read are left out.
Write(c) ==
    /\ tpc[c] \in {"pid", "close", "read", "pclose"}
    /\ \/ kind[c] = "single" /\ shell[c] = "running"
       \/ helpers[c] = "running"
    /\ output[c] < 2
    /\ output' = Put(output, c, output[c] + 1)
    /\ UNCHANGED <<kind, caller, param, thread, processes, struck>>

StartHelpers(c) ==
    /\ kind[c] = "pipeline" /\ shell[c] = "running" /\ helpers[c] = "none"
    /\ helpers' = Put(helpers, c, "running")
    /\ UNCHANGED <<kind, caller, param, thread, holder, shell, held, output, struck>>

HelpersEnd(c) ==
    /\ helpers[c] = "running"
    /\ helpers' = Put(helpers, c, "ended")
    /\ UNCHANGED <<kind, caller, param, thread, holder, shell, held, output, struck>>

ShellEnds(c) ==
    /\ shell[c] = "running"
    /\ kind[c] = "pipeline" => helpers[c] \in {"ended", "killed"}
    /\ shell' = Put(shell, c, "ended")
    /\ UNCHANGED <<kind, caller, param, thread, holder, helpers, held, output, struck>>

\* A helper has a pid as well; nobody keeps one, which makes it an outsider's.
Outsiders ==
    /\ \E p \in Pids : \/ holder[p] = Vacant /\ holder' = Put(holder, p, Outsider)
                       \/ holder[p] = Outsider /\ holder' = Put(holder, p, Vacant)
    /\ UNCHANGED <<kind, caller, param, thread, shell, helpers, held, output, struck>>

-----------------------------------------------------------------------------
CallerStep(c) ==
    PollOver(c) \/ PollPending(c) \/ PollSleep(c) \/ Abort(c) \/ Kill(c) \/ Join(c)
ThreadStep(c) ==
    \/ CheckItself(c) \/ OpenPipe(c) \/ Fork(c) \/ StorePid(c) \/ CloseWriter(c)
    \/ ReadAnswer(c) \/ ReadAnother(c) \/ ReadEnd(c) \/ ClosePipe(c) \/ StoreResult(c)
CommandStep(c) == Write(c) \/ StartHelpers(c) \/ HelpersEnd(c) \/ ShellEnds(c)

Next ==
    \/ \E c \in Checks : Call(c) \/ CallerStep(c) \/ ThreadStep(c) \/ CommandStep(c)
    \/ Outsiders

\* The two threads of a check run, and a time-out that is asked for over and
\* over comes true in the end.  A command may hang.
Fairness ==
    \A c \in Checks : /\ WF_vars(ThreadStep(c))
                      /\ WF_vars(PollOver(c) \/ PollPending(c) \/ PollSleep(c))
                      /\ SF_vars(Abort(c)) /\ WF_vars(Kill(c) \/ Join(c))

Spec == Init /\ [][Next]_vars /\ Fairness

-----------------------------------------------------------------------------
(* Properties.                                                             *)

TypeOK ==
    /\ kind \in [Checks -> Kinds]
    /\ cpc \in [Checks -> {"idle", "poll", "test", "kill", "join", "returned"}]
    /\ tpc \in [Checks -> {"none", "start", "fork", "pid", "close", "read", "pclose",
                         "store", "failed", "done"}]
    /\ aborted \in [Checks -> BOOLEAN]
    /\ result \in [Checks -> {"pending", "exception", "failure", "success", "timeout"}]
    /\ child_pid \in [Checks -> Pids \cup {0, Failed}]
    /\ cpid \in [Checks -> Pids \cup {0, Failed}]
    /\ found \in [Checks -> BOOLEAN]
    /\ writer \subseteq Checks
    /\ holder \in [Pids -> Checks \cup {Vacant, Outsider}]
    /\ shell \in [Checks -> {"none", "running", "ended", "killed"}]
    /\ helpers \in [Checks -> {"none", "running", "ended", "killed"}]
    /\ held \in [Checks -> SUBSET Checks]
    /\ output \in [Checks -> 0 .. 2]
    /\ struck \in [Checks -> SUBSET (Checks \cup {Outsider})]

(* When a check returns, its thread has ended, so that nobody writes into  *)
(* the "param" of a frame that is gone, and the result is final and true:  *)
(* "success" exactly when the answer was found, be it while the command    *)
(* was being killed, and "timeout" only if kill() was called, be it too     *)
(* late to find the command running.                                       *)
ResultIsTrue ==
    /\ TypeOK
    /\ \A c \in Checks : cpc[c] = "returned" =>
        /\ tpc[c] \in {"none", "done"} /\ c \notin writer
        /\ result[c] # "pending"
        /\ result[c] = "success" <=> found[c]
        /\ result[c] = "timeout" => aborted[c]

(* A timeout reaches the process that its own check has forked, running or *)
(* a zombie, and nobody else: not before the pid is published, when it is  *)
(* 0, nor while the thread closes the pipe and stores the result, when the *)
(* child is over and others take the pids that are free.  The exception is *)
(* a check whose own fork failed and made no process: its pid is -1.       *)
KillsOnlyOwn == \A c \in Checks : struck[c] \subseteq {c} \/ shell[c] = "none"

(* A timeout ends a check even if its command hangs.  The exceptions are   *)
(* the processes that the kill does not reach and that hold the write end  *)
(* of the pipe: the helpers of the check's own pipeline, and a command of  *)
(* another check that was forked while the pipe was being opened.          *)
HeldUp(c) ==
    \E d \in Checks : c \in held[d]
        /\ (helpers[d] = "running" \/ (d # c /\ shell[d] = "running"))
ReturnsUnlessHeldUp ==
    \A c \in Checks : <>[](cpc[c] \in {"idle", "returned"} \/ HeldUp(c))
=============================================================================
