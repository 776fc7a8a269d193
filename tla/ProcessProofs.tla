--------------------------- MODULE ProcessProofs ---------------------------
(***************************************************************************)
(* Safety of what starts processes: the checks of network_check, for any   *)
(* number of them at a time, the numbers that popen_ex gives its callers   *)
(* for their children, and what stop.sh of shell_daemon leaves behind.     *)
(***************************************************************************)
EXTENDS NetworkCheck, ProcessHandle, SchedulerDaemon, TLAPS

-----------------------------------------------------------------------------
(* network_check.                                                          *)

(* What a check's caller, its thread and its "param" have in common.  The  *)
(* thread writes the result once, last of all; until then it is "pending", *)
(* which keeps the caller from returning.                                  *)
CheckInv(c) ==
    /\ cpc[c] = "idle" => tpc[c] = "none" /\ result[c] = "pending"
    /\ cpc[c] = "returned" => tpc[c] \in {"none", "done"}
    /\ tpc[c] = "none" =>
        /\ cpc[c] \in {"idle", "returned"} /\ ~ found[c]
        /\ cpc[c] = "returned" => result[c] = "exception"
    /\ tpc[c] = "done" => result[c] # "pending" /\ (result[c] = "success" <=> found[c])
    /\ tpc[c] \notin {"none", "done"} => result[c] = "pending"
    /\ c \in writer => tpc[c] \in {"fork", "pid", "close"}
    /\ found[c] => tpc[c] \in {"read", "pclose", "store", "done"}
    /\ result[c] = "timeout" => aborted[c]

(* What the pid of a check is worth.  What is published is what fork()     *)
(* returned, and a pid it returned is the child's from then on, whoever    *)
(* else takes or frees one; a fork that failed made no process.            *)
PidInv(c) ==
    /\ cpid[c] # 0 => tpc[c] \notin {"none", "start", "fork"}
    /\ child_pid[c] \in {0, cpid[c]}
    /\ cpid[c] \in Pids => holder[cpid[c]] = c
    /\ cpid[c] \notin Pids => shell[c] = "none"
    /\ cpc[c] = "kill" => child_pid[c] # 0
    /\ struck[c] # {} => cpid[c] # 0
    /\ struck[c] \subseteq {c} \/ shell[c] = "none"

NetworkInv == TypeOK /\ \A c \in Checks : CheckInv(c) /\ PidInv(c)

(* The variables keep their types.                                         *)
LEMMA NetworkTypeStep == TypeOK /\ [Next]_vars => TypeOK'
<1> SUFFICES ASSUME TypeOK, [Next]_vars PROVE TypeOK'
  OBVIOUS
<1> USE DEF TypeOK, Put, MoveTo, Conclude, caller, param, thread, processes, Failed
<1>1. ASSUME NEW c \in Checks, Call(c) \/ CallerStep(c) PROVE TypeOK'
  <2>1. CASE Call(c) BY <2>1 DEF Call
  <2>2. CASE PollOver(c) \/ PollPending(c) \/ PollSleep(c)
    BY <2>2 DEF PollOver, PollPending, PollSleep
  <2>3. CASE Abort(c) BY <2>3 DEF Abort
  <2>4. CASE Kill(c)
    <3> DEFINE Killed(f) == [d \in Checks |-> IF d \in struck'[c] /\ f[d] = "running"
                                              THEN "killed" ELSE f[d]]
               States == {"none", "running", "ended", "killed"}
    <3>1. Reached(child_pid[c]) \subseteq Checks \cup {Outsider}
      BY DEF Reached
    <3>2. struck' \in [Checks -> SUBSET (Checks \cup {Outsider})]
      BY <2>4, <3>1 DEF Kill
    <3>3. \A f \in [Checks -> States] : Killed(f) \in [Checks -> States]
      OBVIOUS
    <3>4. shell' = Killed(shell) /\ helpers' \in {helpers, Killed(helpers)}
      BY <2>4 DEF Kill
    <3>5. shell' \in [Checks -> States] /\ helpers' \in [Checks -> States]
      BY <3>3, <3>4
    <3>6. /\ cpc' = Put(cpc, c, "join")
          /\ UNCHANGED <<kind, aborted, param, thread, holder, held, output>>
      BY <2>4 DEF Kill
    <3> QED BY <3>2, <3>5, <3>6
  <2>5. CASE Join(c) BY <2>5 DEF Join
  <2> QED BY <1>1, <2>1, <2>2, <2>3, <2>4, <2>5 DEF CallerStep
<1>2. ASSUME NEW c \in Checks, ThreadStep(c) PROVE TypeOK'
  <2>1. CASE CheckItself(c) BY <2>1 DEF CheckItself, AddressOutcomes, DnsOutcomes, DomainOutcomes
  <2>2. CASE OpenPipe(c) BY <2>2 DEF OpenPipe
  <2>3. CASE Fork(c) BY <2>3 DEF Fork
  <2>4. CASE StorePid(c) \/ CloseWriter(c) BY <2>4 DEF StorePid, CloseWriter
  <2>5. CASE ReadAnswer(c) \/ ReadAnother(c) \/ ReadEnd(c)
    BY <2>5 DEF ReadAnswer, ReadAnother, ReadEnd, ReadOver
  <2>6. CASE ClosePipe(c)
    <3>1. 0 \in 0 .. 2 OBVIOUS
    <3> QED BY <2>6, <3>1 DEF ClosePipe
  <2>7. CASE StoreResult(c) BY <2>7 DEF StoreResult
  <2> QED BY <1>2, <2>1, <2>2, <2>3, <2>4, <2>5, <2>6, <2>7 DEF ThreadStep
<1>3. ASSUME NEW c \in Checks, CommandStep(c) PROVE TypeOK'
  <2>1. CASE Write(c)
    <3>1. output[c] + 1 \in 0 .. 2 BY <2>1 DEF Write
    <3> QED BY <2>1, <3>1 DEF Write
  <2>2. CASE StartHelpers(c) \/ HelpersEnd(c) \/ ShellEnds(c)
    BY <2>2 DEF StartHelpers, HelpersEnd, ShellEnds
  <2> QED BY <1>3, <2>1, <2>2 DEF CommandStep
<1>4. CASE Outsiders BY <1>4 DEF Outsiders
<1>5. CASE UNCHANGED vars BY <1>5 DEF vars
<1> QED BY <1>1, <1>2, <1>3, <1>4, <1>5 DEF Next

(* The steps of a check are its own: those of another one leave CheckInv   *)
(* alone, whatever they kill or inherit.                                   *)
LEMMA CheckStep ==
    ASSUME TypeOK, TypeOK', [Next]_vars, NEW c \in Checks, CheckInv(c)
    PROVE  CheckInv(c)'
<1> USE DEF TypeOK, CheckInv, Put, MoveTo, Conclude, caller, param, thread
<1>1. ASSUME NEW d \in Checks, Call(d) PROVE CheckInv(c)'
  BY <1>1 DEF Call
<1>2. ASSUME NEW d \in Checks, PollOver(d) \/ PollPending(d) \/ PollSleep(d) PROVE CheckInv(c)'
  BY <1>2 DEF PollOver, PollPending, PollSleep
<1>3. ASSUME NEW d \in Checks, Abort(d) \/ Kill(d) PROVE CheckInv(c)'
  BY <1>3 DEF Abort, Kill
<1>4. ASSUME NEW d \in Checks, Join(d) PROVE CheckInv(c)'
  BY <1>4 DEF Join
<1>5. ASSUME NEW d \in Checks, ThreadStep(d) PROVE CheckInv(c)'
  <2>1. CASE CheckItself(d)
    <3>1. PICK r \in {"exception", "failure", "success"} :
              Conclude(d, r) /\ found' = Put(found, d, r = "success")
      BY <2>1 DEF CheckItself, AddressOutcomes, DnsOutcomes, DomainOutcomes
    <3>2. UNCHANGED <<cpc, aborted, writer>>
      BY <2>1 DEF CheckItself
    <3>3. CASE d = c
      <4>1. tpc'[c] = "done" /\ result'[c] = r /\ found'[c] = (r = "success") BY <3>1, <3>3
      <4>2. tpc[c] = "start" BY <2>1, <3>3 DEF CheckItself
      <4> QED BY <3>2, <4>1, <4>2
    <3>4. CASE d # c BY <3>1, <3>2, <3>4
    <3> QED BY <3>3, <3>4
  <2>2. CASE OpenPipe(d) BY <2>2 DEF OpenPipe
  <2>3. CASE Fork(d) \/ StorePid(d) BY <2>3 DEF Fork, StorePid
  <2>4. CASE CloseWriter(d) BY <2>4 DEF CloseWriter
  <2>5. CASE ReadAnswer(d) BY <2>5 DEF ReadAnswer
  <2>6. CASE ReadAnother(d) \/ ReadEnd(d) BY <2>6 DEF ReadAnother, ReadEnd, ReadOver
  <2>7. CASE ClosePipe(d) BY <2>7 DEF ClosePipe
  <2>8. CASE StoreResult(d) BY <2>8 DEF StoreResult
  <2> QED BY <1>5, <2>1, <2>2, <2>3, <2>4, <2>5, <2>6, <2>7, <2>8 DEF ThreadStep
<1>6. ASSUME NEW d \in Checks, CommandStep(d) PROVE CheckInv(c)'
  BY <1>6 DEF CommandStep, Write, StartHelpers, HelpersEnd, ShellEnds
<1>7. CASE Outsiders BY <1>7 DEF Outsiders
<1>8. CASE UNCHANGED vars BY <1>8 DEF vars
<1> QED BY <1>1, <1>2, <1>3, <1>4, <1>5, <1>6, <1>7, <1>8 DEF Next, CallerStep

(* A pid stays with its child: a fork gives away one that nobody has, and  *)
(* what others give back was never a check's, whose zombie nobody reaps.   *)
LEMMA PidStep ==
    ASSUME TypeOK, TypeOK', [Next]_vars, NEW c \in Checks, CheckInv(c), PidInv(c)
    PROVE  PidInv(c)'
<1> USE PidsAssumption DEF TypeOK, PidInv, Put, MoveTo, Conclude, caller, param, thread, processes
<1>1. ASSUME NEW d \in Checks,
             Call(d) \/ PollOver(d) \/ PollPending(d) \/ PollSleep(d) \/ Abort(d) \/ Join(d)
      PROVE  PidInv(c)'
  <2>1. UNCHANGED <<child_pid, cpid, holder, shell, struck>>
    BY <1>1 DEF Call, PollOver, PollPending, PollSleep, Abort, Join
  <2>2. cpid[c] # 0 => tpc'[c] = tpc[c]
    BY <1>1 DEF CheckInv, Call, PollOver, PollPending, PollSleep, Abort, Join
  <2>3. cpc'[c] = "kill" => child_pid[c] # 0
    BY <1>1 DEF Call, PollOver, PollPending, PollSleep, Abort, Join
  <2> QED BY <2>1, <2>2, <2>3
<1>2. ASSUME NEW d \in Checks, Kill(d) PROVE PidInv(c)'
  <2>1. /\ cpc' = Put(cpc, d, "join") /\ struck' = Put(struck, d, Reached(child_pid[d]))
        /\ UNCHANGED <<cpid, child_pid, tpc, holder>>
    BY <1>2 DEF Kill
  <2>2. shell[c] = "none" => shell'[c] = "none"
    BY <1>2 DEF Kill
  <2>3. shell'[c] = "none" => shell[c] = "none"
    BY <1>2 DEF Kill
  <2>4. d = c => cpid[c] # 0 /\ child_pid[c] = cpid[c]
    BY <1>2 DEF Kill
  <2>5. d = c /\ cpid[c] \in Pids => struck'[c] \subseteq {c}
    BY <2>1, <2>4 DEF Reached
  <2> QED BY <2>1, <2>2, <2>3, <2>4, <2>5
<1>3. ASSUME NEW d \in Checks, Fork(d) PROVE PidInv(c)'
  <2>1. CASE \E p \in Pids : /\ holder[p] = Vacant /\ holder' = Put(holder, p, d)
                             /\ cpid' = Put(cpid, d, p)
    <3>1. PICK p \in Pids : /\ holder[p] = Vacant /\ holder' = Put(holder, p, d)
                            /\ cpid' = Put(cpid, d, p)
      BY <2>1
    <3>2. /\ tpc[d] = "fork" /\ tpc' = Put(tpc, d, "pid")
          /\ UNCHANGED <<cpc, child_pid, struck>>
      BY <1>3 DEF Fork
    <3>3. d # c => shell'[c] = shell[c]
      BY <1>3 DEF Fork
    <3>4. CASE d = c BY <3>1, <3>2, <3>4
    <3>5. CASE d # c
      <4>1. cpid'[c] = cpid[c] BY <3>1, <3>5
      <4>2. cpid[c] \in Pids => cpid[c] # p BY <3>1
      <4>3. cpid[c] \in Pids => holder'[cpid[c]] = holder[cpid[c]] BY <3>1, <4>2
      <4> QED BY <3>2, <3>3, <3>5, <4>1, <4>3
    <3> QED BY <3>4, <3>5
  <2>2. CASE cpid' = Put(cpid, d, Failed) /\ UNCHANGED <<holder, shell>>
    BY <1>3, <2>2 DEF Fork, Failed
  <2> QED BY <1>3, <2>1, <2>2 DEF Fork
<1>4. ASSUME NEW d \in Checks, StorePid(d) PROVE PidInv(c)'
  BY <1>4 DEF StorePid
<1>5. ASSUME NEW d \in Checks,
             \/ CheckItself(d) \/ OpenPipe(d) \/ CloseWriter(d) \/ ReadAnswer(d)
             \/ ReadAnother(d) \/ ReadEnd(d) \/ ClosePipe(d) \/ StoreResult(d)
      PROVE  PidInv(c)'
  BY <1>5 DEF CheckItself, OpenPipe, CloseWriter, ReadAnswer, ReadAnother, ReadEnd, ReadOver,
     ClosePipe, StoreResult
<1>6. ASSUME NEW d \in Checks, CommandStep(d) PROVE PidInv(c)'
  BY <1>6 DEF CommandStep, Write, StartHelpers, HelpersEnd, ShellEnds
<1>7. CASE Outsiders
  <2>1. PICK p \in Pids, w \in {Vacant, Outsider} :
            holder[p] \in {Vacant, Outsider} /\ holder' = Put(holder, p, w)
    BY <1>7 DEF Outsiders
  <2>2. cpid[c] \in Pids => cpid[c] # p BY <2>1
  <2>3. cpid[c] \in Pids => holder'[cpid[c]] = holder[cpid[c]] BY <2>1, <2>2
  <2> QED BY <1>7, <2>3 DEF Outsiders
<1>8. CASE UNCHANGED vars BY <1>8 DEF vars
<1> QED BY <1>1, <1>2, <1>3, <1>4, <1>5, <1>6, <1>7, <1>8 DEF Next, CallerStep, ThreadStep

(* The inductive invariant of network_check.                               *)
LEMMA NetworkInvariant == Spec => []NetworkInv
<1>1. Init => NetworkInv
  <2> SUFFICES ASSUME Init PROVE NetworkInv
    OBVIOUS
  <2>1. TypeOK
    <3>1. 0 \in 0 .. 2 OBVIOUS
    <3> QED BY <3>1 DEF Init, TypeOK
  <2>2. \A c \in Checks : CheckInv(c) BY DEF Init, CheckInv
  <2>3. \A c \in Checks : PidInv(c) BY PidsAssumption DEF Init, PidInv
  <2> QED BY <2>1, <2>2, <2>3 DEF NetworkInv
<1>2. NetworkInv /\ [Next]_vars => NetworkInv'
  <2> SUFFICES ASSUME NetworkInv, [Next]_vars PROVE NetworkInv'
    OBVIOUS
  <2>1. TypeOK' BY NetworkTypeStep DEF NetworkInv
  <2>2. \A c \in Checks : CheckInv(c)' BY <2>1, CheckStep DEF NetworkInv
  <2>3. \A c \in Checks : PidInv(c)' BY <2>1, PidStep DEF NetworkInv
  <2> QED BY <2>1, <2>2, <2>3 DEF NetworkInv
<1> QED BY <1>1, <1>2, PTL DEF Spec

(* A check that returns has a final and true result, and nobody is left    *)
(* that writes into its "param".                                           *)
THEOREM ResultIsTrueHolds == Spec => []ResultIsTrue
<1>1. NetworkInv => ResultIsTrue
  BY DEF NetworkInv, CheckInv, ResultIsTrue
<1> QED BY <1>1, NetworkInvariant, PTL

(* A timeout signals the process its check has forked and nobody else,     *)
(* unless that fork has failed and there is no such process.               *)
THEOREM KillsOnlyOwnHolds == Spec => []KillsOnlyOwn
<1>1. NetworkInv => KillsOnlyOwn
  BY DEF NetworkInv, PidInv, KillsOnlyOwn
<1> QED BY <1>1, NetworkInvariant, PTL

-----------------------------------------------------------------------------
(* popen_ex.                                                               *)

\* The caller may still use the number it was given for its child.
Usable(c) == file[c] = "open" /\ ~ (system = "posix" /\ toldDead[c])

(* A caller that has an open pipe has a number, which names its child as   *)
(* long as no pid was used again.                                          *)
HandleInv ==
    /\ HandleTypeOK
    /\ \A c \in Calls : file[c] = "open" => child[c] \in Numbers
    /\ ~ askedAgain => \A c \in Calls : Usable(c) => named[child[c]] = c

(* The variables keep their types.                                         *)
LEMMA HandleTypeStep ==
    ASSUME HandleInv, [HandleNext]_handleVars
    PROVE  /\ HandleTypeOK'
           /\ \A c \in Calls : file'[c] = "open" => child'[c] \in Numbers
<1> USE HandleAssumption DEF HandleInv, HandleTypeOK, Become, GiveAway
<1>1. ASSUME NEW c \in Calls, PopenDone(c)
      PROVE  HandleTypeOK' /\ \A d \in Calls : file'[d] = "open" => child'[d] \in Numbers
  BY <1>1 DEF PopenDone, Inherited
<1>2. ASSUME NEW c \in Calls, PopenNoStream(c)
      PROVE  HandleTypeOK' /\ \A d \in Calls : file'[d] = "open" => child'[d] \in Numbers
  BY <1>2 DEF PopenNoStream, Inherited
<1>3. ASSUME NEW c \in Calls, AskAlive(c)
      PROVE  HandleTypeOK' /\ \A d \in Calls : file'[d] = "open" => child'[d] \in Numbers
  <2>1. toldDead' \in [Calls -> BOOLEAN] /\ askedAgain' \in BOOLEAN
    BY <1>3 DEF AskAlive, Again
  <2>2. /\ process' \in [Calls -> {"none", "running", "ended", "259", "reaped"}]
        /\ named' \in [Numbers -> Calls \cup {Nobody, Stranger}]
    BY <1>3 DEF AskAlive, Ended
  <2> QED BY <1>3, <2>1, <2>2 DEF AskAlive
<1>4. ASSUME NEW c \in Calls, Pkill(c)
      PROVE  HandleTypeOK' /\ \A d \in Calls : file'[d] = "open" => child'[d] \in Numbers
  <2>1. child[c] \in Numbers BY <1>4 DEF Pkill
  <2>2. /\ process' \in [Calls -> {"none", "running", "ended", "259", "reaped"}]
        /\ named' \in [Numbers -> Calls \cup {Nobody, Stranger}]
    BY <1>4, <2>1 DEF Pkill, Running
  <2>3. askedAgain' \in BOOLEAN BY <1>4 DEF Pkill, Again
  <2> QED BY <1>4, <2>2, <2>3 DEF Pkill
<1>5. ASSUME NEW c \in Calls, Pclose(c)
      PROVE  HandleTypeOK' /\ \A d \in Calls : file'[d] = "open" => child'[d] \in Numbers
  BY <1>5 DEF Pclose
<1>6. ASSUME NEW c \in Calls, EndAtClose(c) \/ EndEarly(c)
      PROVE  HandleTypeOK' /\ \A d \in Calls : file'[d] = "open" => child'[d] \in Numbers
  BY <1>6 DEF EndAtClose, EndEarly
<1>7. CASE Strangers BY <1>7 DEF Strangers
<1>8. CASE UNCHANGED handleVars BY <1>8 DEF handleVars
<1> QED BY <1>1, <1>2, <1>3, <1>4, <1>5, <1>6, <1>7, <1>8 DEF HandleNext

(* A number goes on naming the child of the caller that may use it.        *)
LEMMA NamesStep ==
    ASSUME HandleInv, HandleTypeOK', [HandleNext]_handleVars, ~ askedAgain', NEW d \in Calls, Usable(d)'
    PROVE  named'[child'[d]] = d
<1>0. HandleTypeOK /\ d # Nobody /\ d # Stranger BY HandleAssumption DEF HandleInv
<1>1. ASSUME ~ askedAgain, Usable(d) PROVE named[child[d]] = d /\ child[d] \in Numbers
  BY <1>1 DEF HandleInv, Usable
<1> USE <1>0 DEF Become, GiveAway
<1>2. ASSUME NEW c \in Calls, PopenDone(c) PROVE named'[child'[d]] = d
  <2>1. PICK n \in Numbers : /\ named[n] = Nobody /\ named' = [named EXCEPT ![n] = c]
                            /\ child' = [child EXCEPT ![c] = n]
    BY <1>2 DEF PopenDone
  <2>2. CASE d = c BY <2>1, <2>2 DEF HandleTypeOK
  <2>3. CASE d # c
    <3>1. Usable(d) /\ ~ askedAgain BY <1>2, <2>3 DEF PopenDone, Usable, HandleTypeOK
    <3>2. child'[d] = child[d] /\ named[child[d]] = d /\ child[d] \in Numbers
      BY <1>1, <2>1, <2>3, <3>1 DEF HandleTypeOK
    <3> QED BY <2>1, <3>2 DEF HandleTypeOK
  <2> QED BY <2>2, <2>3
<1>3. ASSUME NEW c \in Calls, PopenNoStream(c) PROVE named'[child'[d]] = d
  <2>1. d # c /\ Usable(d) /\ ~ askedAgain /\ child' = child
    BY <1>3 DEF PopenNoStream, Usable, HandleTypeOK
  <2>2. PICK n \in Numbers :
          named[n] = Nobody /\ (named' = [named EXCEPT ![n] = c] \/ named' = named)
    BY <1>3 DEF PopenNoStream
  <2>3. named[child[d]] = d /\ child[d] \in Numbers BY <1>1, <2>1
  <2> QED BY <2>1, <2>2, <2>3 DEF HandleTypeOK
<1>4. ASSUME NEW c \in Calls, AskAlive(c) PROVE named'[child'[d]] = d
  <2>1. /\ ~ askedAgain /\ Usable(c) /\ UNCHANGED <<system, child, file>>
    BY <1>4 DEF AskAlive, Again, Usable, HandleTypeOK
  <2>2. named[child[c]] = c /\ child[c] \in Numbers BY <2>1 DEF HandleInv, Usable
  <2>3. Usable(d)
    <3>1. CASE d = c BY <2>1, <3>1
    <3>2. CASE d # c BY <1>4, <2>1, <3>2 DEF AskAlive, Usable, HandleTypeOK
    <3> QED BY <3>1, <3>2
  <2>4. named[child[d]] = d /\ child[d] \in Numbers BY <1>1, <2>1, <2>3
  <2>5. CASE named' = named BY <2>1, <2>4, <2>5
  <2>6. CASE named' # named
    <3>1. system = "posix" /\ Ended(c) /\ named' = [named EXCEPT ![child[c]] = Nobody]
      BY <1>4, <2>2, <2>6 DEF AskAlive
    <3>2. ~ Palive(c) BY <2>2, <3>1 DEF Palive, Ended
    <3>3. toldDead'[c] BY <1>4, <3>2 DEF AskAlive, HandleTypeOK
    <3>4. d # c BY <2>1, <3>1, <3>3 DEF Usable
    <3>5. child[d] # child[c] BY <2>2, <2>4, <3>4
    <3> QED BY <2>1, <2>4, <3>1, <3>5 DEF HandleTypeOK
  <2> QED BY <2>5, <2>6
<1>5. ASSUME NEW c \in Calls, Pkill(c) PROVE named'[child'[d]] = d
  <2>1. /\ ~ askedAgain /\ Usable(c) /\ UNCHANGED <<system, child, file, toldDead>>
    BY <1>5 DEF Pkill, Again, Usable, HandleTypeOK
  <2>2. named[child[c]] = c /\ child[c] \in Numbers BY <2>1 DEF HandleInv, Usable
  <2>3. c # Stranger BY HandleAssumption
  <2>4. named' = named BY <1>5, <2>2, <2>3 DEF Pkill
  <2>5. Usable(d) BY <2>1 DEF Usable
  <2> QED BY <1>1, <2>1, <2>4, <2>5
<1>6. ASSUME NEW c \in Calls, Pclose(c) PROVE named'[child'[d]] = d
  <2>1. d # c /\ Usable(d) /\ ~ askedAgain /\ child' = child
    BY <1>6 DEF Pclose, Usable, HandleTypeOK
  <2>2. named[child[d]] = d /\ child[d] \in Numbers BY <1>1, <2>1
  <2>3. CASE named' = named BY <2>1, <2>2, <2>3
  <2>4. CASE named' # named
    <3>1. system = "windows" /\ named' = [named EXCEPT ![child[c]] = Nobody]
      BY <1>6, <2>4 DEF Pclose
    <3>2. Usable(c) BY <1>6, <3>1 DEF Pclose, Usable
    <3>3. named[child[c]] = c BY <2>1, <3>2 DEF HandleInv
    <3>4. child[d] # child[c] BY <2>1, <2>2, <3>3
    <3> QED BY <2>1, <2>2, <3>1, <3>4 DEF HandleTypeOK
  <2> QED BY <2>3, <2>4
<1>7. ASSUME NEW c \in Calls, EndAtClose(c) \/ EndEarly(c) PROVE named'[child'[d]] = d
  BY <1>1, <1>7 DEF EndAtClose, EndEarly, Usable
<1>8. CASE Strangers
  <2>1. Usable(d) /\ ~ askedAgain /\ child' = child BY <1>8 DEF Strangers, Usable
  <2>2. named[child[d]] = d /\ child[d] \in Numbers BY <1>1, <2>1
  <2> QED BY <1>8, <2>1, <2>2 DEF Strangers, HandleTypeOK
<1>9. CASE UNCHANGED handleVars BY <1>1, <1>9 DEF handleVars, Usable
<1> QED BY <1>2, <1>3, <1>4, <1>5, <1>6, <1>7, <1>8, <1>9 DEF HandleNext

(* Both hold at every step.                                                *)
LEMMA HandleInvariant == HandleSpec => []HandleInv
<1>1. ASSUME HandleInit PROVE HandleInv
  <2>1. HandleTypeOK BY <1>1 DEF HandleInit, HandleTypeOK
  <2>2. \A c \in Calls : ~ Usable(c) BY <1>1 DEF HandleInit, Usable
  <2>3. \A c \in Calls : file[c] # "open" BY <1>1 DEF HandleInit
  <2> QED BY <2>1, <2>2, <2>3 DEF HandleInv
<1>2. HandleInv /\ [HandleNext]_handleVars => HandleInv'
  BY HandleTypeStep, NamesStep DEF HandleInv
<1> QED BY <1>1, <1>2, PTL DEF HandleSpec

(* Until it is closed, and on POSIX until goofer_palive() has said the     *)
(* child is dead, a number names the child it was given for and            *)
(* goofer_palive() tells the truth about it.                               *)
THEOREM NumbersNameTheChildHolds == HandleSpec => []NumbersNameTheChild
<1>1. HandleInv => NumbersNameTheChild
  <2> SUFFICES ASSUME HandleInv, ~ askedAgain, NEW c \in Calls, Usable(c)
               PROVE  /\ named[child[c]] = c
                      /\ Palive(c) <=> process[c] = "running" \/ (system = "windows" /\ process[c] = "259")
    BY DEF NumbersNameTheChild, HandleInv, Usable
  <2>1. named[child[c]] = c BY DEF HandleInv
  <2>2. system \in {"posix", "windows"} BY DEF HandleInv, HandleTypeOK
  <2> QED BY <2>1, <2>2 DEF Palive
<1> QED BY <1>1, HandleInvariant, PTL
-----------------------------------------------------------------------------
(* shell_daemon.                                                           *)

(* What stop.sh knows at each of its steps: once ps has looked, a daemon   *)
(* it has not listed was started later; once the kill is done no other     *)
(* lives; and a server it will not find is a newcomer or was just forked.  *)
DaemonInv ==
    /\ DaemonTypeOK
    /\ stop = "idle" => newcomers = {}
    /\ stop = "kill_daemons" =>
          /\ \A d \in Daemons : Lives(d) => d \in doomed \cup newcomers
          /\ \A s \in Servers : server[s] = "forked" => s \in doomed \cup newcomers
    /\ stop \in {"servers", "kill_servers"} => \A d \in Daemons : Lives(d) => d \in newcomers
    /\ stop = "servers" => \A s \in Servers : server[s] = "forked" => s \in newcomers
    /\ stop = "kill_servers" =>
          /\ doomed \subseteq Servers
          /\ \A s \in Servers : server[s] # "none" => s \in doomed \cup newcomers

(* The variables keep their types: stop.sh sends its SIGTERM to servers.   *)
LEMMA DaemonTypeStep == DaemonInv /\ [DaemonNext]_daemonVars => DaemonTypeOK'
<1> SUFFICES ASSUME DaemonInv, [DaemonNext]_daemonVars PROVE DaemonTypeOK'
  OBVIOUS
<1>0. DaemonTypeOK /\ (stop = "kill_servers" => doomed \subseteq Servers)
  BY DEF DaemonInv
<1> USE <1>0
<1>1. ASSUME NEW d \in Daemons, StartDaemon(d) PROVE DaemonTypeOK'
  BY <1>1 DEF DaemonTypeOK, StartDaemon, Goto, DaemonStates
<1>2. ASSUME NEW d \in Daemons, DaemonStep(d) PROVE DaemonTypeOK'
  <2>1. CASE FindProgram(d) BY <2>1 DEF DaemonTypeOK, FindProgram, Goto, DaemonStates
  <2>2. CASE FindStopped(d) BY <2>2 DEF DaemonTypeOK, FindStopped, Goto, DaemonStates
  <2>3. CASE KillProgram(d)
    BY <2>3 DEF DaemonTypeOK, KillProgram, Goto, Terminate, Found, DaemonStates, ServerStates
  <2>4. CASE Sleep(d) BY <2>4 DEF DaemonTypeOK, Sleep, Goto, DaemonStates
  <2>5. CASE KillPort(d)
    BY <2>5 DEF DaemonTypeOK, KillPort, Goto, Terminate, DaemonStates, ServerStates
  <2>6. CASE StartServer(d)
    <3>1. PICK s \in Servers :
            /\ server[s] = "none" /\ server' = [server EXCEPT ![s] = "forked"]
            /\ newcomers' \subseteq newcomers \cup {s} /\ doomed' = doomed \ {s}
      BY <2>6 DEF StartServer
    <3> QED BY <2>6, <3>1 DEF DaemonTypeOK, StartServer, Goto, DaemonStates, ServerStates
  <2> QED BY <1>2, <2>1, <2>2, <2>3, <2>4, <2>5, <2>6 DEF DaemonStep
<1>3. CASE StopFindDaemons
  BY <1>3, DaemonAssumption DEF DaemonTypeOK, StopFindDaemons
<1>4. CASE StopKillDaemons
  BY <1>4 DEF DaemonTypeOK, StopKillDaemons, DaemonStates, ServerStates
<1>5. CASE StopFindServers
  BY <1>5 DEF DaemonTypeOK, StopFindServers, Found
<1>6. CASE StopKillServers
  <2>1. server' \in [Servers -> ServerStates]
    BY <1>6 DEF DaemonTypeOK, StopKillServers, Terminate, ServerStates
  <2>2. term' \subseteq {s \in Servers : server'[s] = "stopped"}
    BY <1>6 DEF DaemonTypeOK, StopKillServers, Terminate
  <2> QED BY <1>6, <2>1, <2>2 DEF DaemonTypeOK, StopKillServers
<1>7. ASSUME NEW s \in Servers, ServerRuns(s) \/ ServerEnds(s) \/ ServerStops(s) \/ ServerGoesOn(s)
      PROVE DaemonTypeOK'
  BY <1>7 DEF DaemonTypeOK, ServerRuns, ServerEnds, ServerStops, ServerGoesOn, Turn, ServerStates
<1>8. CASE UNCHANGED daemonVars BY <1>8 DEF DaemonTypeOK, daemonVars
<1> QED BY <1>1, <1>2, <1>3, <1>4, <1>5, <1>6, <1>7, <1>8 DEF DaemonNext, StopStep

(* Nobody but the scripts starts a daemon, and only a daemon a server.     *)
LEMMA DaemonInvStep == DaemonInv /\ [DaemonNext]_daemonVars => DaemonInv'
<1> SUFFICES ASSUME DaemonInv, [DaemonNext]_daemonVars PROVE DaemonInv'
  OBVIOUS
<1>0. DaemonTypeOK /\ DaemonTypeOK' BY DaemonTypeStep DEF DaemonInv
<1>1. ASSUME NEW d \in Daemons, StartDaemon(d) PROVE DaemonInv'
  BY <1>0, <1>1 DEF DaemonInv, DaemonTypeOK, StartDaemon, Goto, Lives
<1>2. ASSUME NEW d \in Daemons, DaemonStep(d) PROVE DaemonInv'
  <2>1. \A e \in Daemons : Lives(e)' => Lives(e)
    BY <1>0, <1>2 DEF DaemonTypeOK, Lives, DaemonStep, Goto, FindProgram, FindStopped,
          KillProgram, Sleep, KillPort, StartServer
  <2>2. CASE FindProgram(d) \/ FindStopped(d) \/ Sleep(d)
    BY <1>0, <2>1, <2>2 DEF DaemonInv, FindProgram, FindStopped, Sleep
  <2>3. CASE KillProgram(d) \/ KillPort(d)
    <3>1. UNCHANGED <<stop, doomed, newcomers>> /\ \E killed : Terminate(killed)
      BY <2>3 DEF KillProgram, KillPort
    <3>2. \A s \in Servers : server'[s] # "none" => server'[s] = server[s]
      BY <1>0, <3>1 DEF DaemonTypeOK, Terminate
    <3> QED BY <1>0, <2>1, <3>1, <3>2 DEF DaemonInv
  <2>4. CASE StartServer(d)
    <3>1. PICK s \in Servers :
            /\ server[s] = "none" /\ server' = [server EXCEPT ![s] = "forked"]
            /\ newcomers' = newcomers \cup
                  IF stop = "kill_daemons" \/ d \in newcomers THEN {s} ELSE {}
            /\ doomed' = doomed \ {s}
      BY <2>4 DEF StartServer
    <3>2. UNCHANGED stop /\ Lives(d) BY <2>4 DEF StartServer, Lives
    <3>3. s \notin Daemons BY DaemonAssumption
    <3>4. \A r \in Servers : server'[r] = IF r = s THEN "forked" ELSE server[r]
      BY <1>0, <3>1 DEF DaemonTypeOK
    <3>5. CASE stop = "idle" BY <1>0, <3>1, <3>2, <3>5 DEF DaemonInv
    <3>6. CASE stop = "kill_daemons"
      BY <1>0, <2>1, <3>1, <3>2, <3>3, <3>4, <3>6 DEF DaemonInv
    <3>7. CASE stop \in {"servers", "kill_servers"}
      <4>1. d \in newcomers BY <3>2, <3>7 DEF DaemonInv
      <4>2. newcomers' = newcomers \cup {s} BY <3>1, <4>1
      <4> QED BY <1>0, <2>1, <3>1, <3>2, <3>4, <3>7, <4>2 DEF DaemonInv
    <3> QED BY <1>0, <3>5, <3>6, <3>7 DEF DaemonTypeOK
  <2> QED BY <1>2, <2>2, <2>3, <2>4 DEF DaemonStep
<1>3. CASE StopFindDaemons
  BY <1>0, <1>3 DEF DaemonInv, StopFindDaemons, Lives
<1>4. CASE StopKillDaemons
  <2>1. \A d \in Daemons : Lives(d)' => Lives(d) /\ d \notin doomed
    BY <1>0, <1>4 DEF DaemonTypeOK, StopKillDaemons, Lives
  <2>2. \A s \in Servers : server'[s] = "forked" => server[s] = "forked" /\ s \notin doomed
    BY <1>0, <1>4 DEF DaemonTypeOK, StopKillDaemons
  <2> QED BY <1>0, <1>4, <2>1, <2>2 DEF DaemonInv, StopKillDaemons
<1>5. CASE StopFindServers
  BY <1>0, <1>5 DEF DaemonInv, StopFindServers, Found, Lives
<1>6. CASE StopKillServers BY <1>0, <1>6 DEF DaemonInv, StopKillServers
<1>7. ASSUME NEW s \in Servers, ServerRuns(s) \/ ServerEnds(s) \/ ServerStops(s) \/ ServerGoesOn(s)
      PROVE DaemonInv'
  <2>1. UNCHANGED <<daemon, stop, doomed, newcomers>>
    BY <1>7 DEF ServerRuns, ServerEnds, ServerStops, ServerGoesOn, Turn
  <2>2. \A r \in Servers : /\ server'[r] # "none" => server[r] # "none"
                           /\ server'[r] = "forked" => server[r] = "forked"
    BY <1>0, <1>7 DEF DaemonTypeOK, ServerRuns, ServerEnds, ServerStops, ServerGoesOn, Turn
  <2> QED BY <1>0, <2>1, <2>2 DEF DaemonInv, Lives
<1>8. CASE UNCHANGED daemonVars BY <1>0, <1>8 DEF DaemonInv, daemonVars, Lives
<1> QED BY <1>1, <1>2, <1>3, <1>4, <1>5, <1>6, <1>7, <1>8 DEF DaemonNext, StopStep

(* When stop.sh is done, a daemon that lives was started while it ran, and *)
(* a server that is there was started by such a daemon, or between the ps  *)
(* and the kill, or is stopped and ends when it goes on.                   *)
THEOREM StopLeavesNewcomersHolds == DaemonSpec => StopLeavesNewcomers
<1> DEFINE Leaves == stop # "idle" /\ stop' = "idle" =>
                        /\ \A d \in Daemons : Lives(d)' => d \in newcomers
                        /\ \A s \in Servers : server'[s] # "none" => s \in newcomers \cup term'
<1>1. DaemonInit => DaemonInv
  BY DaemonAssumption DEF DaemonInit, DaemonInv, DaemonTypeOK, DaemonStates, ServerStates
<1>2. DaemonInv /\ [DaemonNext]_daemonVars => DaemonInv'
  BY DaemonInvStep
<1>3. DaemonInv /\ [DaemonNext]_daemonVars => [Leaves]_daemonVars
  <2> SUFFICES ASSUME DaemonInv, DaemonNext, stop # "idle", stop' = "idle"
               PROVE  /\ \A d \in Daemons : Lives(d)' => d \in newcomers
                      /\ \A s \in Servers : server'[s] # "none" => s \in newcomers \cup term'
    OBVIOUS
  <2>1. StopKillServers
    BY DEF DaemonNext, StopStep, StopFindDaemons, StopKillDaemons, StopFindServers,
          StartDaemon, DaemonStep, FindProgram, FindStopped, KillProgram, Sleep, KillPort,
          StartServer, ServerRuns, ServerEnds, ServerStops, ServerGoesOn, Turn
  <2>2. \A s \in Servers : server'[s] # "none" => server[s] # "none" /\ (s \in doomed => s \in term')
    BY <2>1 DEF StopKillServers, Terminate
  <2> QED BY <2>1, <2>2 DEF DaemonInv, StopKillServers, Lives
<1>4. DaemonInv => DaemonTypeOK BY DEF DaemonInv
<1> QED BY <1>1, <1>2, <1>3, <1>4, PTL DEF DaemonSpec, StopLeavesNewcomers
=============================================================================
