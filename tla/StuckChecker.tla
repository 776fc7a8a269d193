--------------------------- MODULE StuckChecker ---------------------------
(***************************************************************************)
(* stuck_checker/stuck_check.c: an application publishes in shared memory  *)
(* when each of its threads entered an action and how long that action may *)
(* take; a watchdog process polls that memory and kills the application    *)
(* when an action, or the whole stream ("delay"), is late.  No lock is     *)
(* shared between the two: every field is a separate store, the watchdog   *)
(* copies a record field by field, and reads the clock after the copy.  It *)
(* also clears the records one field after the other when it starts, while *)
(* a process may be storing into them.                                     *)
(***************************************************************************)
EXTENDS Integers, FiniteSets

CONSTANTS
    Threads,            \* application threads that check actions in and out
    Timeouts,           \* the timeouts they ask for, in ticks of the clock
    DelayTimeouts,      \* those of stuck_delay_reset(); none: it is not used
    s_checker_limit,    \* records in the shared array (50)
    MaxTime,            \* bound: ticks of the clock
    MaxProcesses,       \* bound: application processes started
    MaxWatchdogs,       \* bound: watchdog processes started
    MaxIndex            \* bound: calls that take an index

ASSUME TimeAssumption == MaxTime \in Nat \ {0} /\ Timeouts \cup DelayTimeouts \subseteq Nat \ {0}
ASSUME LimitAssumption ==
    s_checker_limit \in Nat \ {0} /\ MaxIndex \in Nat /\ s_checker_limit <= MaxIndex
ASSUME ProcessAssumption == MaxProcesses \in Nat /\ MaxWatchdogs \in Nat

VARIABLES
    now,                \* CLOCK_MONOTONIC_RAW, shared by both processes
    s_checker_pid, s_checker_mark, s_delay_tester, s_checker_count,
    s_checker_array,    \* the shared memory
    alive,              \* the pid of the application that runs, or 0
    processes,          \* applications started: their pids are 1, 2, ...
    opc,                \* open_stuck_checker(): where it is
    s_checker_index, slot,      \* index counter, each thread's record
    tpc, targ, since,   \* each thread: where it is, its timeout, its start
    torn,               \* ghost: records of actions that ended half wiped
    dpc, darg,          \* the thread that calls stuck_delay_reset/_clear
    stream,             \* ghost: the stream's deadline as last announced
    wpc,                \* the watchdog: where it is
    watchdogs,
    checker_pid, last_checker_pid, delay_max_time_1, delay_test_time,
    checker_count, checker_index, action_checker,   \* its locals
    moved               \* ghost: what it read was written meanwhile

clock == now
memory == <<s_checker_pid, s_checker_mark, s_checker_count>>
process == <<alive, processes, opc>>
threads == <<s_checker_index, slot, tpc, targ, since, torn>>
delayer == <<dpc, darg, stream>>
locals == <<delay_max_time_1, delay_test_time, checker_count, checker_index, action_checker>>
watchdog == <<wpc, watchdogs, checker_pid, last_checker_pid, locals>>
vars == <<clock, memory, s_delay_tester, s_checker_array, process, threads,
          delayer, watchdog, moved>>

Slots == 0 .. s_checker_limit - 1
Pids == 1 .. MaxProcesses
None == -1                              \* no record: pthread_getspecific() is NULL
Blank == [max_time |-> 0, check_in |-> 0, check_out |-> 0]
NoDelay == [max_time |-> 0, test_time |-> 0]

\* The watchdog has begun to copy a record, and has not dropped the copy.
Copying == wpc \in {"copy_in", "copy_out", "judge", "kill"}
Wiping == wpc \in {"wipe_max", "wipe_in", "wipe_out"}
JudgingDelay == wpc \in {"delay_time", "delay_again", "delay_judge", "delay_kill"}

\* The first watchdog has created the checker on a new file.
Init ==
    /\ now = 1
    /\ s_checker_pid = 0 /\ s_checker_mark = FALSE /\ s_checker_count = 0
    /\ s_delay_tester = NoDelay
    /\ s_checker_array = [s \in Slots |-> Blank]
    /\ alive = 0 /\ processes = 0 /\ opc = "none"
    /\ s_checker_index = 0 /\ slot = [t \in Threads |-> None]
    /\ tpc = [t \in Threads |-> "idle"]
    /\ targ = [t \in Threads |-> 0] /\ since = [t \in Threads |-> 0] /\ torn = {}
    /\ dpc = "idle" /\ darg = 0 /\ stream = NoDelay
    /\ wpc = "pid" /\ watchdogs = 1
    /\ checker_pid = 0 /\ last_checker_pid = 0
    /\ delay_max_time_1 = 0 /\ delay_test_time = 0
    /\ checker_count = 0 /\ checker_index = 0 /\ action_checker = Blank
    /\ moved = FALSE

Tick ==
    /\ now < MaxTime
    /\ now' = now + 1
    /\ UNCHANGED <<memory, s_delay_tester, s_checker_array, process, threads, delayer, watchdog, moved>>

-----------------------------------------------------------------------------
(* The application process.                                                *)

\* What dies with a process: its threads, its thread keys, its index counter.
ProcessMemoryGone ==
    /\ s_checker_index' = 0
    /\ slot' = [t \in Threads |-> None]
    /\ tpc' = [t \in Threads |-> "idle"]
    /\ targ' = [t \in Threads |-> 0] /\ since' = [t \in Threads |-> 0] /\ torn' = {}
    /\ dpc' = "idle" /\ darg' = 0 /\ stream' = NoDelay

\* A new process begins open_stuck_checker() on the memory the last one left.
OpenBegin ==
    /\ alive = 0 /\ processes < MaxProcesses
    /\ processes' = processes + 1 /\ alive' = processes'
    /\ opc' = "clear"
    /\ UNCHANGED <<clock, memory, s_delay_tester, s_checker_array, threads, delayer, watchdog, moved>>

\* The clearing of the records is one step: no thread stores into them yet,
\* and the watchdog reads them under the pid of a process that has ended.
OpenClear ==
    /\ opc = "clear"
    /\ s_checker_array' = [s \in Slots |-> Blank]
    /\ opc' = "delay"
    /\ UNCHANGED <<clock, memory, s_delay_tester, alive, processes, threads, delayer, watchdog, moved>>

OpenDelayMax ==
    /\ opc = "delay"
    /\ s_delay_tester' = [s_delay_tester EXCEPT !.max_time = 0]
    /\ opc' = "delay_time"
    /\ UNCHANGED <<clock, memory, s_checker_array, alive, processes, threads, delayer, watchdog, moved>>

OpenDelayTime ==
    /\ opc = "delay_time"
    /\ s_delay_tester' = [s_delay_tester EXCEPT !.test_time = 0]
    /\ opc' = "mark"
    /\ UNCHANGED <<clock, memory, s_checker_array, alive, processes, threads, delayer, watchdog, moved>>

OpenMark ==
    /\ opc = "mark"
    /\ s_checker_mark' = TRUE
    /\ opc' = "count"
    /\ UNCHANGED <<clock, s_checker_pid, s_checker_count, s_delay_tester, s_checker_array, alive, processes, threads, delayer, watchdog, moved>>

OpenCount ==
    /\ opc = "count"
    /\ s_checker_count' = 0
    /\ opc' = "pid"
    /\ UNCHANGED <<clock, s_checker_pid, s_checker_mark, s_delay_tester, s_checker_array, alive, processes, threads, delayer, watchdog, moved>>

OpenPid ==
    /\ opc = "pid"
    /\ s_checker_pid' = alive
    /\ opc' = "open"
    /\ UNCHANGED <<clock, s_checker_mark, s_checker_count, s_delay_tester, s_checker_array, alive, processes, threads, delayer, watchdog, moved>>

\* The process ends by itself: the memory stays as it is.
ProcessExit ==
    /\ alive # 0
    /\ alive' = 0 /\ opc' = "none"
    /\ ProcessMemoryGone
    /\ UNCHANGED <<clock, memory, s_delay_tester, s_checker_array, processes, watchdog, moved>>

-----------------------------------------------------------------------------
(* stuck_checker_in() and stuck_checker_out(): a thread calls them in      *)
(* turns, as the program's threads do.                                     *)

\* Every store of thread t to its record spoils a copy the watchdog has begun.
Store(t, record) ==
    /\ s_checker_array' = [s_checker_array EXCEPT ![slot[t]] = record]
    /\ moved' = (moved \/ (Copying /\ checker_index = slot[t]))

Record(t) == s_checker_array[slot[t]]

\* Defect: the index is read and not counted up.
InFirstShared(t, timeout) ==
    /\ opc = "open" /\ tpc[t] = "idle" /\ slot[t] = None
    /\ s_checker_index < s_checker_limit
    /\ slot' = [slot EXCEPT ![t] = s_checker_index]
    /\ s_checker_count' = s_checker_index + 1
    /\ targ' = [targ EXCEPT ![t] = timeout]
    /\ tpc' = [tpc EXCEPT ![t] = "in_max"]
    /\ UNCHANGED <<clock, s_checker_pid, s_checker_mark, s_delay_tester, s_checker_array, process, s_checker_index, since, torn, delayer, watchdog, moved>>

\* The first call of a thread takes the next index and publishes the count,
\* under s_checker_mutex.
InFirst(t, timeout) ==
    /\ opc = "open" /\ tpc[t] = "idle" /\ slot[t] = None
    /\ s_checker_index < s_checker_limit
    /\ slot' = [slot EXCEPT ![t] = s_checker_index]
    /\ s_checker_index' = s_checker_index + 1
    /\ s_checker_count' = s_checker_index'
    /\ targ' = [targ EXCEPT ![t] = timeout]
    /\ tpc' = [tpc EXCEPT ![t] = "in_max"]
    /\ UNCHANGED <<clock, s_checker_pid, s_checker_mark, s_delay_tester, s_checker_array, process, since, torn, delayer, watchdog, moved>>

\* A thread that finds no record left takes an index again at every call.
InRefused(t) ==
    /\ opc = "open" /\ tpc[t] = "idle" /\ slot[t] = None
    /\ s_checker_index >= s_checker_limit
    /\ s_checker_index < MaxIndex
    /\ s_checker_index' = s_checker_index + 1
    /\ UNCHANGED <<clock, memory, s_delay_tester, s_checker_array, process, slot, tpc, targ, since, torn, delayer, watchdog, moved>>

InAgain(t, timeout) ==
    /\ opc = "open" /\ tpc[t] = "idle" /\ slot[t] # None
    /\ targ' = [targ EXCEPT ![t] = timeout]
    /\ tpc' = [tpc EXCEPT ![t] = "in_max"]
    /\ UNCHANGED <<clock, memory, s_delay_tester, s_checker_array, process, s_checker_index, slot, since, torn, delayer, watchdog, moved>>

InMaxTime(t) ==
    /\ tpc[t] = "in_max"
    /\ Store(t, [Record(t) EXCEPT !.max_time = targ[t]])
    /\ tpc' = [tpc EXCEPT ![t] = "in_in"]
    /\ UNCHANGED <<clock, memory, s_delay_tester, process, s_checker_index, slot, targ, since, torn, delayer, watchdog>>

InCheckIn(t) ==
    /\ tpc[t] = "in_in"
    /\ Store(t, [Record(t) EXCEPT !.check_in = now])
    /\ since' = [since EXCEPT ![t] = now]
    /\ torn' = torn \ {slot[t]}
    /\ tpc' = [tpc EXCEPT ![t] = "in_out"]
    /\ UNCHANGED <<clock, memory, s_delay_tester, process, s_checker_index, slot, targ, delayer, watchdog>>

InCheckOut(t) ==
    /\ tpc[t] = "in_out"
    /\ Store(t, [Record(t) EXCEPT !.check_out = 0])
    /\ tpc' = [tpc EXCEPT ![t] = "work"]
    /\ UNCHANGED <<clock, memory, s_delay_tester, process, s_checker_index, slot, targ, since, torn, delayer, watchdog>>

\* A wipe that has reached this record's check_out will clear the store.
OutCheckOut(t) ==
    /\ tpc[t] = "work"
    /\ Store(t, [Record(t) EXCEPT !.check_out = now])
    /\ tpc' = [tpc EXCEPT ![t] = "out_max"]
    /\ targ' = [targ EXCEPT ![t] = 0] /\ since' = [since EXCEPT ![t] = 0]
    /\ torn' = torn \cup {s \in {slot[t]} : wpc = "wipe_out" /\ checker_index = s}
    /\ UNCHANGED <<clock, memory, s_delay_tester, process, s_checker_index, slot, delayer, watchdog>>

OutMaxTime(t) ==
    /\ tpc[t] = "out_max"
    /\ Store(t, [Record(t) EXCEPT !.max_time = 0])
    /\ tpc' = [tpc EXCEPT ![t] = "idle"]
    /\ UNCHANGED <<clock, memory, s_delay_tester, process, s_checker_index, slot, targ, since, torn, delayer, watchdog>>

-----------------------------------------------------------------------------
(* stuck_delay_reset() and stuck_delay_clear(), called by one thread.      *)

StoreDelay(delay) ==
    /\ s_delay_tester' = delay
    /\ moved' = (moved \/ JudgingDelay)

ResetMaxTime(timeout) ==
    /\ opc = "open" /\ dpc = "idle"
    /\ StoreDelay([s_delay_tester EXCEPT !.max_time = timeout])
    /\ darg' = timeout
    /\ dpc' = "reset_time"
    /\ UNCHANGED <<clock, memory, s_checker_array, process, threads, stream, watchdog>>

ResetTestTime ==
    /\ dpc = "reset_time"
    /\ StoreDelay([s_delay_tester EXCEPT !.test_time = now])
    /\ stream' = [max_time |-> darg, test_time |-> now]
    /\ dpc' = "idle" /\ darg' = 0
    /\ UNCHANGED <<clock, memory, s_checker_array, process, threads, watchdog>>

ClearMaxTime ==
    /\ opc = "open" /\ dpc = "idle"
    /\ StoreDelay([s_delay_tester EXCEPT !.max_time = 0])
    /\ stream' = NoDelay
    /\ dpc' = "clear_time"
    /\ UNCHANGED <<clock, memory, s_checker_array, process, threads, darg, watchdog>>

ClearTestTime ==
    /\ dpc = "clear_time"
    /\ StoreDelay([s_delay_tester EXCEPT !.test_time = 0])
    /\ dpc' = "idle"
    /\ UNCHANGED <<clock, memory, s_checker_array, process, threads, darg, stream, watchdog>>

-----------------------------------------------------------------------------
(* The watchdog, stuck_checker_check(): one action per read of the shared  *)
(* memory, "pid" being the top of its loop.                                *)

\* The locals of the loop's body.
Forget ==
    /\ checker_pid' = 0
    /\ delay_max_time_1' = 0 /\ delay_test_time' = 0
    /\ checker_count' = 0 /\ checker_index' = 0
    /\ action_checker' = Blank /\ moved' = FALSE

\* Back at the top of the loop they are out of scope.
Top == Forget /\ wpc' = "pid"

application == <<clock, memory, s_delay_tester, s_checker_array, process, threads, delayer>>

\* check_pid_exist(): kill(pid, 0) finds only the process that runs.
ReadPid ==
    /\ wpc = "pid"
    /\ s_checker_pid \notin {0, last_checker_pid} /\ s_checker_pid = alive
    /\ checker_pid' = s_checker_pid
    /\ wpc' = "mark"
    /\ UNCHANGED <<application, watchdogs, last_checker_pid, locals, moved>>

ReadMark ==
    /\ wpc = "mark"
    /\ IF s_checker_mark
       THEN wpc' = "delay_max" /\ UNCHANGED <<checker_pid, locals, moved>>
       ELSE Top
    /\ UNCHANGED <<application, watchdogs, last_checker_pid>>

\* "moved" starts here: a reset that is half way towards another timeout
\* counts as a write that the reads overlap.
ReadDelayMax ==
    /\ wpc = "delay_max"
    /\ delay_max_time_1' = s_delay_tester.max_time
    /\ moved' = (dpc = "reset_time" /\ stream.max_time \notin {0, darg})
    /\ wpc' = "delay_time"
    /\ UNCHANGED <<application, watchdogs, checker_pid, last_checker_pid, delay_test_time, checker_count, checker_index, action_checker>>

ReadDelayTime ==
    /\ wpc = "delay_time"
    /\ delay_test_time' = s_delay_tester.test_time
    /\ wpc' = "delay_again"
    /\ UNCHANGED <<application, watchdogs, checker_pid, last_checker_pid, delay_max_time_1, checker_count, checker_index, action_checker, moved>>

\* Defect: a deadline without a start is taken for one that began at 0.
DelayIsSetUnstarted == delay_max_time_1 # 0

DelayIsSet == delay_max_time_1 # 0 /\ delay_test_time # 0

ReadDelayAgain ==
    /\ wpc = "delay_again"
    /\ wpc' = IF DelayIsSet /\ s_delay_tester.max_time = delay_max_time_1
              THEN "delay_judge" ELSE "count"
    /\ UNCHANGED <<application, watchdogs, checker_pid, last_checker_pid, locals, moved>>

JudgeDelay ==
    /\ wpc = "delay_judge"
    /\ wpc' = IF now > delay_test_time + delay_max_time_1 THEN "delay_kill" ELSE "count"
    /\ UNCHANGED <<application, watchdogs, checker_pid, last_checker_pid, locals, moved>>

\* Defect: a full array is skipped like an invalid count.
ReadCountOffByOne ==
    /\ wpc = "count"
    /\ IF s_checker_count \in 1 .. s_checker_limit - 1
       THEN /\ checker_count' = s_checker_count /\ checker_index' = 0
            /\ delay_max_time_1' = 0 /\ delay_test_time' = 0
            /\ wpc' = "copy_max"
            /\ UNCHANGED <<checker_pid, action_checker, moved>>
       ELSE Top
    /\ UNCHANGED <<application, watchdogs, last_checker_pid>>

ReadCount ==
    /\ wpc = "count"
    /\ IF s_checker_count \in 1 .. s_checker_limit
       THEN /\ checker_count' = s_checker_count /\ checker_index' = 0
            /\ delay_max_time_1' = 0 /\ delay_test_time' = 0
            /\ wpc' = "copy_max"
            /\ UNCHANGED <<checker_pid, action_checker, moved>>
       ELSE Top
    /\ UNCHANGED <<application, watchdogs, last_checker_pid>>

\* memcpy() of one record, in address order.
CopyMaxTime ==
    /\ wpc = "copy_max"
    /\ action_checker' = [action_checker EXCEPT !.max_time = s_checker_array[checker_index].max_time]
    /\ moved' = FALSE
    /\ wpc' = "copy_in"
    /\ UNCHANGED <<application, watchdogs, checker_pid, last_checker_pid, delay_max_time_1, delay_test_time, checker_count, checker_index>>

CopyCheckIn ==
    /\ wpc = "copy_in"
    /\ action_checker' = [action_checker EXCEPT !.check_in = s_checker_array[checker_index].check_in]
    /\ wpc' = "copy_out"
    /\ UNCHANGED <<application, watchdogs, checker_pid, last_checker_pid, delay_max_time_1, delay_test_time, checker_count, checker_index, moved>>

CopyCheckOut ==
    /\ wpc = "copy_out"
    /\ action_checker' = [action_checker EXCEPT !.check_out = s_checker_array[checker_index].check_out]
    /\ wpc' = "judge"
    /\ UNCHANGED <<application, watchdogs, checker_pid, last_checker_pid, delay_max_time_1, delay_test_time, checker_count, checker_index, moved>>

\* Defect: a record that was never checked in is not told apart.
ActionIsOpenOrBlank(record) == record.max_time # 0 /\ record.check_out = 0

\* The record is of an action that has begun and has not ended.
ActionIsOpen(record) ==
    record.max_time # 0 /\ record.check_out = 0 /\ record.check_in # record.check_out

Judge ==
    /\ wpc = "judge"
    /\ ActionIsOpen(action_checker) /\ now > action_checker.check_in + action_checker.max_time
    /\ wpc' = "kill"
    /\ UNCHANGED <<application, watchdogs, checker_pid, last_checker_pid, locals, moved>>

NextRecord ==
    /\ wpc = "judge"
    /\ ~ (ActionIsOpen(action_checker) /\ now > action_checker.check_in + action_checker.max_time)
    /\ IF checker_index + 1 < checker_count
       THEN /\ checker_index' = checker_index + 1
            /\ action_checker' = Blank /\ moved' = FALSE
            /\ wpc' = "copy_max"
            /\ UNCHANGED <<checker_pid, delay_max_time_1, delay_test_time, checker_count>>
       ELSE Top
    /\ UNCHANGED <<application, watchdogs, last_checker_pid>>

\* kill(checker_pid, 9) ends that process if it still runs; either way its
\* pid is not looked at again.
Kill ==
    /\ wpc \in {"kill", "delay_kill"}
    /\ IF alive = checker_pid
       THEN alive' = 0 /\ opc' = "none" /\ ProcessMemoryGone
       ELSE UNCHANGED <<alive, opc, threads, delayer>>
    /\ last_checker_pid' = checker_pid
    /\ Top
    /\ UNCHANGED <<clock, memory, s_delay_tester, s_checker_array, processes, watchdogs>>

\* The watchdog is started anew: what it knew is forgotten, and it begins
\* create_stuck_checker() on the memory in use.
WatchdogRestart ==
    /\ watchdogs < MaxWatchdogs
    /\ watchdogs' = watchdogs + 1
    /\ Forget
    /\ wpc' = "wipe_max" /\ last_checker_pid' = 0
    /\ UNCHANGED application

\* memset() of the records, those of actions in progress too, in address order.
WipeField(record) ==
    /\ s_checker_array' = [s_checker_array EXCEPT ![checker_index] = record]
    /\ UNCHANGED <<clock, memory, s_delay_tester, process, threads, delayer, watchdogs, last_checker_pid>>

WipeMaxTime ==
    /\ wpc = "wipe_max"
    /\ WipeField([s_checker_array[checker_index] EXCEPT !.max_time = 0])
    /\ wpc' = "wipe_in"
    /\ UNCHANGED <<checker_pid, locals, moved>>

WipeCheckIn ==
    /\ wpc = "wipe_in"
    /\ WipeField([s_checker_array[checker_index] EXCEPT !.check_in = 0])
    /\ wpc' = "wipe_out"
    /\ UNCHANGED <<checker_pid, locals, moved>>

WipeCheckOut ==
    /\ wpc = "wipe_out"
    /\ WipeField([s_checker_array[checker_index] EXCEPT !.check_out = 0])
    /\ IF checker_index + 1 < s_checker_limit
       THEN /\ checker_index' = checker_index + 1
            /\ wpc' = "wipe_max"
            /\ UNCHANGED <<checker_pid, delay_max_time_1, delay_test_time, checker_count, action_checker, moved>>
       ELSE Top

Wipe == WipeMaxTime \/ WipeCheckIn \/ WipeCheckOut

Watchdog ==
    \/ Wipe \/ ReadPid \/ ReadMark
    \/ ReadDelayMax \/ ReadDelayTime \/ ReadDelayAgain \/ JudgeDelay
    \/ ReadCount \/ CopyMaxTime \/ CopyCheckIn \/ CopyCheckOut
    \/ Judge \/ NextRecord \/ Kill

Application ==
    \/ OpenBegin \/ OpenClear \/ OpenDelayMax \/ OpenDelayTime
    \/ OpenMark \/ OpenCount \/ OpenPid \/ ProcessExit
    \/ \E t \in Threads, timeout \in Timeouts : InFirst(t, timeout) \/ InAgain(t, timeout)
    \/ \E t \in Threads :
          \/ InRefused(t) \/ InMaxTime(t) \/ InCheckIn(t) \/ InCheckOut(t)
          \/ OutCheckOut(t) \/ OutMaxTime(t)
    \/ \E timeout \in DelayTimeouts : ResetMaxTime(timeout)
    \/ (DelayTimeouts # {} /\ ClearMaxTime)
    \/ ResetTestTime \/ ClearTestTime

Next == Tick \/ Application \/ Watchdog \/ WatchdogRestart

\* The clock runs and the watchdog is scheduled; the application owes nothing.
Spec == Init /\ [][Next]_vars /\ WF_vars(Tick) /\ WF_vars(Watchdog)
-----------------------------------------------------------------------------
(* Properties.                                                             *)

TypeOK ==
    /\ now \in 1 .. MaxTime
    /\ s_checker_pid \in Pids \cup {0} /\ s_checker_mark \in BOOLEAN
    /\ s_checker_count \in 0 .. s_checker_limit
    /\ s_delay_tester \in [max_time : DelayTimeouts \cup {0}, test_time : 0 .. MaxTime]
    /\ s_checker_array \in [Slots -> [max_time : Timeouts \cup {0}, check_in : 0 .. MaxTime, check_out : 0 .. MaxTime]]
    /\ alive \in Pids \cup {0} /\ processes \in 0 .. MaxProcesses
    /\ opc \in {"none", "clear", "delay", "delay_time", "mark", "count", "pid", "open"}
    /\ s_checker_index \in 0 .. MaxIndex
    /\ slot \in [Threads -> Slots \cup {None}]
    /\ tpc \in [Threads -> {"idle", "in_max", "in_in", "in_out", "work", "out_max"}]
    /\ torn \subseteq Slots
    /\ dpc \in {"idle", "reset_time", "clear_time"}
    /\ checker_index \in Slots
    /\ action_checker \in [max_time : Timeouts \cup {0}, check_in : 0 .. MaxTime, check_out : 0 .. MaxTime]
    /\ moved \in BOOLEAN

\* The action thread t is in has been running for longer than it may.
ActionLate(t) == tpc[t] \in {"in_out", "work"} /\ now > since[t] + targ[t]

StreamLate == stream.max_time # 0 /\ now > stream.test_time + stream.max_time

\* The watchdog kills only an application one of whose actions is late,
\* whatever half-written record it reads, and whatever a starting watchdog
\* has wiped of it.  This is what the order of the stores in
\* stuck_checker_in() and _out(), the third test of the record, and
\* publishing the pid last in open_stuck_checker() are for.  Two races that
\* the code does not close are excepted: the record was written between the
\* watchdog's first read of it and the kill (moved); or its last action
\* ended between the wipe of its check_in and that of its check_out, so that
\* it looks as if it had not (torn), until the next action has begun.
KilledForLateAction ==
    [][(Kill /\ wpc = "kill" /\ alive = checker_pid /\ ~ moved /\ checker_index \notin torn)
          => \E t \in Threads : slot[t] = checker_index /\ ActionLate(t)]_vars

\* The same for the stream's deadline: a first reset that is half way, a
\* clear or a new process never make the watchdog kill.
KilledForLateStream ==
    [][(Kill /\ wpc = "delay_kill" /\ alive = checker_pid /\ ~ moved) => StreamLate]_vars

\* The watchdog looks only at records that a thread of this process owns:
\* no two threads share one, and a process whose pid is published has
\* published as many records as it handed out.
RecordsAreOwned ==
    /\ TypeOK
    /\ \A t, u \in Threads : t # u /\ slot[t] # None => slot[t] # slot[u]
    /\ opc = "open" => /\ s_checker_pid = alive
                       /\ s_checker_count = Cardinality({t \in Threads : slot[t] # None})
                       /\ \A t \in Threads : slot[t] < s_checker_count

\* An action that never ends gets its process killed, unless a starting
\* watchdog has wiped its timeout or its start: nobody has to help the watchdog.
StuckIsKilled ==
    \A t \in Threads :
        LET Watched == Record(t).max_time # 0 /\ Record(t).check_in # 0
        IN (tpc[t] = "work" /\ Watched /\ now + targ[t] < MaxTime)
              ~> (tpc[t] # "work" \/ ~ Watched)
=============================================================================
