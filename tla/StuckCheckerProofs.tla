------------------------- MODULE StuckCheckerProofs -------------------------
(***************************************************************************)
(* Safety of the watchdog and its application, for any number of threads,  *)
(* records, timeouts, processes and watchdogs: whose records the watchdog  *)
(* looks at, and that it kills only what is late.  Two of its bounds, the  *)
(* time and the calls that take an index, only end the model.              *)
(***************************************************************************)
EXTENDS StuckChecker, FiniteSetTheorems, TLAPS

(* The types that TypeOK does not give: the locals of both processes.      *)
LocalsOK ==
    /\ targ \in [Threads -> Timeouts \cup {0}] /\ since \in [Threads -> 0 .. MaxTime]
    /\ darg \in DelayTimeouts \cup {0}
    /\ stream \in [max_time : DelayTimeouts \cup {0}, test_time : 0 .. MaxTime]
    /\ wpc \in {"wipe_max", "wipe_in", "wipe_out", "pid", "mark", "delay_max", "delay_time", "delay_again", "delay_judge",
                "delay_kill", "count", "copy_max", "copy_in", "copy_out", "judge", "kill"}
    /\ delay_max_time_1 \in DelayTimeouts \cup {0} /\ delay_test_time \in 0 .. MaxTime
    /\ checker_count \in 0 .. s_checker_limit

(* Pids are given once.  While a process opens the checker its pid is not  *)
(* known to anybody, so that whoever holds the pid of the process that     *)
(* runs got it when the memory was ready.                                  *)
PidsInv ==
    /\ alive \in {0, processes} /\ (alive = 0 <=> opc = "none")
    /\ s_checker_pid \in 0 .. processes /\ checker_pid \in 0 .. processes
    /\ opc \notin {"none", "open"} => s_checker_pid < alive /\ checker_pid < alive
    /\ ~ Wiping /\ wpc # "pid" => checker_pid # 0

Owners == {t \in Threads : slot[t] # None}

(* The records that were handed out are those below the index counter, one *)
(* to each owner; the others are blank.                                    *)
OwnersInv ==
    /\ opc # "open" =>
          /\ s_checker_index = 0 /\ Owners = {} /\ dpc = "idle" /\ stream = NoDelay
          /\ \A t \in Threads : tpc[t] = "idle"
    /\ opc \notin {"none", "clear"} =>
          \A s \in Slots : s >= s_checker_index => s_checker_array[s] = Blank
    /\ opc = "pid" => s_checker_count = 0
    /\ IsFiniteSet(Owners)
    /\ \A t \in Threads : slot[t] < s_checker_index /\ (tpc[t] # "idle" => slot[t] # None)
    /\ \A s \in Slots : s < s_checker_index => \E t \in Threads : slot[t] = s
    /\ opc = "open" => s_checker_count = IF s_checker_index < s_checker_limit
                                         THEN s_checker_index ELSE s_checker_limit

(* What a record may hold while its owner is where it is, a starting       *)
(* watchdog having wiped any of its fields: that it reads as an open action *)
(* only while its owner is in one, and then with its start and timeout.    *)
(* Between the wipe of check_in and that of check_out an action that is    *)
(* over has no check_in left, unless it ended just then: that one is torn. *)
RecordOf(t, r) ==
    /\ tpc[t] \in {"in_in", "in_out", "work"} => r.max_time \in {0, targ[t]}
    /\ tpc[t] \in {"in_out", "work"} => r.check_in \in {0, since[t]}
    /\ tpc[t] \notin {"in_out", "work"} /\ slot[t] \notin torn =>
          /\ r.check_out = 0 => r.check_in = 0
          /\ wpc = "wipe_out" /\ checker_index = slot[t] => r.check_in = 0
RecordsInv == \A t \in Threads : slot[t] # None => RecordOf(t, Record(t))

(* A copy is that of the record, as far as it has come, unless the record  *)
(* was written meanwhile or the process has ended.                         *)
CopyInv ==
    alive = checker_pid /\ ~ moved =>
        LET r == s_checker_array[checker_index] IN
        /\ Copying => action_checker.max_time = r.max_time
        /\ wpc \in {"copy_out", "judge", "kill"} => action_checker.check_in = r.check_in
        /\ wpc \in {"judge", "kill"} => action_checker.check_out = r.check_out
        /\ wpc = "kill" => /\ ActionIsOpen(action_checker)
                           /\ now > action_checker.check_in + action_checker.max_time

(* The stream's deadline in the memory: between a reset's two stores it is *)
(* that of two deadlines.                                                  *)
StreamInv ==
    /\ stream.max_time = 0 <=> stream.test_time = 0
    /\ dpc = "reset_time" => darg # 0
    /\ opc = "open" =>
        /\ dpc = "idle" => s_delay_tester = stream
        /\ dpc = "reset_time" => /\ s_delay_tester.max_time = darg
                                 /\ s_delay_tester.test_time = stream.test_time
        /\ dpc = "clear_time" => s_delay_tester.max_time = 0 /\ stream = NoDelay
    /\ opc = "delay_time" => s_delay_tester.max_time = 0
    /\ opc \in {"mark", "count", "pid"} => s_delay_tester = NoDelay

DelayInv ==
    alive = checker_pid /\ ~ moved =>
        /\ JudgingDelay => /\ delay_max_time_1 = s_delay_tester.max_time
                           /\ dpc = "reset_time" => stream.max_time \in {0, darg}
        /\ wpc \in {"delay_again", "delay_judge", "delay_kill"} =>
              delay_test_time = s_delay_tester.test_time
        /\ wpc \in {"delay_judge", "delay_kill"} => DelayIsSet
        /\ wpc = "delay_kill" => now > delay_test_time + delay_max_time_1

CheckerInv ==
    /\ TypeOK /\ LocalsOK /\ PidsInv /\ OwnersInv /\ RecordsAreOwned
    /\ RecordsInv /\ CopyInv /\ StreamInv /\ DelayInv

-----------------------------------------------------------------------------
Records == [max_time : Timeouts \cup {0}, check_in : 0 .. MaxTime, check_out : 0 .. MaxTime]
Delays == [max_time : DelayTimeouts \cup {0}, test_time : 0 .. MaxTime]

(* The constants, as the steps use them.                                   *)
LEMMA ConstantFacts ==
    /\ MaxTime \in Nat \ {0} /\ Timeouts \subseteq Nat \ {0} /\ DelayTimeouts \subseteq Nat \ {0}
    /\ s_checker_limit \in Nat \ {0} /\ MaxIndex \in Nat /\ s_checker_limit <= MaxIndex
    /\ MaxProcesses \in Nat
    /\ 0 \in Slots /\ 0 \in 0 .. MaxTime /\ 0 \in 0 .. s_checker_limit
    /\ Blank \in Records /\ NoDelay \in Delays
<1>1. /\ MaxTime \in Nat \ {0} /\ Timeouts \subseteq Nat \ {0} /\ DelayTimeouts \subseteq Nat \ {0}
      /\ s_checker_limit \in Nat \ {0} /\ MaxIndex \in Nat /\ s_checker_limit <= MaxIndex
      /\ MaxProcesses \in Nat
  BY TimeAssumption, LimitAssumption, ProcessAssumption
<1>2. 0 \in Slots /\ 0 \in 0 .. MaxTime /\ 0 \in 0 .. s_checker_limit
  BY <1>1 DEF Slots
<1> QED BY <1>1, <1>2 DEF Records, Delays, Blank, NoDelay

(* A thread that is in a call has a record of its own.                     *)
LEMMA OwnRecord ==
    ASSUME CheckerInv, NEW t \in Threads, tpc[t] # "idle"
    PROVE  slot[t] \in Slots /\ slot[t] # None /\ Record(t) \in Records
BY DEF CheckerInv, OwnersInv, TypeOK, Record, Records

(* A store leaves the array one of records.                                *)
LEMMA StoreType ==
    ASSUME TypeOK, NEW t \in Threads, NEW r \in Records, Store(t, r)
    PROVE  s_checker_array' \in [Slots -> Records] /\ moved' \in BOOLEAN
BY DEF Store, TypeOK, Records

(* A wipe touches one record, and a blank one not at all.                  *)
LEMMA WipeLeaves ==
    ASSUME TypeOK, Wipe
    PROVE  /\ UNCHANGED <<clock, memory, s_delay_tester, process, threads, delayer>>
           /\ s_checker_array' \in [Slots -> Records]
           /\ \A s \in Slots : s_checker_array[s] = Blank => s_checker_array'[s] = Blank
           /\ wpc' \in {"wipe_max", "wipe_in", "wipe_out", "pid"}
<1> DEFINE r == s_checker_array[checker_index]
<1>1. PICK w \in Records : WipeField(w) /\ (r = Blank => w = Blank)
  <2>1. r \in Records BY DEF TypeOK, Records
  <2>2. /\ [r EXCEPT !.max_time = 0] \in Records /\ [r EXCEPT !.check_in = 0] \in Records
        /\ [r EXCEPT !.check_out = 0] \in Records
    BY <2>1, ConstantFacts DEF Records
  <2>3. r = Blank => /\ [r EXCEPT !.max_time = 0] = Blank /\ [r EXCEPT !.check_in = 0] = Blank
                     /\ [r EXCEPT !.check_out = 0] = Blank
    BY DEF Blank
  <2> QED BY <2>2, <2>3 DEF Wipe, WipeMaxTime, WipeCheckIn, WipeCheckOut
<1>2. wpc' \in {"wipe_max", "wipe_in", "wipe_out", "pid"}
  BY DEF Wipe, WipeMaxTime, WipeCheckIn, WipeCheckOut, Top
<1> QED BY <1>1, <1>2 DEF WipeField, TypeOK, Records

(* The variables keep their types.                                         *)
LEMMA CheckerTypeStep == CheckerInv /\ [Next]_vars => TypeOK' /\ LocalsOK'
<1> SUFFICES ASSUME CheckerInv, [Next]_vars PROVE TypeOK' /\ LocalsOK'
  OBVIOUS
<1>0. TypeOK /\ LocalsOK BY DEF CheckerInv
<1> USE <1>0, ConstantFacts
    DEF LocalsOK, Records, Delays, None, clock, memory, process, threads, delayer, locals, watchdog,
        application
<1>00. Forget => /\ checker_index' \in Slots /\ checker_count' \in 0 .. s_checker_limit
                 /\ delay_max_time_1' \in DelayTimeouts \cup {0} /\ delay_test_time' \in 0 .. MaxTime
                 /\ action_checker' \in Records /\ moved' \in BOOLEAN
  BY DEF Forget
<1> USE DEF Top
<1>1. CASE Tick
  <2>1. now' \in 1 .. MaxTime BY <1>1 DEF Tick, TypeOK
  <2> QED BY <1>1, <2>1 DEF Tick, TypeOK
<1>2. CASE OpenBegin \/ OpenClear \/ OpenDelayMax \/ OpenDelayTime \/ OpenMark \/ OpenCount \/ OpenPid
  <2>1. CASE OpenBegin
    <3>1. alive' \in Pids \cup {0} /\ processes' \in 0 .. MaxProcesses
      BY <2>1 DEF OpenBegin, TypeOK, Pids
    <3> QED BY <2>1, <3>1 DEF OpenBegin, TypeOK
  <2>2. CASE OpenClear BY <2>2 DEF OpenClear, TypeOK
  <2>3. CASE OpenDelayMax \/ OpenDelayTime BY <2>3 DEF OpenDelayMax, OpenDelayTime, TypeOK
  <2>4. CASE OpenMark \/ OpenCount
    <3>1. CASE OpenMark BY <3>1 DEF OpenMark, TypeOK
    <3>2. CASE OpenCount BY <3>2 DEF OpenCount, TypeOK
    <3> QED BY <2>4, <3>1, <3>2
  <2>5. CASE OpenPid BY <2>5 DEF OpenPid, TypeOK
  <2> QED BY <1>2, <2>1, <2>2, <2>3, <2>4, <2>5
<1>3. CASE ProcessExit BY <1>3 DEF ProcessExit, ProcessMemoryGone, TypeOK
<1>4. ASSUME NEW t \in Threads, NEW timeout \in Timeouts, InFirst(t, timeout) \/ InAgain(t, timeout)
      PROVE  TypeOK' /\ LocalsOK'
  <2>1. CASE InFirst(t, timeout)
    <3>1. /\ s_checker_index \in Slots
          /\ s_checker_index + 1 \in 0 .. MaxIndex /\ s_checker_index + 1 \in 0 .. s_checker_limit
      BY <2>1 DEF InFirst, TypeOK, Slots
    <3> QED BY <2>1, <3>1 DEF InFirst, TypeOK
  <2>2. CASE InAgain(t, timeout) BY <2>2 DEF InAgain, TypeOK
  <2> QED BY <1>4, <2>1, <2>2
<1>5. ASSUME NEW t \in Threads,
             \/ InRefused(t) \/ InMaxTime(t) \/ InCheckIn(t) \/ InCheckOut(t)
             \/ OutCheckOut(t) \/ OutMaxTime(t)
      PROVE  TypeOK' /\ LocalsOK'
  <2>1. CASE InRefused(t)
    <3>1. s_checker_index + 1 \in 0 .. MaxIndex BY <2>1 DEF InRefused, TypeOK
    <3> QED BY <2>1, <3>1 DEF InRefused, TypeOK
  <2>2. CASE ~ InRefused(t)
    <3>1. Record(t) \in Records
      BY <1>5, <2>2, OwnRecord DEF InMaxTime, InCheckIn, InCheckOut, OutCheckOut, OutMaxTime
    <3>2. now \in 0 .. MaxTime BY DEF TypeOK
    <3>3. PICK r \in Records : Store(t, r)
      <4>1. /\ [Record(t) EXCEPT !.max_time = targ[t]] \in Records
            /\ [Record(t) EXCEPT !.max_time = 0] \in Records
            /\ [Record(t) EXCEPT !.check_in = now] \in Records
            /\ [Record(t) EXCEPT !.check_out = 0] \in Records
            /\ [Record(t) EXCEPT !.check_out = now] \in Records
        BY <3>1, <3>2
      <4> QED BY <1>5, <2>2, <4>1 DEF InMaxTime, InCheckIn, InCheckOut, OutCheckOut, OutMaxTime
    <3>4. s_checker_array' \in [Slots -> Records] /\ moved' \in BOOLEAN
      BY <3>3, StoreType
    <3>5. UNCHANGED <<clock, memory, s_delay_tester, process, s_checker_index, slot, delayer, watchdog>>
      BY <1>5, <2>2 DEF InMaxTime, InCheckIn, InCheckOut, OutCheckOut, OutMaxTime
    <3>6. /\ tpc' \in [Threads -> {"idle", "in_max", "in_in", "in_out", "work", "out_max"}]
          /\ torn' \subseteq Slots
          /\ targ' \in [Threads -> Timeouts \cup {0}] /\ since' \in [Threads -> 0 .. MaxTime]
      <4>1. CASE InMaxTime(t) BY <4>1 DEF InMaxTime, TypeOK
      <4>2. CASE InCheckIn(t) BY <3>2, <4>2 DEF InCheckIn, TypeOK
      <4>3. CASE InCheckOut(t) BY <4>3 DEF InCheckOut, TypeOK
      <4>4. CASE OutCheckOut(t)
        <5>1. torn' \subseteq Slots BY <4>4, OwnRecord DEF OutCheckOut, TypeOK
        <5> QED BY <4>4, <5>1 DEF OutCheckOut, TypeOK
      <4>5. CASE OutMaxTime(t) BY <4>5 DEF OutMaxTime, TypeOK
      <4> QED BY <1>5, <2>2, <4>1, <4>2, <4>3, <4>4, <4>5
    <3> QED BY <3>4, <3>5, <3>6 DEF TypeOK
  <2> QED BY <2>1, <2>2
<1>6. ASSUME \/ ResetTestTime \/ ClearMaxTime \/ ClearTestTime
             \/ \E timeout \in DelayTimeouts : ResetMaxTime(timeout)
      PROVE  TypeOK' /\ LocalsOK'
  <2>1. now \in 0 .. MaxTime BY DEF TypeOK
  <2>2. ASSUME NEW timeout \in DelayTimeouts, ResetMaxTime(timeout) PROVE TypeOK' /\ LocalsOK'
    BY <2>2 DEF ResetMaxTime, StoreDelay, TypeOK
  <2>3. CASE ResetTestTime BY <2>1, <2>3 DEF ResetTestTime, StoreDelay, TypeOK
  <2>4. CASE ClearMaxTime BY <2>4 DEF ClearMaxTime, StoreDelay, TypeOK
  <2>5. CASE ClearTestTime BY <2>5 DEF ClearTestTime, StoreDelay, TypeOK
  <2> QED BY <1>6, <2>2, <2>3, <2>4, <2>5
<1>7. CASE Watchdog
  <2>0. s_checker_array[checker_index] \in Records BY DEF TypeOK
  <2>1. CASE ReadPid \/ ReadMark
    <3>1. CASE ReadPid BY <3>1 DEF ReadPid, TypeOK
    <3>2. CASE ReadMark /\ s_checker_mark BY <3>2 DEF ReadMark, TypeOK
    <3>3. CASE ReadMark /\ ~ s_checker_mark BY <3>3, <1>00 DEF ReadMark, TypeOK
    <3> QED BY <2>1, <3>1, <3>2, <3>3
  <2>2. CASE ReadDelayMax BY <2>2 DEF ReadDelayMax, TypeOK
  <2>3. CASE ReadDelayTime BY <2>3 DEF ReadDelayTime, TypeOK
  <2>4. CASE ReadDelayAgain \/ JudgeDelay BY <2>4 DEF ReadDelayAgain, JudgeDelay, TypeOK
  <2>5. CASE ReadCount
    <3>1. CASE s_checker_count \in 1 .. s_checker_limit BY <2>5, <3>1 DEF ReadCount, TypeOK
    <3>2. CASE s_checker_count \notin 1 .. s_checker_limit BY <1>00, <2>5, <3>2 DEF ReadCount, TypeOK
    <3> QED BY <3>1, <3>2
  <2>6. CASE CopyMaxTime
    <3>1. action_checker' \in Records BY <2>0, <2>6 DEF CopyMaxTime, TypeOK
    <3>2. moved' \in BOOLEAN /\ wpc' = "copy_in" /\ UNCHANGED <<application, checker_index, checker_count>>
          /\ UNCHANGED <<delay_max_time_1, delay_test_time>>
      BY <2>6 DEF CopyMaxTime
    <3> QED BY <3>1, <3>2 DEF TypeOK
  <2>7. CASE CopyCheckIn BY <2>0, <2>7 DEF CopyCheckIn, TypeOK
  <2>8. CASE CopyCheckOut BY <2>0, <2>8 DEF CopyCheckOut, TypeOK
  <2>9. CASE Judge BY <2>9 DEF Judge, TypeOK
  <2>10. CASE NextRecord
    <3>1. checker_index + 1 < checker_count => checker_index + 1 \in Slots
      BY DEF TypeOK, Slots
    <3>2. CASE checker_index + 1 < checker_count
      <4>1. /\ moved' \in BOOLEAN /\ wpc' = "copy_max" /\ action_checker' = Blank
            /\ checker_index' = checker_index + 1
            /\ UNCHANGED <<application, delay_max_time_1, delay_test_time, checker_count>>
        BY <2>10, <3>2 DEF NextRecord
      <4> QED BY <3>1, <3>2, <4>1 DEF TypeOK
    <3>3. CASE ~ (checker_index + 1 < checker_count) BY <1>00, <2>10, <3>3 DEF NextRecord, TypeOK
    <3> QED BY <3>2, <3>3
  <2>12. CASE Wipe
    <3>1. wpc' \in {"wipe_max", "wipe_in", "wipe_out", "pid"}
          /\ UNCHANGED <<clock, memory, s_delay_tester, process, threads, delayer>>
      BY <2>12 DEF Wipe, WipeMaxTime, WipeCheckIn, WipeCheckOut, WipeField
    <3>2. s_checker_array' \in [Slots -> Records]
      BY <2>12, WipeLeaves
    <3>3. /\ checker_index' \in Slots /\ checker_count' \in 0 .. s_checker_limit
          /\ delay_max_time_1' \in DelayTimeouts \cup {0} /\ delay_test_time' \in 0 .. MaxTime
          /\ action_checker' \in Records /\ moved' \in BOOLEAN
      <4>1. CASE wpc = "wipe_out" /\ checker_index + 1 < s_checker_limit
        <5>1. checker_index' = checker_index + 1
              /\ UNCHANGED <<delay_max_time_1, delay_test_time, checker_count, action_checker, moved>>
          BY <2>12, <4>1 DEF Wipe, WipeMaxTime, WipeCheckIn, WipeCheckOut
        <5> QED BY <4>1, <5>1 DEF TypeOK, Slots
      <4>2. CASE ~ (wpc = "wipe_out" /\ checker_index + 1 < s_checker_limit)
        <5>1. Forget \/ UNCHANGED <<locals, moved>>
          BY <2>12, <4>2 DEF Wipe, WipeMaxTime, WipeCheckIn, WipeCheckOut
        <5> QED BY <1>00, <5>1 DEF TypeOK
      <4> QED BY <4>1, <4>2
    <3> QED BY <3>1, <3>2, <3>3 DEF TypeOK
  <2>11. CASE Kill
    <3>1. CASE alive = checker_pid
      BY <1>00, <2>11, <3>1 DEF Kill, ProcessMemoryGone, TypeOK
    <3>2. CASE alive # checker_pid
      BY <1>00, <2>11, <3>2 DEF Kill, TypeOK
    <3> QED BY <3>1, <3>2
  <2> QED BY <1>7, <2>1, <2>2, <2>3, <2>4, <2>5, <2>6, <2>7, <2>8, <2>9, <2>10, <2>11, <2>12 DEF Watchdog
<1>8. CASE WatchdogRestart BY <1>00, <1>8 DEF WatchdogRestart, TypeOK
<1>9. CASE UNCHANGED vars BY <1>9 DEF vars, TypeOK
<1> QED BY <1>1, <1>2, <1>3, <1>4, <1>5, <1>6, <1>7, <1>8, <1>9 DEF Next, Application

(* A pid that the watchdog reads was published by the process that runs.   *)
LEMMA PidsStep == CheckerInv /\ [Next]_vars => PidsInv'
<1> SUFFICES ASSUME CheckerInv, [Next]_vars PROVE PidsInv'
  OBVIOUS
<1>0. PidsInv /\ processes \in Nat /\ alive \in Nat
  BY ConstantFacts DEF CheckerInv, TypeOK, PidsInv
<1> USE <1>0 DEF PidsInv, Wiping, clock, memory, process, threads, delayer, locals, watchdog, application
<1>1. CASE Tick BY <1>1 DEF Tick
<1>2. CASE OpenBegin \/ OpenClear \/ OpenDelayMax \/ OpenDelayTime \/ OpenMark \/ OpenCount \/ OpenPid
  BY <1>2 DEF OpenBegin, OpenClear, OpenDelayMax, OpenDelayTime, OpenMark,
             OpenCount, OpenPid
<1>3. CASE ProcessExit BY <1>3 DEF ProcessExit
<1>4. ASSUME NEW t \in Threads, NEW timeout \in Timeouts, InFirst(t, timeout) \/ InAgain(t, timeout)
      PROVE  PidsInv'
  BY <1>4 DEF InFirst, InAgain
<1>5. ASSUME NEW t \in Threads,
             \/ InRefused(t) \/ InMaxTime(t) \/ InCheckIn(t) \/ InCheckOut(t)
             \/ OutCheckOut(t) \/ OutMaxTime(t)
      PROVE  PidsInv'
  BY <1>5 DEF InRefused, InMaxTime, InCheckIn, InCheckOut, OutCheckOut, OutMaxTime
<1>6. ASSUME \/ ResetTestTime \/ ClearMaxTime \/ ClearTestTime
             \/ \E timeout \in DelayTimeouts : ResetMaxTime(timeout)
      PROVE  PidsInv'
  BY <1>6 DEF ResetTestTime, ClearMaxTime, ClearTestTime, ResetMaxTime
<1>7. CASE Watchdog
  <2>1. CASE ReadPid BY <2>1 DEF ReadPid
  <2>2. CASE ReadMark BY <2>2 DEF ReadMark, Top, Forget
  <2>3. CASE ReadDelayMax \/ ReadDelayTime \/ ReadDelayAgain \/ JudgeDelay
    BY <2>3 DEF ReadDelayMax, ReadDelayTime, ReadDelayAgain, JudgeDelay
  <2>4. CASE ReadCount BY <2>4 DEF ReadCount, Top, Forget
  <2>5. CASE CopyMaxTime \/ CopyCheckIn \/ CopyCheckOut \/ Judge
    BY <2>5 DEF CopyMaxTime, CopyCheckIn, CopyCheckOut, Judge
  <2>6. CASE NextRecord BY <2>6 DEF NextRecord, Top, Forget
  <2>7. CASE Kill BY <2>7 DEF Kill, Top, Forget
  <2>8. CASE Wipe
    BY <2>8 DEF Wipe, WipeMaxTime, WipeCheckIn, WipeCheckOut, WipeField, Top, Forget
  <2> QED BY <1>7, <2>1, <2>2, <2>3, <2>4, <2>5, <2>6, <2>7, <2>8 DEF Watchdog
<1>8. CASE WatchdogRestart BY <1>8 DEF WatchdogRestart, Top, Forget
<1>9. CASE UNCHANGED vars BY <1>9 DEF vars
<1> QED BY <1>1, <1>2, <1>3, <1>4, <1>5, <1>6, <1>7, <1>8, <1>9 DEF Next, Application

(* A process's own memory, as opposed to the shared one, is written by     *)
(* nobody else: the watchdog's steps leave it or end it.                   *)
LEMMA WatchdogLeaves ==
    ASSUME Watchdog, TypeOK
    PROVE  /\ UNCHANGED <<now, s_checker_count, s_checker_pid, s_delay_tester>>
           /\ \A s \in Slots : s_checker_array[s] = Blank => s_checker_array'[s] = Blank
           /\ Wipe \/ UNCHANGED s_checker_array
           /\ \/ UNCHANGED <<process, threads, delayer>>
              \/ alive' = 0 /\ opc' = "none" /\ ProcessMemoryGone /\ Kill
<1>1. CASE Kill
  BY <1>1 DEF Kill, clock, memory, process
<1>2. CASE Wipe
  BY <1>2, WipeLeaves DEF clock, memory
<1>3. CASE ~ Kill /\ ~ Wipe
  BY <1>3 DEF Watchdog, ReadPid, ReadMark, ReadDelayMax, ReadDelayTime, ReadDelayAgain, JudgeDelay,
     ReadCount, CopyMaxTime, CopyCheckIn, CopyCheckOut, Judge, NextRecord, application, clock, memory
<1> QED BY <1>1, <1>2, <1>3

(* A process that has ended leaves nobody who owns a record.               *)
LEMMA NobodyLeft ==
    ASSUME ProcessMemoryGone, opc' = "none"
    PROVE  OwnersInv'
<1>1. Owners' = {} /\ \A t \in Threads : slot'[t] = None /\ tpc'[t] = "idle"
  BY DEF ProcessMemoryGone, Owners
<1>2. \A s \in Slots : ~ (s < 0)
  BY ConstantFacts DEF Slots
<1> QED BY <1>1, <1>2, FS_EmptySet DEF OwnersInv, ProcessMemoryGone, None

(* Records are handed out in order and each to one thread.                 *)
LEMMA OwnersStep == CheckerInv /\ TypeOK' /\ [Next]_vars => OwnersInv'
<1> SUFFICES ASSUME CheckerInv, TypeOK', [Next]_vars PROVE OwnersInv'
  OBVIOUS
<1>0. OwnersInv /\ TypeOK /\ PidsInv
  BY DEF CheckerInv
<1> USE <1>0 DEF clock, memory, process, threads, delayer, locals, watchdog, application
<1>a. ASSUME UNCHANGED <<opc, s_checker_index, slot, dpc, stream, tpc, s_checker_count>>,
             \A s \in Slots : s_checker_array[s] = Blank => s_checker_array'[s] = Blank
      PROVE  OwnersInv'
  BY <1>a DEF OwnersInv, Owners
<1>1. CASE Tick BY <1>1, <1>a DEF Tick
<1>2. CASE OpenBegin \/ OpenClear \/ OpenDelayMax \/ OpenDelayTime \/ OpenMark \/ OpenCount \/ OpenPid
  <2>1. CASE OpenBegin
    <3>1. opc = "none" BY <2>1 DEF OpenBegin, PidsInv
    <3> QED BY <2>1, <3>1 DEF OpenBegin, OwnersInv, Owners
  <2>2. CASE OpenClear BY <2>2 DEF OpenClear, OwnersInv, Owners
  <2>3. CASE OpenDelayMax \/ OpenDelayTime BY <2>3 DEF OpenDelayMax, OpenDelayTime, OwnersInv, Owners
  <2>4. CASE OpenMark \/ OpenCount BY <2>4 DEF OpenMark, OpenCount, OwnersInv, Owners
  <2>5. CASE OpenPid BY <2>5, ConstantFacts DEF OpenPid, OwnersInv, Owners
  <2> QED BY <1>2, <2>1, <2>2, <2>3, <2>4, <2>5
<1>3. CASE ProcessExit BY <1>3, NobodyLeft DEF ProcessExit
<1>4. ASSUME NEW t \in Threads, NEW timeout \in Timeouts, InFirst(t, timeout) \/ InAgain(t, timeout)
      PROVE  OwnersInv'
  <2>1. CASE InFirst(t, timeout)
    <3>1. Owners' = Owners \cup {t}
      BY <2>1, ConstantFacts DEF InFirst, Owners, TypeOK, None, Slots
    <3>2. IsFiniteSet(Owners')
      BY <3>1, FS_AddElement DEF OwnersInv
    <3>3. \A u \in Threads : slot'[u] < s_checker_index' /\ (tpc'[u] # "idle" => slot'[u] # None)
      BY <2>1, ConstantFacts DEF InFirst, OwnersInv, TypeOK, None, Slots
    <3>4. ASSUME NEW s \in Slots, s < s_checker_index' PROVE \E u \in Threads : slot'[u] = s
      <4>1. CASE s = s_checker_index BY <2>1, <4>1 DEF InFirst, TypeOK
      <4>2. CASE s < s_checker_index
        <5>1. PICK u \in Threads : slot[u] = s BY <4>2 DEF OwnersInv
        <5>2. u # t BY <2>1, <5>1, ConstantFacts DEF InFirst, Slots, None
        <5> QED BY <2>1, <5>1, <5>2 DEF InFirst, TypeOK
      <4> QED BY <2>1, <3>4, <4>1, <4>2, ConstantFacts DEF InFirst, Slots, TypeOK
    <3>5. s_checker_count' = IF s_checker_index' < s_checker_limit THEN s_checker_index' ELSE s_checker_limit
      BY <2>1, ConstantFacts DEF InFirst, TypeOK
    <3>6. \A s \in Slots : s >= s_checker_index' => s_checker_array'[s] = Blank
      BY <2>1, ConstantFacts DEF InFirst, OwnersInv, TypeOK, Slots
    <3> QED BY <2>1, <3>2, <3>3, <3>4, <3>5, <3>6 DEF InFirst, OwnersInv
  <2>2. CASE InAgain(t, timeout) BY <2>2 DEF InAgain, OwnersInv, Owners, TypeOK
  <2> QED BY <1>4, <2>1, <2>2
<1>5. ASSUME NEW t \in Threads,
             \/ InRefused(t) \/ InMaxTime(t) \/ InCheckIn(t) \/ InCheckOut(t)
             \/ OutCheckOut(t) \/ OutMaxTime(t)
      PROVE  OwnersInv'
  <2>1. CASE InRefused(t)
    <3>1. s_checker_index' = s_checker_index + 1 /\ s_checker_index \in Nat /\ s_checker_index >= s_checker_limit
      BY <2>1 DEF InRefused, TypeOK
    <3>2. \A s \in Slots : s < s_checker_index BY <3>1, ConstantFacts DEF Slots
    <3>3. \A u \in Threads : slot[u] \in Int BY ConstantFacts DEF TypeOK, Slots, None
    <3> QED BY <2>1, <3>1, <3>2, <3>3, ConstantFacts DEF InRefused, OwnersInv, Owners, Slots
  <2>2. CASE ~ InRefused(t)
    <3>1. slot[t] \in Slots /\ slot[t] < s_checker_index /\ slot[t] # None /\ opc = "open"
      BY <1>5, <2>2, OwnRecord DEF InMaxTime, InCheckIn, InCheckOut, OutCheckOut, OutMaxTime, OwnersInv
    <3>2. \A s \in Slots : s # slot[t] => s_checker_array'[s] = s_checker_array[s]
      BY <1>5, <2>2 DEF InMaxTime, InCheckIn, InCheckOut, OutCheckOut, OutMaxTime, Store, TypeOK
    <3>3. \A s \in Slots : s >= s_checker_index => s # slot[t]
      BY <3>1, ConstantFacts DEF Slots, TypeOK
    <3>4. /\ UNCHANGED <<opc, s_checker_index, slot, dpc, stream, s_checker_count>>
          /\ \A u \in Threads : u # t => tpc'[u] = tpc[u]
      BY <1>5, <2>2 DEF InMaxTime, InCheckIn, InCheckOut, OutCheckOut, OutMaxTime, TypeOK
    <3> QED BY <3>1, <3>2, <3>3, <3>4 DEF OwnersInv, Owners
  <2> QED BY <2>1, <2>2
<1>6. ASSUME \/ ResetTestTime \/ ClearMaxTime \/ ClearTestTime
             \/ \E timeout \in DelayTimeouts : ResetMaxTime(timeout)
      PROVE  OwnersInv'
  <2>1. opc = "open"
    BY <1>6 DEF ResetTestTime, ClearMaxTime, ClearTestTime, ResetMaxTime, OwnersInv
  <2>2. UNCHANGED <<opc, s_checker_index, slot, tpc, s_checker_count, s_checker_array>>
    BY <1>6 DEF ResetTestTime, ClearMaxTime, ClearTestTime, ResetMaxTime
  <2> QED BY <2>1, <2>2 DEF OwnersInv, Owners
<1>7. CASE Watchdog
  BY <1>7, <1>a, WatchdogLeaves, NobodyLeft
<1>8. CASE WatchdogRestart BY <1>8, <1>a DEF WatchdogRestart
<1>9. CASE UNCHANGED vars BY <1>9, <1>a DEF vars
<1> QED BY <1>1, <1>2, <1>3, <1>4, <1>5, <1>6, <1>7, <1>8, <1>9 DEF Next, Application

(* The published count is the number of owners, as an index that is handed *)
(* out makes one thread more an owner.                                     *)
LEMMA OwnedStep == CheckerInv /\ TypeOK' /\ OwnersInv' /\ PidsInv' /\ [Next]_vars => RecordsAreOwned'
<1> SUFFICES ASSUME CheckerInv, TypeOK', OwnersInv', PidsInv', [Next]_vars PROVE RecordsAreOwned'
  OBVIOUS
<1>0. /\ TypeOK /\ OwnersInv /\ PidsInv /\ RecordsAreOwned
      /\ Owners = {t \in Threads : slot[t] # None} /\ Owners' = {t \in Threads : slot'[t] # None}
  BY DEF CheckerInv, Owners
<1>w. Watchdog => /\ UNCHANGED <<s_checker_count, s_checker_pid>>
                  /\ \/ UNCHANGED <<process, threads>>
                     \/ alive' = 0 /\ opc' = "none" /\ ProcessMemoryGone
  BY <1>0, WatchdogLeaves
<1>1. \A t, u \in Threads : t # u /\ slot'[t] # None => slot'[t] # slot'[u]
  <2>1. CASE UNCHANGED slot BY <1>0, <2>1 DEF RecordsAreOwned
  <2>2. CASE slot' = [t \in Threads |-> None] BY <2>2
  <2>3. ASSUME NEW t \in Threads, NEW timeout \in Timeouts, InFirst(t, timeout)
        PROVE  \A v, u \in Threads : v # u /\ slot'[v] # None => slot'[v] # slot'[u]
    <3>1. \A u \in Threads : u # t => slot'[u] = slot[u] /\ slot[u] < s_checker_index
      BY <1>0, <2>3 DEF InFirst, OwnersInv, TypeOK
    <3>2. slot'[t] = s_checker_index /\ s_checker_index \in Nat
      BY <1>0, <2>3 DEF InFirst, TypeOK
    <3>3. \A u \in Threads : u # t => slot'[u] # s_checker_index
      BY <1>0, <3>1, <3>2, ConstantFacts DEF TypeOK, Slots, None
    <3> QED BY <1>0, <3>1, <3>2, <3>3 DEF RecordsAreOwned
  <2> QED BY <2>1, <2>2, <2>3, <1>0, <1>w
          DEF Next, Application, Tick, OpenBegin, OpenClear, OpenDelayMax, OpenDelayTime, OpenMark,
             OpenCount, OpenPid, ProcessExit,
              ProcessMemoryGone, InAgain, InRefused, InMaxTime, InCheckIn, InCheckOut, OutCheckOut,
              OutMaxTime, ResetMaxTime, ResetTestTime, ClearMaxTime, ClearTestTime, WatchdogRestart, application,
              threads, vars
<1>2. ASSUME opc' = "open" PROVE s_checker_pid' = alive'
  <2>1. CASE opc # "open"
    BY <1>2, <2>1, <1>0, <1>w
       DEF Next, Application, Tick, OpenBegin, OpenClear, OpenDelayMax, OpenDelayTime, OpenMark,
             OpenCount, OpenPid, ProcessExit,
           InFirst, InAgain, InRefused, InMaxTime, InCheckIn, InCheckOut, OutCheckOut,
           OutMaxTime, ResetMaxTime, ResetTestTime, ClearMaxTime, ClearTestTime, WatchdogRestart, application,
           process, memory, vars
  <2>2. CASE opc = "open"
    <3>1. s_checker_pid = alive BY <1>0, <2>2 DEF RecordsAreOwned
    <3>2. UNCHANGED <<s_checker_pid, alive>>
      BY <1>2, <2>2, <1>0, <1>w
         DEF Next, Application, Tick, OpenBegin, OpenClear, OpenDelayMax, OpenDelayTime, OpenMark,
             OpenCount, OpenPid, ProcessExit,
             InFirst, InAgain, InRefused, InMaxTime, InCheckIn, InCheckOut, OutCheckOut, PidsInv,
             OutMaxTime, ResetMaxTime, ResetTestTime, ClearMaxTime, ClearTestTime, WatchdogRestart, application,
             process, memory, vars
    <3> QED BY <3>1, <3>2
  <2> QED BY <2>1, <2>2
<1>3. ASSUME opc' = "open" PROVE s_checker_count' = Cardinality(Owners')
  <2>1. CASE OpenPid
    BY <1>0, <2>1, FS_EmptySet DEF OpenPid, OwnersInv, memory, threads
  <2>2. ASSUME NEW t \in Threads, NEW timeout \in Timeouts, InFirst(t, timeout)
        PROVE  s_checker_count' = Cardinality(Owners')
    <3>1. Owners' = Owners \cup {t} /\ t \notin Owners
      <4>1. /\ slot \in [Threads -> Slots \cup {None}] /\ slot[t] = None
            /\ slot' = [slot EXCEPT ![t] = s_checker_index] /\ s_checker_index # None
        BY <1>0, <2>2 DEF InFirst, TypeOK, None
      <4> QED BY <4>1 DEF Owners
    <3>2. Cardinality(Owners') = Cardinality(Owners) + 1
      <4>1. IsFiniteSet(Owners) BY <1>0 DEF OwnersInv
      <4> HIDE DEF Owners
      <4> QED BY ONLY <3>1, <4>1, FS_AddElement
    <3>3. s_checker_count = Cardinality(Owners) /\ s_checker_count = s_checker_index
      BY <1>0, <2>2 DEF InFirst, RecordsAreOwned, OwnersInv
    <3> QED BY <2>2, <3>2, <3>3 DEF InFirst
  <2>3. CASE opc = "open" /\ UNCHANGED <<slot, s_checker_count>>
    BY <1>0, <2>3 DEF RecordsAreOwned
  <2> QED BY <1>3, <1>0, <2>1, <2>2, <2>3, <1>w
          DEF Next, Application, Tick, OpenBegin, OpenClear, OpenDelayMax, OpenDelayTime, OpenMark,
             OpenCount, OpenPid, ProcessExit,
              InAgain, InRefused, InMaxTime, InCheckIn, InCheckOut, OutCheckOut, PidsInv,
              OutMaxTime, ResetMaxTime, ResetTestTime, ClearMaxTime, ClearTestTime, WatchdogRestart, application,
              process, memory, threads, vars
<1>4. ASSUME opc' = "open", NEW t \in Threads PROVE slot'[t] < s_checker_count'
  <2>1. slot'[t] \in Slots \cup {None} /\ s_checker_index' \in Nat
    BY DEF TypeOK
  <2>2. slot'[t] < s_checker_index'
    BY DEF OwnersInv
  <2>3. s_checker_count' = IF s_checker_index' < s_checker_limit THEN s_checker_index' ELSE s_checker_limit
    BY <1>4 DEF OwnersInv
  <2>4. slot'[t] < s_checker_limit
    BY <2>1, ConstantFacts DEF Slots, None
  <2> QED BY <2>2, <2>3, <2>4
<1> QED BY <1>0, <1>1, <1>2, <1>3, <1>4 DEF RecordsAreOwned

(* A record reads as an open action only while its owner is in one.  The   *)
(* order of the three stores of stuck_checker_in(), and that check_out is  *)
(* stored first in stuck_checker_out(), are what this rests on.            *)
LEMMA RecordsStep == CheckerInv /\ TypeOK' /\ [Next]_vars => RecordsInv'
<1> SUFFICES ASSUME CheckerInv, TypeOK', [Next]_vars PROVE RecordsInv'
  OBVIOUS
<1>0. TypeOK /\ LocalsOK /\ OwnersInv /\ PidsInv /\ RecordsAreOwned /\ RecordsInv
  BY DEF CheckerInv
<1> USE DEF clock, memory, process, threads, delayer, locals, watchdog, application
<1>a. ASSUME UNCHANGED <<slot, tpc, targ, since, torn, s_checker_array>>,
             wpc' # "wipe_out" \/ UNCHANGED <<wpc, checker_index>>
      PROVE  RecordsInv'
  BY <1>0, <1>a DEF RecordsInv, RecordOf, Record
<1>c. ASSUME ProcessMemoryGone PROVE RecordsInv'
  BY <1>c DEF RecordsInv, ProcessMemoryGone
<1>1. CASE Tick BY <1>1, <1>a DEF Tick
<1>2. CASE OpenBegin \/ OpenDelayMax \/ OpenDelayTime \/ OpenMark \/ OpenCount \/ OpenPid
  BY <1>2, <1>a DEF OpenBegin, OpenDelayMax, OpenDelayTime, OpenMark, OpenCount, OpenPid
<1>3. CASE OpenClear \/ WatchdogRestart
  <2>1. CASE OpenClear
    BY <1>0, <2>1 DEF OpenClear, RecordsInv, OwnersInv, Owners
  <2>2. CASE WatchdogRestart
    BY <2>2, <1>a DEF WatchdogRestart
  <2> QED BY <1>3, <2>1, <2>2
<1>4. CASE ProcessExit BY <1>4, <1>c DEF ProcessExit
<1>5. ASSUME NEW t \in Threads, NEW timeout \in Timeouts, InFirst(t, timeout) PROVE RecordsInv'
  <2> SUFFICES ASSUME NEW u \in Threads, slot'[u] # None PROVE RecordOf(u, Record(u))'
    BY DEF RecordsInv
  <2>1. CASE u # t
    BY <1>0, <1>5, <2>1 DEF InFirst, RecordsInv, RecordOf, Record, TypeOK, LocalsOK
  <2>2. CASE u = t
    <3>1. slot'[t] = s_checker_index /\ s_checker_index \in Slots
      BY <1>0, <1>5, ConstantFacts DEF InFirst, TypeOK, Slots
    <3>2. Record(t)' = Blank
      BY <1>0, <1>5, <3>1 DEF InFirst, Record, OwnersInv, TypeOK, Slots
    <3>3. tpc'[t] = "in_max"
      BY <1>0, <1>5 DEF InFirst, TypeOK
    <3> QED BY <2>2, <3>2, <3>3 DEF RecordOf, Blank
  <2> QED BY <2>1, <2>2
<1>6. ASSUME NEW t \in Threads, NEW timeout \in Timeouts, InAgain(t, timeout) PROVE RecordsInv'
  BY <1>0, <1>6 DEF InAgain, RecordsInv, RecordOf, Record, TypeOK, LocalsOK
<1>7. ASSUME NEW t \in Threads, InRefused(t) PROVE RecordsInv'
  BY <1>7, <1>a DEF InRefused
<1>8. ASSUME NEW t \in Threads,
             InMaxTime(t) \/ InCheckIn(t) \/ InCheckOut(t) \/ OutCheckOut(t) \/ OutMaxTime(t)
      PROVE  RecordsInv'
  <2> SUFFICES ASSUME NEW u \in Threads, slot'[u] # None PROVE RecordOf(u, Record(u))'
    BY DEF RecordsInv
  <2> USE DEF InMaxTime, InCheckIn, InCheckOut, OutCheckOut, OutMaxTime
  <2>1. slot' = slot /\ slot[t] # None /\ slot[t] \in Slots /\ Record(t) \in Records
    BY <1>8, OwnRecord
  <2>2. RecordOf(t, Record(t)) /\ RecordOf(u, Record(u))
    BY <2>1 DEF CheckerInv, RecordsInv
  <2>3. CASE u # t
    <3>1. slot[u] # slot[t] BY <1>0, <2>1, <2>3 DEF RecordsAreOwned
    <3>2. Record(u)' = Record(u)
      BY <1>0, <1>8, <2>1, <3>1 DEF Record, Store, TypeOK
    <3>3. tpc'[u] = tpc[u] /\ targ'[u] = targ[u] /\ since'[u] = since[u]
      BY <1>0, <1>8, <2>3 DEF TypeOK, LocalsOK
    <3>4. /\ slot'[u] \in torn' <=> slot[u] \in torn
          /\ UNCHANGED <<slot, wpc, checker_index>>
      BY <1>8, <3>1
    <3> QED BY <2>2, <3>2, <3>3, <3>4 DEF RecordOf
  <2>4. CASE u = t
    <3>0. now # 0 /\ UNCHANGED <<slot, wpc, checker_index>>
      BY <1>0, <1>8 DEF TypeOK
    <3>1. CASE InMaxTime(t)
      <4>1. Record(t)' = [Record(t) EXCEPT !.max_time = targ[t]]
        BY <1>0, <2>1, <3>1 DEF Record, Store, TypeOK
      <4>2. tpc[t] = "in_max" /\ tpc'[t] = "in_in" /\ targ'[t] = targ[t]
        BY <1>0, <3>1 DEF TypeOK
      <4>3. UNCHANGED torn BY <3>1
      <4> QED BY <2>1, <2>2, <2>4, <3>0, <4>1, <4>2, <4>3 DEF RecordOf, Records
    <3>2. CASE InCheckIn(t)
      <4>1. Record(t)' = [Record(t) EXCEPT !.check_in = now]
        BY <1>0, <2>1, <3>2 DEF Record, Store, TypeOK
      <4>2. tpc[t] = "in_in" /\ tpc'[t] = "in_out" /\ targ'[t] = targ[t] /\ since'[t] = now
        BY <1>0, <3>2 DEF TypeOK, LocalsOK
      <4> QED BY <2>1, <2>2, <2>4, <4>1, <4>2 DEF RecordOf, Records
    <3>3. CASE InCheckOut(t)
      <4>1. Record(t)' = [Record(t) EXCEPT !.check_out = 0]
        BY <1>0, <2>1, <3>3 DEF Record, Store, TypeOK
      <4>2. tpc[t] = "in_out" /\ tpc'[t] = "work" /\ targ'[t] = targ[t] /\ since'[t] = since[t]
        BY <1>0, <3>3 DEF TypeOK
      <4> QED BY <2>1, <2>2, <2>4, <4>1, <4>2 DEF RecordOf, Records
    <3>4. CASE OutCheckOut(t)
      <4>1. Record(t)' = [Record(t) EXCEPT !.check_out = now]
        BY <1>0, <2>1, <3>4 DEF Record, Store, TypeOK
      <4>2. tpc'[t] = "out_max" BY <1>0, <3>4 DEF TypeOK
      <4>3. wpc = "wipe_out" /\ checker_index = slot[t] => slot[t] \in torn' BY <3>4
      <4> QED BY <2>1, <2>4, <3>0, <4>1, <4>2, <4>3 DEF RecordOf, Records
    <3>5. CASE OutMaxTime(t)
      <4>1. Record(t)' = [Record(t) EXCEPT !.max_time = 0]
        BY <1>0, <2>1, <3>5 DEF Record, Store, TypeOK
      <4>2. tpc[t] = "out_max" /\ tpc'[t] = "idle" /\ UNCHANGED torn BY <1>0, <3>5 DEF TypeOK
      <4> QED BY <2>1, <2>2, <2>4, <3>0, <4>1, <4>2 DEF RecordOf, Records
    <3> QED BY <1>8, <3>1, <3>2, <3>3, <3>4, <3>5
  <2> QED BY <2>3, <2>4
<1>9. ASSUME \/ ResetTestTime \/ ClearMaxTime \/ ClearTestTime
             \/ \E timeout \in DelayTimeouts : ResetMaxTime(timeout)
      PROVE  RecordsInv'
  BY <1>9, <1>a DEF ResetTestTime, ClearMaxTime, ClearTestTime, ResetMaxTime
<1>10. CASE Watchdog
  <2>1. CASE Kill BY <1>0, <1>10, <2>1, <1>a, <1>c, WatchdogLeaves DEF Kill, Top
  <2>2. CASE Wipe
    <3> SUFFICES ASSUME NEW u \in Threads, slot'[u] # None PROVE RecordOf(u, Record(u))'
      BY DEF RecordsInv
    <3> USE DEF Wipe, WipeMaxTime, WipeCheckIn, WipeCheckOut, WipeField
    <3>1. UNCHANGED <<slot, tpc, targ, since, torn>> /\ slot[u] \in Slots /\ Record(u) \in Records
      BY <1>0, <2>2 DEF TypeOK, Record, Records
    <3>2. RecordOf(u, Record(u)) BY <1>0, <3>1 DEF RecordsInv
    <3>3. CASE checker_index # slot[u]
      <4>1. Record(u)' = Record(u) BY <1>0, <2>2, <3>1, <3>3 DEF Record, TypeOK
      <4>2. wpc' = "wipe_out" => checker_index' = checker_index BY <2>2 DEF Top
      <4> QED BY <3>1, <3>2, <3>3, <4>1, <4>2 DEF RecordOf
    <3>4. CASE checker_index = slot[u]
      <4>1. CASE WipeMaxTime
        <5>1. Record(u)' = [Record(u) EXCEPT !.max_time = 0] /\ wpc' = "wipe_in"
          BY <1>0, <3>1, <3>4, <4>1 DEF Record, TypeOK
        <5> QED BY <3>1, <3>2, <5>1 DEF RecordOf, Records
      <4>2. CASE WipeCheckIn
        <5>1. Record(u)' = [Record(u) EXCEPT !.check_in = 0]
          BY <1>0, <3>1, <3>4, <4>2 DEF Record, TypeOK
        <5> QED BY <3>1, <3>2, <5>1 DEF RecordOf, Records
      <4>3. CASE WipeCheckOut
        <5>1. Record(u)' = [Record(u) EXCEPT !.check_out = 0] /\ wpc = "wipe_out" /\ wpc' # "wipe_out"
          BY <1>0, <3>1, <3>4, <4>3 DEF Record, TypeOK, Top
        <5> QED BY <3>1, <3>2, <3>4, <5>1 DEF RecordOf, Records
      <4> QED BY <2>2, <4>1, <4>2, <4>3
    <3> QED BY <3>3, <3>4
  <2>3. CASE ~ Kill /\ ~ Wipe
    <3>1. UNCHANGED <<slot, tpc, targ, since, torn, s_checker_array>>
      BY <1>0, <1>10, <2>3, WatchdogLeaves
    <3>2. wpc' # "wipe_out"
      BY <1>10, <2>3 DEF Watchdog, ReadPid, ReadMark, ReadDelayMax, ReadDelayTime, ReadDelayAgain, JudgeDelay,
         ReadCount, CopyMaxTime, CopyCheckIn, CopyCheckOut, Judge, NextRecord, Top
    <3> QED BY <1>a, <3>1, <3>2
  <2> QED BY <2>1, <2>2, <2>3
<1>11. CASE UNCHANGED vars BY <1>11, <1>a DEF vars
<1> QED BY <1>1, <1>2, <1>3, <1>4, <1>5, <1>6, <1>7, <1>8, <1>9, <1>10, <1>11 DEF Next, Application

(* The copy, read field by field, is that of the record: every store to    *)
(* the record would have been noticed.                                     *)
LEMMA CopyStep == CheckerInv /\ TypeOK' /\ PidsInv' /\ [Next]_vars => CopyInv'
<1> SUFFICES ASSUME CheckerInv, TypeOK', PidsInv', [Next]_vars, alive' = checker_pid', ~ moved',
                    wpc' \in {"copy_in", "copy_out", "judge", "kill"}
             PROVE  CopyInv'
  BY DEF CopyInv, Copying
<1>0. TypeOK /\ LocalsOK /\ OwnersInv /\ PidsInv /\ CopyInv
  BY DEF CheckerInv
<1> USE DEF clock, memory, process, threads, delayer, locals, watchdog, application
<1>a. ASSUME UNCHANGED <<alive, checker_pid, checker_index, action_checker, wpc>>, ~ moved,
             now' \in {now, now + 1}, s_checker_array'[checker_index] = s_checker_array[checker_index]
      PROVE  CopyInv'
  <2>1. action_checker.check_in \in 0 .. MaxTime /\ action_checker.max_time \in Timeouts \cup {0}
    BY <1>0 DEF TypeOK
  <2>2. action_checker.check_in + action_checker.max_time \in Int /\ now \in Int
    <3>1. action_checker.check_in \in Int /\ now \in Int
      BY <1>0, <2>1, ConstantFacts DEF TypeOK
    <3>2. action_checker.max_time \in Int
      <4>1. \A x \in Timeouts \cup {0} : x \in Int BY ConstantFacts
      <4> QED BY <2>1, <4>1
    <3> QED BY ONLY <3>1, <3>2
  <2>3. now > action_checker.check_in + action_checker.max_time
            => now' > action_checker.check_in + action_checker.max_time
    BY ONLY <1>a, <2>2
  <2> QED BY <1>0, <1>a, <2>3 DEF CopyInv, Copying
<1>u. ASSUME UNCHANGED <<now, s_checker_array, process, watchdog, moved>> PROVE CopyInv'
  BY <1>a, <1>u
<1>1. CASE Tick BY <1>1, <1>a DEF Tick
<1>2. CASE OpenBegin \/ OpenClear \/ OpenDelayMax \/ OpenDelayTime \/ OpenMark \/ OpenCount \/ OpenPid
  <2>1. CASE OpenBegin
    BY <1>0, <2>1, ConstantFacts DEF OpenBegin, PidsInv, Wiping, TypeOK
  <2>2. CASE OpenClear
    BY <1>0, <2>2, ConstantFacts DEF OpenClear, PidsInv, Wiping, TypeOK
  <2>3. CASE OpenDelayMax \/ OpenDelayTime \/ OpenMark \/ OpenCount \/ OpenPid
    <3>1. ~ moved /\ UNCHANGED <<now, s_checker_array, alive, watchdog>>
      BY <2>3 DEF OpenDelayMax, OpenDelayTime, OpenMark, OpenCount, OpenPid
    <3> QED BY <1>a, <3>1
  <2> QED BY <1>2, <2>1, <2>2, <2>3
<1>3. CASE ProcessExit BY <1>3 DEF ProcessExit, PidsInv, Wiping
<1>4. ASSUME NEW t \in Threads, NEW timeout \in Timeouts, InFirst(t, timeout) \/ InAgain(t, timeout)
      PROVE  CopyInv'
  BY <1>4, <1>u DEF InFirst, InAgain
<1>5. ASSUME NEW t \in Threads,
             \/ InRefused(t) \/ InMaxTime(t) \/ InCheckIn(t) \/ InCheckOut(t)
             \/ OutCheckOut(t) \/ OutMaxTime(t)
      PROVE  CopyInv'
  <2>1. CASE InRefused(t) BY <1>u, <2>1 DEF InRefused
  <2>2. ASSUME NEW r, Store(t, r), UNCHANGED <<now, process, watchdog>> PROVE CopyInv'
    <3>1. ~ moved /\ checker_index # slot[t]
      BY <2>2 DEF Store, Copying
    <3>2. s_checker_array'[checker_index] = s_checker_array[checker_index]
      BY <1>0, <2>2, <3>1 DEF Store, TypeOK
    <3> QED BY <1>a, <2>2, <3>1, <3>2
  <2> QED BY <1>5, <2>1, <2>2 DEF InMaxTime, InCheckIn, InCheckOut, OutCheckOut, OutMaxTime
<1>6. ASSUME \/ ResetTestTime \/ ClearMaxTime \/ ClearTestTime
             \/ \E timeout \in DelayTimeouts : ResetMaxTime(timeout)
      PROVE  CopyInv'
  <2>1. /\ UNCHANGED <<now, s_checker_array, process, watchdog>>
        /\ moved' = (moved \/ JudgingDelay)
    BY <1>6 DEF ResetTestTime, ClearMaxTime, ClearTestTime, ResetMaxTime, StoreDelay
  <2>2. ~ moved BY <2>1
  <2> QED BY <1>a, <2>1, <2>2
<1>7. CASE Watchdog
  <2>0. Blank.max_time = 0 /\ UNCHANGED <<now, s_checker_array>>
    BY <1>0, <1>7, WatchdogLeaves, WipeLeaves DEF Blank
  <2>1. CASE ReadPid \/ ReadMark \/ ReadDelayMax \/ ReadDelayTime \/ ReadDelayAgain \/ JudgeDelay \/ ReadCount
             \/ NextRecord \/ Kill
    BY <2>1 DEF ReadPid, ReadMark, ReadDelayMax, ReadDelayTime, ReadDelayAgain, JudgeDelay, ReadCount,
       NextRecord, Kill, Top, Forget
  <2>2. CASE CopyMaxTime
    <3>1. action_checker'.max_time = s_checker_array[checker_index].max_time
      BY <1>0, <2>2 DEF CopyMaxTime, TypeOK
    <3> QED BY <2>0, <2>2, <3>1 DEF CopyMaxTime, CopyInv, Copying
  <2>3. CASE CopyCheckIn
    <3>1. /\ action_checker'.check_in = s_checker_array[checker_index].check_in
          /\ action_checker'.max_time = action_checker.max_time
      BY <1>0, <2>3 DEF CopyCheckIn, TypeOK
    <3> QED BY <1>0, <2>0, <2>3, <3>1 DEF CopyCheckIn, CopyInv, Copying
  <2>4. CASE CopyCheckOut
    <3>1. /\ action_checker'.check_out = s_checker_array[checker_index].check_out
          /\ action_checker'.check_in = action_checker.check_in
          /\ action_checker'.max_time = action_checker.max_time
      BY <1>0, <2>4 DEF CopyCheckOut, TypeOK
    <3> QED BY <1>0, <2>0, <2>4, <3>1 DEF CopyCheckOut, CopyInv, Copying
  <2>5. CASE Judge
    BY <1>0, <2>0, <2>5 DEF Judge, CopyInv, Copying, ActionIsOpen
  <2>6. CASE Wipe
    BY <1>0, <2>6, WipeLeaves
  <2> QED BY <1>7, <2>1, <2>2, <2>3, <2>4, <2>5, <2>6 DEF Watchdog
<1>8. CASE WatchdogRestart BY <1>8 DEF WatchdogRestart, Top, Forget
<1>9. CASE UNCHANGED vars BY <1>9, <1>u DEF vars
<1> QED BY <1>1, <1>2, <1>3, <1>4, <1>5, <1>6, <1>7, <1>8, <1>9 DEF Next, Application

(* What is announced and what is in the memory differ only between the two *)
(* stores of a call.                                                       *)
LEMMA StreamStep == CheckerInv /\ TypeOK' /\ LocalsOK' /\ [Next]_vars => StreamInv'
<1> SUFFICES ASSUME CheckerInv, TypeOK', LocalsOK', [Next]_vars PROVE StreamInv'
  OBVIOUS
<1>0. TypeOK /\ LocalsOK /\ OwnersInv /\ PidsInv /\ StreamInv
  BY DEF CheckerInv
<1> USE DEF clock, memory, process, threads, delayer, locals, watchdog, application
<1>a. ASSUME UNCHANGED <<opc, delayer, s_delay_tester>> PROVE StreamInv'
  BY <1>0, <1>a DEF StreamInv
<1>c. ASSUME ProcessMemoryGone, opc' = "none" PROVE StreamInv'
  BY <1>c DEF StreamInv, ProcessMemoryGone, NoDelay
<1>1. CASE Tick \/ OpenMark \/ OpenCount
  BY <1>0, <1>1 DEF Tick, OpenMark, OpenCount, StreamInv
<1>2. CASE OpenBegin \/ OpenClear
  BY <1>0, <1>2 DEF OpenBegin, OpenClear, StreamInv
<1>3. CASE OpenDelayMax \/ OpenDelayTime
  BY <1>0, <1>3 DEF OpenDelayMax, OpenDelayTime, StreamInv, TypeOK, NoDelay
<1>4. CASE OpenPid BY <1>0, <1>4 DEF OpenPid, StreamInv, OwnersInv
<1>5. CASE ProcessExit BY <1>5, <1>c DEF ProcessExit
<1>6. ASSUME NEW t \in Threads, NEW timeout \in Timeouts, InFirst(t, timeout) \/ InAgain(t, timeout)
      PROVE  StreamInv'
  BY <1>6, <1>a DEF InFirst, InAgain
<1>7. ASSUME NEW t \in Threads,
             \/ InRefused(t) \/ InMaxTime(t) \/ InCheckIn(t) \/ InCheckOut(t)
             \/ OutCheckOut(t) \/ OutMaxTime(t)
      PROVE  StreamInv'
  BY <1>7, <1>a DEF InRefused, InMaxTime, InCheckIn, InCheckOut, OutCheckOut, OutMaxTime
<1>8. ASSUME \/ ResetTestTime \/ ClearMaxTime \/ ClearTestTime
             \/ \E timeout \in DelayTimeouts : ResetMaxTime(timeout)
      PROVE  StreamInv'
  <2>0. opc = "open" /\ opc' = "open" /\ now # 0
    <3>1. opc = "open" /\ opc' = opc
      BY <1>0, <1>8 DEF ResetTestTime, ClearMaxTime, ClearTestTime, ResetMaxTime, OwnersInv
    <3>2. now # 0 BY <1>0 DEF TypeOK
    <3> QED BY <3>1, <3>2
  <2>1. ASSUME NEW timeout \in DelayTimeouts, ResetMaxTime(timeout) PROVE StreamInv'
    <3>1. s_delay_tester = stream BY <1>0, <2>0, <2>1 DEF ResetMaxTime, StreamInv
    <3>2. timeout # 0 BY ConstantFacts
    <3> QED BY <1>0, <2>0, <2>1, <3>1, <3>2 DEF ResetMaxTime, StoreDelay, StreamInv, TypeOK
  <2>2. CASE ResetTestTime
    <3>1. s_delay_tester.max_time = darg BY <1>0, <2>0, <2>2 DEF ResetTestTime, StreamInv
    <3>2. s_delay_tester' = [max_time |-> darg, test_time |-> now]
      BY <1>0, <2>2, <3>1 DEF ResetTestTime, StoreDelay, TypeOK
    <3>3. darg # 0
      BY <1>0, <2>2 DEF ResetTestTime, StreamInv
    <3> QED BY <2>0, <2>2, <3>2, <3>3 DEF ResetTestTime, StreamInv
  <2>3. CASE ClearMaxTime
    BY <1>0, <2>0, <2>3 DEF ClearMaxTime, StoreDelay, StreamInv, TypeOK, NoDelay
  <2>4. CASE ClearTestTime
    <3>1. s_delay_tester.max_time = 0 /\ stream = NoDelay
      BY <1>0, <2>0, <2>4 DEF ClearTestTime, StreamInv
    <3>2. s_delay_tester' = NoDelay
      BY <1>0, <2>4, <3>1 DEF ClearTestTime, StoreDelay, TypeOK, NoDelay
    <3> QED BY <2>0, <2>4, <3>1, <3>2 DEF ClearTestTime, StreamInv, NoDelay
  <2> QED BY <1>8, <2>1, <2>2, <2>3, <2>4
<1>9. CASE Watchdog BY <1>0, <1>9, <1>a, <1>c, WatchdogLeaves
<1>10. CASE WatchdogRestart BY <1>10, <1>a DEF WatchdogRestart
<1>11. CASE UNCHANGED vars BY <1>11, <1>a DEF vars
<1> QED BY <1>1, <1>2, <1>3, <1>4, <1>5, <1>6, <1>7, <1>8, <1>9, <1>10, <1>11 DEF Next, Application

(* What the watchdog has read of the deadline is what is there, unless it  *)
(* was written meanwhile.                                                  *)
LEMMA DelayStep == CheckerInv /\ TypeOK' /\ PidsInv' /\ [Next]_vars => DelayInv'
<1> SUFFICES ASSUME CheckerInv, TypeOK', PidsInv', [Next]_vars, alive' = checker_pid', ~ moved',
                    wpc' \in {"delay_time", "delay_again", "delay_judge", "delay_kill"}
             PROVE  DelayInv'
  BY DEF DelayInv, JudgingDelay
<1>0. TypeOK /\ LocalsOK /\ OwnersInv /\ PidsInv /\ StreamInv /\ DelayInv
  BY DEF CheckerInv
<1> USE DEF clock, memory, process, threads, delayer, locals, watchdog, application
<1>a. ASSUME UNCHANGED <<alive, watchdog, s_delay_tester, dpc, darg, stream, moved>>,
             now' \in {now, now + 1}
      PROVE  DelayInv'
  <2>1. delay_test_time + delay_max_time_1 \in Int /\ now \in Int
    <3>1. \A x \in DelayTimeouts \cup {0} : x \in Int BY ConstantFacts
    <3>2. delay_test_time \in Int /\ now \in Int
      BY <1>0, ConstantFacts DEF TypeOK, LocalsOK
    <3>3. delay_max_time_1 \in Int BY <1>0, <3>1 DEF LocalsOK
    <3> QED BY ONLY <3>2, <3>3
  <2>2. now > delay_test_time + delay_max_time_1 => now' > delay_test_time + delay_max_time_1
    BY ONLY <1>a, <2>1
  <2> QED BY <1>0, <1>a, <2>2 DEF DelayInv, JudgingDelay, DelayIsSet
<1>1. CASE Tick BY <1>1, <1>a DEF Tick
<1>2. CASE OpenBegin \/ OpenDelayMax \/ OpenDelayTime
  BY <1>0, <1>2, ConstantFacts DEF OpenBegin, OpenDelayMax, OpenDelayTime, PidsInv, Wiping, TypeOK
<1>3. CASE OpenClear \/ OpenMark \/ OpenCount \/ OpenPid
  BY <1>a, <1>3 DEF OpenClear, OpenMark, OpenCount, OpenPid
<1>4. CASE ProcessExit BY <1>4 DEF ProcessExit, PidsInv, Wiping
<1>5. ASSUME NEW t \in Threads, NEW timeout \in Timeouts, InFirst(t, timeout) \/ InAgain(t, timeout)
      PROVE  DelayInv'
  BY <1>5, <1>a DEF InFirst, InAgain
<1>6. ASSUME NEW t \in Threads,
             \/ InRefused(t) \/ InMaxTime(t) \/ InCheckIn(t) \/ InCheckOut(t)
             \/ OutCheckOut(t) \/ OutMaxTime(t)
      PROVE  DelayInv'
  <2>1. ~ Copying BY <1>6 DEF Copying, InRefused, InMaxTime, InCheckIn, InCheckOut, OutCheckOut, OutMaxTime
  <2>2. /\ UNCHANGED <<now, alive, watchdog, s_delay_tester, dpc, darg, stream>> /\ ~ moved
    <3>1. CASE InRefused(t) BY <3>1 DEF InRefused
    <3>2. ASSUME NEW r, Store(t, r) PROVE ~ moved BY <3>2 DEF Store
    <3> QED BY <1>6, <3>1, <3>2 DEF InMaxTime, InCheckIn, InCheckOut, OutCheckOut, OutMaxTime
  <2> QED BY <1>0, <2>2 DEF DelayInv, JudgingDelay, DelayIsSet
<1>7. ASSUME \/ ResetTestTime \/ ClearMaxTime \/ ClearTestTime
             \/ \E timeout \in DelayTimeouts : ResetMaxTime(timeout)
      PROVE  DelayInv'
  BY <1>7 DEF ResetTestTime, ClearMaxTime, ClearTestTime, ResetMaxTime, StoreDelay, JudgingDelay
<1>8. CASE Watchdog
  <2>0. UNCHANGED <<now, s_delay_tester>> /\ (Kill \/ UNCHANGED <<alive, dpc, darg, stream>>)
    BY <1>0, <1>8, WatchdogLeaves
  <2>1. CASE ReadDelayMax
    BY <2>0, <2>1 DEF ReadDelayMax, DelayInv, JudgingDelay
  <2>2. CASE ReadDelayTime
    BY <1>0, <2>0, <2>2 DEF ReadDelayTime, DelayInv, JudgingDelay
  <2>3. CASE ReadDelayAgain
    BY <1>0, <2>0, <2>3 DEF ReadDelayAgain, DelayInv, JudgingDelay, DelayIsSet
  <2>4. CASE JudgeDelay
    BY <1>0, <2>0, <2>4 DEF JudgeDelay, DelayInv, JudgingDelay, DelayIsSet
  <2>5. CASE ~ (ReadDelayMax \/ ReadDelayTime \/ ReadDelayAgain \/ JudgeDelay)
    BY <1>8, <2>5, <1>0, WipeLeaves DEF Watchdog, ReadPid, ReadMark, ReadCount, CopyMaxTime, CopyCheckIn, CopyCheckOut, Judge,
       NextRecord, Kill, Top, Forget
  <2> QED BY <2>1, <2>2, <2>3, <2>4, <2>5
<1>9. CASE WatchdogRestart BY <1>9 DEF WatchdogRestart, Top, Forget
<1>10. CASE UNCHANGED vars BY <1>10, <1>a DEF vars
<1> QED BY <1>1, <1>2, <1>3, <1>4, <1>5, <1>6, <1>7, <1>8, <1>9, <1>10 DEF Next, Application

(* The inductive invariant of the stuck checker.                           *)
LEMMA CheckerInvariant == Spec => []CheckerInv
<1>1. Init => CheckerInv
  <2> SUFFICES ASSUME Init PROVE CheckerInv
    OBVIOUS
  <2>1. TypeOK
    <3>1. /\ 1 \in 1 .. MaxTime /\ 0 \in 0 .. MaxProcesses /\ 0 \in 0 .. MaxIndex
      BY ConstantFacts
    <3> QED BY <3>1, ConstantFacts DEF Init, TypeOK, Records, Delays
  <2>2. LocalsOK /\ PidsInv
    BY ConstantFacts DEF Init, LocalsOK, PidsInv, Delays
  <2>3. Owners = {} BY DEF Init, Owners
  <2>4. \A s \in Slots : ~ (s < 0) BY ConstantFacts DEF Slots
  <2>5. OwnersInv BY <2>3, <2>4, FS_EmptySet DEF Init, OwnersInv, None, NoDelay
  <2>6. RecordsAreOwned BY <2>1 DEF Init, RecordsAreOwned
  <2>7. RecordsInv /\ CopyInv /\ StreamInv /\ DelayInv
    BY DEF Init, RecordsInv, CopyInv, Copying, StreamInv, DelayInv, JudgingDelay, NoDelay
  <2> QED BY <2>1, <2>2, <2>5, <2>6, <2>7 DEF CheckerInv
<1>2. CheckerInv /\ [Next]_vars => CheckerInv'
  <2> SUFFICES ASSUME CheckerInv, [Next]_vars PROVE CheckerInv'
    OBVIOUS
  <2>1. TypeOK' /\ LocalsOK' BY CheckerTypeStep
  <2>2. PidsInv' BY PidsStep
  <2>3. OwnersInv' BY <2>1, OwnersStep
  <2>4. RecordsAreOwned' BY <2>1, <2>2, <2>3, OwnedStep
  <2>5. RecordsInv' /\ StreamInv' BY <2>1, RecordsStep, StreamStep
  <2>6. CopyInv' /\ DelayInv' BY <2>1, <2>2, CopyStep, DelayStep
  <2> QED BY <2>1, <2>2, <2>3, <2>4, <2>5, <2>6 DEF CheckerInv
<1> QED BY <1>1, <1>2, PTL DEF Spec

(* The watchdog looks only at records that a thread of the process owns.   *)
THEOREM RecordsAreOwnedHolds == Spec => []RecordsAreOwned
<1>1. CheckerInv => RecordsAreOwned
  BY DEF CheckerInv
<1> QED BY <1>1, CheckerInvariant, PTL

(* The process that the watchdog is about to kill is one that has opened   *)
(* the checker, not one that is still on its way.                          *)
LEMMA KilledIsOpen ==
    ASSUME CheckerInv, ~ Wiping, wpc # "pid", alive = checker_pid
    PROVE  opc = "open"
BY ConstantFacts DEF CheckerInv, PidsInv, TypeOK

(* The watchdog kills for an action only if that action is late, whatever  *)
(* it read while the records were being written; the two races that the    *)
(* property excepts are the code's.                                        *)
THEOREM KilledForLateActionHolds == Spec => KilledForLateAction
<1>1. CheckerInv =>
        (wpc = "kill" /\ alive = checker_pid /\ ~ moved /\ checker_index \notin torn
            => \E t \in Threads : slot[t] = checker_index /\ ActionLate(t))
  <2> SUFFICES ASSUME CheckerInv, wpc = "kill", alive = checker_pid, ~ moved, checker_index \notin torn
               PROVE  \E t \in Threads : slot[t] = checker_index /\ ActionLate(t)
    OBVIOUS
  <2> DEFINE r == s_checker_array[checker_index]
  <2>1. opc = "open" BY KilledIsOpen DEF Wiping
  <2>2. /\ ActionIsOpen(r) /\ now > r.check_in + r.max_time
    BY DEF CheckerInv, CopyInv, Copying, ActionIsOpen
  <2>3. r # Blank BY <2>2 DEF ActionIsOpen, Blank
  <2>4. checker_index \in Slots /\ checker_index < s_checker_index
    BY <2>1, <2>3, ConstantFacts DEF CheckerInv, OwnersInv, TypeOK, Slots
  <2>5. PICK t \in Threads : slot[t] = checker_index
    BY <2>4 DEF CheckerInv, OwnersInv
  <2>6. RecordOf(t, r)
    BY <2>4, <2>5, ConstantFacts DEF CheckerInv, RecordsInv, Record, Slots, None
  <2>7. tpc[t] \in {"in_out", "work"} /\ r.max_time = targ[t] /\ r.check_in = since[t]
    BY <2>2, <2>5, <2>6 DEF RecordOf, ActionIsOpen
  <2> QED BY <2>2, <2>5, <2>7 DEF ActionLate
<1> QED BY <1>1, CheckerInvariant, PTL DEF Spec, KilledForLateAction

(* The watchdog kills for the stream's deadline only if that deadline is   *)
(* over, even if it reads in the middle of a reset or of a clear.          *)
THEOREM KilledForLateStreamHolds == Spec => KilledForLateStream
<1>1. CheckerInv => (wpc = "delay_kill" /\ alive = checker_pid /\ ~ moved => StreamLate)
  <2> SUFFICES ASSUME CheckerInv, wpc = "delay_kill", alive = checker_pid, ~ moved
               PROVE  StreamLate
    OBVIOUS
  <2>1. opc = "open" BY KilledIsOpen DEF Wiping
  <2>2. /\ s_delay_tester.max_time # 0 /\ s_delay_tester.test_time # 0
        /\ now > s_delay_tester.test_time + s_delay_tester.max_time
        /\ dpc = "reset_time" => stream.max_time \in {0, darg}
    BY DEF CheckerInv, DelayInv, JudgingDelay, DelayIsSet
  <2>3. s_delay_tester.max_time = stream.max_time /\ s_delay_tester.test_time = stream.test_time
    BY <2>1, <2>2 DEF CheckerInv, StreamInv, TypeOK
  <2> QED BY <2>2, <2>3 DEF StreamLate
<1> QED BY <1>1, CheckerInvariant, PTL DEF Spec, KilledForLateStream
=============================================================================
