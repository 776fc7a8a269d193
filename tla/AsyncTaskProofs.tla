--------------------------- MODULE AsyncTaskProofs ---------------------------
(***************************************************************************)
(* Safety of the task queue for any number of clients, workers, tasks and  *)
(* calls of async_task_init().  What the mutex protects holds as long as   *)
(* no async_task_init() has initialised it, or the condition, while it was *)
(* in use; the types, the chains and who has which task need no mutex.     *)
(***************************************************************************)
EXTENDS AsyncTask, SequenceTheorems, TLAPS

Callbacks == {"work", "callback", "err_callback", "clean"}

(* The types that TypeOK does not give, and what each thread knows of its  *)
(* own locals whatever the others do.                                      *)
ThreadInv ==
    /\ TypeOK
    /\ ipc \in {"idle", "create", "mutex", "cond", "count"}
    /\ ipc \in {"mutex", "cond", "count"} => s_task_threads < TASK_THREAD_COUNT
    /\ created \in 0 .. MaxThreads
    /\ \A w \in Workers : w > created => wpc[w] = "none"
    /\ \A w \in waiters : wpc[w] = "wait"
    /\ \A w \in Workers :
          /\ wpc[w] \in {"lock", "relock", "wait", "test", "pop"} => task[w] = NULL
          /\ wpc[w] \in {"work", "callback", "err_callback", "clean"} => task[w] # NULL
    /\ clean \in BOOLEAN /\ corrupted \in BOOLEAN
    /\ calls \in [Tasks -> Seq(Callbacks)] /\ added \in Seq(Tasks) /\ popped \in Seq(Tasks)
    /\ arg \in [Clients -> Seq(Tasks)]
    /\ \A c \in Clients : apc[c] = "idle" <=> arg[c] = <<>>

Distinct(s) == \A i, j \in 1 .. Len(s) : s[i] = s[j] => i = j
Apart(s, t) == \A i \in 1 .. Len(s), j \in 1 .. Len(t) : s[i] # t[j]
Within(s, t) == \A i \in 1 .. Len(s) : \E j \in 1 .. Len(t) : s[i] = t[j]

(* A task is passed once: a chain has nothing in common with the chains of *)
(* other calls and, until it is linked, with what was linked before.       *)
ChainInv ==
    /\ Distinct(added)
    /\ \A c \in Clients : Distinct(arg[c])
    /\ \A c, d \in Clients : c # d => Apart(arg[c], arg[d])
    /\ \A c \in Clients : apc[c] \in {"lock", "link"} => Apart(arg[c], added)
    /\ \A c \in Clients : apc[c] \in {"tail", "unlock"} => Within(arg[c], added)

(* Whoever is in the critical section holds the mutex.                     *)
LockInv == \A x \in InSection : owner = x

NthAdded(i) == IF i \in 1 .. Len(added) THEN added[i] ELSE NULL

(* The list is what was added and not popped, at every step inside the     *)
(* section too, but for the tail while a client looks for it.              *)
ListInv ==
    /\ ~ corrupted
    /\ Len(popped) <= Len(added)
    /\ \A i \in 1 .. Len(popped) : popped[i] = added[i]
    /\ head = NthAdded(Len(popped) + 1)
    /\ \A i \in Len(popped) + 1 .. Len(added) : next[added[i]] = NthAdded(i + 1)
    /\ (\A c \in Clients : apc[c] # "tail") =>
          tail = IF Len(popped) < Len(added) THEN added[Len(added)] ELSE NULL
    /\ \A c \in Clients : apc[c] = "tail" =>
          /\ Len(popped) < Len(added) /\ arg[c][Len(arg[c])] = added[Len(added)]

(* The ->next pointers of tasks that are not linked yet.                   *)
OutsideInv ==
    /\ \A c \in Clients : apc[c] \in {"lock", "link"} =>
          \A i \in 1 .. Len(arg[c]) :
              next[arg[c][i]] = IF i < Len(arg[c]) THEN arg[c][i + 1] ELSE NULL
    /\ \A t \in Fresh : next[t] = NULL

Holds(w, t) ==
    task[w] = t /\ wpc[w] \in {"unlock", "work", "callback", "err_callback", "clean"}

(* A task that was taken is in the hands of one worker, which has run as   *)
(* many callbacks as it has come steps, or was freed after all three.      *)
TakenInv ==
    /\ \A t \in Tasks, v, w \in Workers : Holds(v, t) /\ Holds(w, t) => v = w
    /\ \A t \in Tasks, w \in Workers : Holds(w, t) =>
          /\ t \notin freed /\ \E i \in 1 .. Len(popped) : popped[i] = t
          /\ wpc[w] \in {"unlock", "work"} => calls[t] = <<>>
          /\ wpc[w] \in {"callback", "err_callback"} => calls[t] = <<"work">>
          /\ wpc[w] = "clean" => \E r \in {"callback", "err_callback"} : calls[t] = <<"work", r>>
    /\ \A t \in freed :
          /\ \E i \in 1 .. Len(popped) : popped[i] = t
          /\ \E r \in {"callback", "err_callback"} : calls[t] = <<"work", r, "clean">>
    /\ \A t \in Tasks \ freed : (\A w \in Workers : ~ Holds(w, t)) => calls[t] = <<>>

QueueInv ==
    /\ ThreadInv /\ ChainInv
    /\ clean => LockInv /\ ListInv /\ OutsideInv /\ TakenInv

-----------------------------------------------------------------------------
(* A chain and the pointers the caller links it with.                      *)
LEMMA LinkedIs ==
    ASSUME NEW chain \in Chains, next \in [Tasks -> Tasks \cup {NULL}]
    PROVE  /\ chain \in Seq(Tasks) /\ Len(chain) \in Nat \ {0}
           /\ \A i, j \in 1 .. Len(chain) : chain[i] = chain[j] => i = j
           /\ Linked(chain) \in [Tasks -> Tasks \cup {NULL}]
           /\ \A i \in 1 .. Len(chain) - 1 : Linked(chain)[chain[i]] = chain[i + 1]
           /\ \A t \in Tasks : (\A i \in 1 .. Len(chain) - 1 : t # chain[i])
                  => Linked(chain)[t] = next[t]
<1>1. PICK n \in 1 .. MaxChain : chain \in [1 .. n -> Tasks] BY DEF Chains
<1>2. chain \in Seq(Tasks) /\ Len(chain) = n /\ n \in Nat \ {0} /\ DOMAIN chain = 1 .. n
  BY <1>1, ThreadsAssumption
<1>3. \A i, j \in 1 .. n : i # j => chain[i] # chain[j] BY <1>2 DEF Chains
<1>4. \A i \in 1 .. n - 1 : Linked(chain)[chain[i]] = chain[i + 1]
  <2> TAKE i \in 1 .. n - 1
  <2>1. (CHOOSE j \in 1 .. n - 1 : chain[j] = chain[i]) = i BY <1>2, <1>3
  <2>2. chain[i] \in Tasks BY <1>1, <1>2
  <2> QED BY <1>2, <2>1, <2>2 DEF Linked
<1>5. Linked(chain) \in [Tasks -> Tasks \cup {NULL}]
  <2> SUFFICES ASSUME NEW t \in Tasks, NEW i \in 1 .. n - 1, chain[i] = t
               PROVE  chain[(CHOOSE j \in 1 .. n - 1 : chain[j] = t) + 1] \in Tasks
    BY <1>2 DEF Linked
  <2>1. (CHOOSE j \in 1 .. n - 1 : chain[j] = t) \in 1 .. n - 1 BY <1>2
  <2> QED BY <1>1, <2>1
<1> QED BY <1>2, <1>3, <1>4, <1>5 DEF Linked

(* Each thread alone.                                                      *)
LEMMA ThreadStart == Init => ThreadInv
<1> SUFFICES ASSUME Init PROVE ThreadInv
  OBVIOUS
<1> USE ThreadsAssumption, NullAssumption DEF Init, Workers
<1>1. TypeOK
  <2>1. s_task_threads \in 0 .. TASK_THREAD_COUNT OBVIOUS
  <2>2. next \in [Tasks -> Tasks \cup {NULL}] /\ task \in [Workers -> Tasks \cup {NULL}]
    OBVIOUS
  <2>3. apc \in [Clients -> {"idle", "lock", "link", "tail", "unlock"}] OBVIOUS
  <2>4. wpc \in [Workers -> {"none", "loop", "lock", "test", "wait", "relock", "pop",
                            "unlock", "work", "callback", "err_callback", "clean", "exit"}]
    OBVIOUS
  <2> QED BY <2>1, <2>2, <2>3, <2>4 DEF TypeOK
<1>2. arg = [c \in Clients |-> <<>>] /\ <<>> \in Seq(Tasks) /\ <<>> \in Seq(Callbacks)
  OBVIOUS
<1>3. /\ calls \in [Tasks -> Seq(Callbacks)] /\ arg \in [Clients -> Seq(Tasks)]
      /\ added \in Seq(Tasks) /\ popped \in Seq(Tasks)
  BY <1>2
<1>4. \A c \in Clients : apc[c] = "idle" <=> arg[c] = <<>> OBVIOUS
<1>5. created \in 0 .. MaxThreads /\ \A w \in Workers : wpc[w] = "none" OBVIOUS
<1> QED BY <1>1, <1>3, <1>4, <1>5 DEF ThreadInv

(* A step of one thread leaves the others what they know of themselves.    *)
LEMMA ThreadStep == ThreadInv /\ [Next]_vars => ThreadInv'
<1> SUFFICES ASSUME ThreadInv, [Next]_vars PROVE ThreadInv'
  OBVIOUS
<1> USE ThreadsAssumption, NullAssumption
<1> USE DEF ThreadInv, TypeOK, queue, sync, status, initVars, clientVars, workerVars, history,
            flags, Workers
<1>1. CASE InitBegin BY <1>1 DEF InitBegin
<1>2. CASE InitDone BY <1>2 DEF InitDone
<1>3. CASE InitCreate BY <1>3 DEF InitCreate
<1>4. CASE InitFail
  <2>1. s_task_threads' \in 0 .. TASK_THREAD_COUNT BY <1>4 DEF InitFail
  <2> QED BY <1>4, <2>1 DEF InitFail
<1>5. CASE InitMutex \/ InitCond
  <2>1. CASE InitMutex
    <3>1. owner' \in Clients \cup Workers \cup {NULL} /\ clean' \in BOOLEAN
      BY <2>1 DEF InitMutex
    <3> QED BY <2>1, <3>1 DEF InitMutex
  <2>2. CASE InitCond
    <3>1. waiters' = {} /\ clean' \in BOOLEAN BY <2>2 DEF InitCond
    <3> QED BY <2>2, <3>1 DEF InitCond
  <2> QED BY <1>5, <2>1, <2>2
<1>6. CASE InitCount BY <1>6 DEF InitCount
<1>7. ASSUME NEW c \in Clients, AddBegin(c) PROVE ThreadInv'
  <2>1. PICK chain \in Chains : arg' = [arg EXCEPT ![c] = chain] /\ next' = Linked(chain)
    BY <1>7 DEF AddBegin
  <2>2. /\ chain \in Seq(Tasks) /\ Len(chain) \in Nat \ {0}
        /\ Linked(chain) \in [Tasks -> Tasks \cup {NULL}]
    BY LinkedIs
  <2>3. chain # <<>> BY <2>2
  <2> QED BY <1>7, <2>1, <2>2, <2>3 DEF AddBegin
<1>8. ASSUME NEW c \in Clients, AddLock(c) PROVE ThreadInv' BY <1>8 DEF AddLock
<1>9. ASSUME NEW c \in Clients, AddLink(c) PROVE ThreadInv'
  <2>1. arg[c] \in Seq(Tasks) /\ Len(arg[c]) \in Nat \ {0} /\ arg[c][1] \in Tasks
    BY <1>9, EmptySeq, ElementOfSeq DEF AddLink
  <2>2. added \o arg[c] \in Seq(Tasks) BY <2>1, ConcatProperties
  <2>3. CASE tail # NULL
    BY <1>9, <2>1, <2>2, <2>3 DEF AddLink
  <2>4. CASE tail = NULL BY <1>9, <2>1, <2>2, <2>4 DEF AddLink
  <2> QED BY <2>3, <2>4
<1>10. ASSUME NEW c \in Clients, AddTail(c) PROVE ThreadInv'
  <2>1. arg[c] \in Seq(Tasks) /\ Len(arg[c]) \in Nat \ {0} /\ arg[c][Len(arg[c])] \in Tasks
    BY <1>10, EmptySeq, ElementOfSeq DEF AddTail
  <2>2. CASE waiters = {} /\ UNCHANGED <<waiters, wpc>>
    BY <1>10, <2>1, <2>2 DEF AddTail
  <2>3. ASSUME NEW w \in waiters, waiters' = waiters \ {w}, wpc' = [wpc EXCEPT ![w] = "relock"]
        PROVE  ThreadInv'
    BY <1>10, <2>1, <2>3 DEF AddTail
  <2> QED BY <1>10, <2>2, <2>3 DEF AddTail
<1>11. ASSUME NEW c \in Clients, AddUnlock(c) PROVE ThreadInv' BY <1>11 DEF AddUnlock
<1>12. ASSUME NEW w \in Workers, WorkLoop(w) \/ WorkLock(w) PROVE ThreadInv'
  <2>1. CASE WorkLoop(w) /\ s_task_running BY <2>1 DEF WorkLoop
  <2>2. CASE WorkLoop(w) /\ ~ s_task_running BY <2>2 DEF WorkLoop
  <2>3. CASE WorkLock(w) BY <2>3 DEF WorkLock
  <2> QED BY <1>12, <2>1, <2>2, <2>3
<1>13. ASSUME NEW w \in Workers, WorkWait(w) \/ WorkLeaveWait(w) \/ SpuriousWake(w)
       PROVE  ThreadInv'
  <2>1. CASE WorkWait(w) BY <2>1 DEF WorkWait
  <2>2. CASE WorkLeaveWait(w) /\ head = NULL BY <2>2 DEF WorkLeaveWait
  <2>3. CASE WorkLeaveWait(w) /\ head # NULL BY <2>3 DEF WorkLeaveWait
  <2>4. CASE SpuriousWake(w) BY <2>4 DEF SpuriousWake
  <2> QED BY <1>13, <2>1, <2>2, <2>3, <2>4
<1>14. ASSUME NEW w \in Workers, WorkPop(w) PROVE ThreadInv'
  <2>1. head \in Tasks /\ next[head] \in Tasks \cup {NULL} BY <1>14 DEF WorkPop
  <2>2. Append(popped, head) \in Seq(Tasks) BY <2>1, AppendProperties
  <2> QED BY <1>14, <2>1, <2>2 DEF WorkPop
<1>15. ASSUME NEW w \in Workers, WorkUnlock(w) PROVE ThreadInv' BY <1>15 DEF WorkUnlock
<1>16. ASSUME NEW w \in Workers, NEW t \in Tasks, NEW x \in Callbacks,
              calls' = [calls EXCEPT ![t] = Append(@, x)]
       PROVE  calls' \in [Tasks -> Seq(Callbacks)]
  <2>1. Append(calls[t], x) \in Seq(Callbacks) BY AppendProperties
  <2> QED BY <1>16, <2>1
<1>17. ASSUME NEW w \in Workers, WorkWork(w) \/ WorkCallback(w) \/ WorkFree(w)
       PROVE  ThreadInv'
  <2>1. task[w] \in Tasks BY <1>17 DEF WorkWork, WorkCallback, WorkFree
  <2>2. calls' \in [Tasks -> Seq(Callbacks)]
    <3>1. PICK x \in Callbacks :
            calls' = [calls EXCEPT ![task[w]] = Append(@, x)]
      BY <1>17 DEF WorkWork, WorkCallback, WorkFree, Called, Callbacks
    <3> QED BY <1>16, <2>1, <3>1
  <2>3. CASE WorkWork(w) BY <2>2, <2>3 DEF WorkWork
  <2>4. CASE WorkCallback(w) BY <2>2, <2>4 DEF WorkCallback
  <2>5. CASE WorkFree(w) BY <2>1, <2>2, <2>5 DEF WorkFree
  <2> QED BY <1>17, <2>3, <2>4, <2>5
<1>18. CASE UNCHANGED vars BY <1>18 DEF vars
<1> QED BY <1>1, <1>2, <1>3, <1>4, <1>5, <1>6, <1>7, <1>8, <1>9, <1>10, <1>11, <1>12, <1>13,
           <1>14, <1>15, <1>17, <1>18 DEF Next, InitStep, AddStep, WorkStep

-----------------------------------------------------------------------------
(* Only calls of async_task_add() change a chain or what was added.        *)
LEMMA ChainStep == ThreadInv /\ ChainInv /\ [Next]_vars => ChainInv'
<1> SUFFICES ASSUME ThreadInv, ChainInv, [Next]_vars PROVE ChainInv'
  OBVIOUS
<1>0. /\ apc \in [Clients -> {"idle", "lock", "link", "tail", "unlock"}]
      /\ added \in Seq(Tasks) /\ arg \in [Clients -> Seq(Tasks)]
  BY DEF ThreadInv, TypeOK
<1>1. CASE UNCHANGED <<added, arg, apc>> BY <1>1 DEF ChainInv, Distinct, Apart, Within
<1>2. ASSUME NEW c \in Clients, AddBegin(c) PROVE ChainInv'
  <2>1. PICK chain \in Chains :
          ToSet(chain) \subseteq Fresh /\ arg' = [arg EXCEPT ![c] = chain]
    BY <1>2 DEF AddBegin
  <2>2. chain \in Seq(Tasks) /\ Distinct(chain) BY LinkedIs DEF ThreadInv, TypeOK, Distinct
  <2>3. \A i \in 1 .. Len(chain) : chain[i] \in Fresh BY <2>1, <2>2 DEF ToSet
  <2>4. Apart(chain, added) BY <1>0, <2>2, <2>3 DEF Fresh, ToSet, Apart
  <2>5. \A d \in Clients : Apart(chain, arg[d]) /\ Apart(arg[d], chain)
    BY <1>0, <2>2, <2>3 DEF Fresh, ToSet, Apart
  <2>6. \A d \in Clients : arg'[d] = IF d = c THEN chain ELSE arg[d] BY <1>0, <2>1
  <2>7. added' = added BY <1>2 DEF AddBegin, history
  <2>8. \A d \in Clients : d # c => apc'[d] = apc[d] BY <1>0, <1>2 DEF AddBegin
  <2>9. \A d \in Clients : Distinct(arg'[d]) BY <2>2, <2>6 DEF ChainInv
  <2>10. \A d, e \in Clients : d # e => Apart(arg'[d], arg'[e]) BY <2>5, <2>6 DEF ChainInv
  <2>11. \A d \in Clients : apc'[d] \in {"lock", "link"} => Apart(arg'[d], added)
    BY <2>4, <2>6, <2>8 DEF ChainInv
  <2>12. \A d \in Clients : apc'[d] \in {"tail", "unlock"} => Within(arg'[d], added)
    <3>1. apc'[c] = "lock" BY <1>0, <1>2 DEF AddBegin
    <3> QED BY <2>6, <2>8, <3>1 DEF ChainInv
  <2> QED BY <2>7, <2>9, <2>10, <2>11, <2>12 DEF ChainInv, Distinct, Apart, Within
<1>3. ASSUME NEW c \in Clients, AddLink(c) PROVE ChainInv'
  <2>1. added' = added \o arg[c] /\ arg' = arg /\ apc' = [apc EXCEPT ![c] = "tail"]
        /\ apc[c] = "link"
    BY <1>3 DEF AddLink
  <2>2. /\ Len(added') = Len(added) + Len(arg[c])
        /\ \A i \in 1 .. Len(added) : added'[i] = added[i]
        /\ \A i \in Len(added) + 1 .. Len(added') : added'[i] = arg[c][i - Len(added)]
        /\ Len(added) \in Nat /\ Len(arg[c]) \in Nat
    BY <1>0, <2>1, ConcatProperties
  <2>3. Apart(arg[c], added) /\ Distinct(added) /\ Distinct(arg[c]) BY <2>1 DEF ChainInv
  <2>4. Distinct(added')
    <3> SUFFICES ASSUME NEW i \in 1 .. Len(added'), NEW j \in 1 .. Len(added'),
                        added'[i] = added'[j]
                 PROVE  i = j
      BY DEF Distinct
    <3>1. CASE i <= Len(added) /\ j <= Len(added) BY <2>2, <2>3, <3>1 DEF Distinct
    <3>2. CASE i > Len(added) /\ j > Len(added)
      <4>1. /\ i - Len(added) \in 1 .. Len(arg[c]) /\ j - Len(added) \in 1 .. Len(arg[c])
            /\ arg[c][i - Len(added)] = arg[c][j - Len(added)]
        BY <2>2, <3>2
      <4>2. i - Len(added) = j - Len(added) BY <2>3, <4>1 DEF Distinct
      <4> QED BY <2>2, <4>2
    <3>3. CASE i > Len(added) /\ j <= Len(added)
      <4>1. /\ i - Len(added) \in 1 .. Len(arg[c]) /\ j \in 1 .. Len(added)
            /\ arg[c][i - Len(added)] = added[j]
        BY <2>2, <3>3
      <4> QED BY <2>3, <4>1 DEF Apart
    <3>4. CASE i <= Len(added) /\ j > Len(added)
      <4>1. j - Len(added) \in 1 .. Len(arg[c]) /\ arg[c][j - Len(added)] = added[i]
        BY <2>2, <3>4
      <4> QED BY <2>2, <2>3, <3>4, <4>1 DEF Apart
    <3> QED BY <2>2, <3>1, <3>2, <3>3, <3>4
  <2>5. ASSUME NEW d \in Clients, apc'[d] \in {"lock", "link"} PROVE Apart(arg[d], added')
    <3>1. d # c /\ apc[d] = apc'[d] BY <1>0, <2>1, <2>5
    <3>2. Apart(arg[d], added) /\ Apart(arg[d], arg[c]) BY <2>5, <3>1 DEF ChainInv
    <3> SUFFICES ASSUME NEW i \in 1 .. Len(arg[d]), NEW j \in 1 .. Len(added')
                 PROVE  arg[d][i] # added'[j]
      BY DEF Apart
    <3>3. CASE j <= Len(added) BY <2>2, <3>2, <3>3 DEF Apart
    <3>4. CASE j > Len(added)
      <4>1. j - Len(added) \in 1 .. Len(arg[c]) /\ added'[j] = arg[c][j - Len(added)]
        BY <2>2, <3>4
      <4> QED BY <3>2, <4>1 DEF Apart
    <3> QED BY <2>2, <3>3, <3>4
  <2>6. ASSUME NEW d \in Clients, apc'[d] \in {"tail", "unlock"} PROVE Within(arg[d], added')
    <3>1. CASE d = c
      <4>1. \A i \in 1 .. Len(arg[c]) :
              /\ Len(added) + i \in 1 .. Len(added') /\ added'[Len(added) + i] = arg[c][i]
        BY <2>2
      <4> QED BY <3>1, <4>1 DEF Within
    <3>2. CASE d # c
      <4>1. Within(arg[d], added) BY <1>0, <2>1, <2>6, <3>2 DEF ChainInv
      <4>2. \A j \in 1 .. Len(added) : j \in 1 .. Len(added') /\ added'[j] = added[j]
        BY <2>2
      <4> QED BY <4>1, <4>2 DEF Within
    <3> QED BY <3>1, <3>2
  <2>7. (\A d \in Clients : apc[d] \in {"tail", "unlock"} => Within(arg[d], added))'
    BY <2>1, <2>6 DEF Within
  <2>8. (\A d \in Clients : apc[d] \in {"lock", "link"} => Apart(arg[d], added))'
    BY <2>1, <2>5 DEF Apart
  <2>9. Distinct(added)' BY <2>4 DEF Distinct
  <2> QED BY <2>1, <2>7, <2>8, <2>9 DEF ChainInv, Distinct, Apart
<1>4. ASSUME NEW c \in Clients, AddLock(c) \/ AddTail(c) PROVE ChainInv'
  <2>1. added' = added /\ arg' = arg BY <1>4 DEF AddLock, AddTail, history
  <2>2. \A d \in Clients : apc'[d] \in {"lock", "link"} => apc[d] \in {"lock", "link"}
    BY <1>0, <1>4 DEF AddLock, AddTail
  <2>3. \A d \in Clients : apc'[d] \in {"tail", "unlock"} => apc[d] \in {"tail", "unlock"}
    BY <1>0, <1>4 DEF AddLock, AddTail
  <2> QED BY <2>1, <2>2, <2>3 DEF ChainInv, Distinct, Apart, Within
<1>5. ASSUME NEW c \in Clients, AddUnlock(c) PROVE ChainInv'
  <2>1. added' = added BY <1>5 DEF AddUnlock, history
  <2>2. \A d \in Clients : /\ arg'[d] = IF d = c THEN <<>> ELSE arg[d]
                           /\ apc'[d] = IF d = c THEN "idle" ELSE apc[d]
    BY <1>0, <1>5 DEF AddUnlock
  <2>3. \A s : Apart(<<>>, s) /\ Apart(s, <<>>) /\ Distinct(<<>>) BY DEF Apart, Distinct
  <2>4. \A d \in Clients : Distinct(arg'[d]) BY <2>2, <2>3 DEF ChainInv
  <2>5. \A d, e \in Clients : d # e => Apart(arg'[d], arg'[e]) BY <2>2, <2>3 DEF ChainInv
  <2>6. \A d \in Clients : apc'[d] \in {"lock", "link"} => Apart(arg'[d], added)
    BY <2>2 DEF ChainInv
  <2>7. \A d \in Clients : apc'[d] \in {"tail", "unlock"} => Within(arg'[d], added)
    BY <2>2 DEF ChainInv
  <2> QED BY <2>1, <2>4, <2>5, <2>6, <2>7 DEF ChainInv, Distinct, Apart, Within
<1>6. ASSUME InitBegin \/ InitStep \/ \E w \in Workers : WorkStep(w) \/ SpuriousWake(w)
      PROVE  UNCHANGED <<added, arg, apc>>
  BY <1>6 DEF InitBegin, InitStep, InitDone, InitCreate, InitFail, InitMutex, InitCond, InitCount,
        WorkStep, WorkLoop, WorkLock, WorkWait, WorkLeaveWait, WorkPop, WorkUnlock, WorkWork,
        WorkCallback, WorkFree, SpuriousWake, history, clientVars
<1>7. CASE UNCHANGED vars BY <1>1, <1>7 DEF vars, history, clientVars
<1> QED BY <1>1, <1>2, <1>3, <1>4, <1>5, <1>6, <1>7 DEF Next, AddStep

(* The mutex is what its users take it for, as long as no call of          *)
(* async_task_init() has initialised it while it was held.                 *)
LEMMA LockStep ==
    ThreadInv /\ (clean => LockInv) /\ [Next]_vars => (clean' => clean /\ LockInv')
<1> SUFFICES ASSUME ThreadInv, clean => LockInv, [Next]_vars, clean'
             PROVE  clean /\ LockInv'
  OBVIOUS
<1>0. /\ apc \in [Clients -> {"idle", "lock", "link", "tail", "unlock"}]
      /\ wpc \in [Workers -> {"none", "loop", "lock", "test", "wait", "relock", "pop",
                              "unlock", "work", "callback", "err_callback", "clean", "exit"}]
      /\ created \in 0 .. MaxThreads /\ \A w \in waiters : wpc[w] = "wait"
      /\ waiters \subseteq Workers
      /\ \A c \in Clients, w \in Workers : c # w
      /\ \A x \in Clients \cup Workers : x # NULL
  BY NullAssumption DEF ThreadInv, TypeOK, Workers
<1> USE <1>0 DEF LockInv, InSection
<1>1. CASE UNCHANGED vars BY <1>1 DEF vars, sync, clientVars, workerVars, flags
<1>2. CASE InitBegin \/ InitDone \/ InitFail \/ InitCount
  BY <1>2 DEF InitBegin, InitDone, InitFail, InitCount, sync, clientVars, workerVars, flags
<1>3. CASE InitCreate
  <2>1. PICK v : wpc' = [wpc EXCEPT ![v] = "loop"] BY <1>3 DEF InitCreate
  <2> QED BY <1>3, <2>1 DEF InitCreate, sync, clientVars, flags
<1>4. CASE InitMutex BY <1>4 DEF InitMutex, clientVars, workerVars
<1>5. CASE InitCond BY <1>5 DEF InitCond, clientVars, workerVars
<1>6. ASSUME NEW c \in Clients, AddBegin(c) PROVE clean /\ LockInv'
  BY <1>6 DEF AddBegin, sync, workerVars, flags
<1>7. ASSUME NEW c \in Clients, AddLock(c) PROVE clean /\ LockInv'
  BY <1>7 DEF AddLock, workerVars, flags
<1>8. ASSUME NEW c \in Clients, AddLink(c) PROVE clean /\ LockInv'
  BY <1>8 DEF AddLink, sync, workerVars
<1>9. ASSUME NEW c \in Clients, AddTail(c) PROVE clean /\ LockInv'
  <2>1. \A w \in Workers : wpc'[w] = wpc[w] \/ wpc'[w] = "relock" BY <1>9 DEF AddTail
  <2> QED BY <1>9, <2>1 DEF AddTail, flags
<1>10. ASSUME NEW c \in Clients, AddUnlock(c) PROVE clean /\ LockInv'
  BY <1>10 DEF AddUnlock, workerVars, flags
<1>11. ASSUME NEW w \in Workers, WorkLoop(w) \/ SpuriousWake(w) PROVE clean /\ LockInv'
  BY <1>11 DEF WorkLoop, SpuriousWake, sync, clientVars, flags
<1>12. ASSUME NEW w \in Workers, WorkLock(w) PROVE clean /\ LockInv'
  BY <1>12 DEF WorkLock, clientVars, flags
<1>13. ASSUME NEW w \in Workers, WorkWait(w) \/ WorkUnlock(w) PROVE clean /\ LockInv'
  <2>1. owner = w /\ InSection' \subseteq InSection \ {w}
    BY <1>13 DEF WorkWait, WorkUnlock, clientVars, flags
  <2> QED BY <1>13, <2>1 DEF WorkWait, WorkUnlock, flags
<1>14. ASSUME NEW w \in Workers, WorkLeaveWait(w) \/ WorkPop(w) PROVE clean /\ LockInv'
  BY <1>14 DEF WorkLeaveWait, WorkPop, sync, clientVars, flags
<1>15. ASSUME NEW w \in Workers, WorkWork(w) \/ WorkCallback(w) \/ WorkFree(w)
       PROVE  clean /\ LockInv'
  BY <1>15 DEF WorkWork, WorkCallback, WorkFree, sync, clientVars, flags
<1> QED BY <1>1, <1>2, <1>3, <1>4, <1>5, <1>6, <1>7, <1>8, <1>9, <1>10, <1>11, <1>12, <1>13,
           <1>14, <1>15 DEF Next, InitStep, AddStep, WorkStep

-----------------------------------------------------------------------------
Unlinked(c) == apc[c] \in {"lock", "link"}

(* What the lemmas below use of the parts of the invariant.                *)
LEMMA Facts ==
    ASSUME ThreadInv, ChainInv
    PROVE  /\ apc \in [Clients -> {"idle", "lock", "link", "tail", "unlock"}]
           /\ next \in [Tasks -> Tasks \cup {NULL}] /\ arg \in [Clients -> Seq(Tasks)]
           /\ added \in Seq(Tasks) /\ popped \in Seq(Tasks) /\ NULL \notin Tasks
           /\ Len(added) \in Nat /\ Len(popped) \in Nat
           /\ \A i \in 1 .. Len(added) : added[i] \in Tasks
           /\ \A i, j \in 1 .. Len(added) : added[i] = added[j] => i = j
           /\ \A c \in Clients : Len(arg[c]) \in Nat /\ \A i \in 1 .. Len(arg[c]) : arg[c][i] \in Tasks
           /\ \A c \in Clients : apc[c] # "idle" => Len(arg[c]) > 0
<1>1. arg \in [Clients -> Seq(Tasks)] /\ added \in Seq(Tasks) /\ popped \in Seq(Tasks)
  BY DEF ThreadInv
<1>2. \A c \in Clients : Len(arg[c]) \in Nat /\ \A i \in 1 .. Len(arg[c]) : arg[c][i] \in Tasks
  BY <1>1, ElementOfSeq, LenProperties
<1>3. \A c \in Clients : apc[c] # "idle" => Len(arg[c]) > 0
  BY <1>1, EmptySeq DEF ThreadInv
<1>4. Len(added) \in Nat /\ Len(popped) \in Nat /\ \A i \in 1 .. Len(added) : added[i] \in Tasks
  BY <1>1, ElementOfSeq, LenProperties
<1> QED BY <1>1, <1>2, <1>3, <1>4, NullAssumption DEF ThreadInv, TypeOK, ChainInv, Distinct

(* Appending a chain to what was added.                                    *)
LEMMA AddedGrows ==
    ASSUME ThreadInv, ChainInv, NEW c \in Clients, AddLink(c)
    PROVE  /\ added' \in Seq(Tasks) /\ Len(added') = Len(added) + Len(arg[c])
           /\ \A i \in 1 .. Len(added) : added'[i] = added[i]
           /\ \A i \in Len(added) + 1 .. Len(added') : added'[i] = arg[c][i - Len(added)]
           /\ Len(arg[c]) \in Nat \ {0}
<1>1. added \in Seq(Tasks) /\ arg[c] \in Seq(Tasks) BY Facts
<1>2. Len(arg[c]) > 0 /\ added' = added \o arg[c] BY Facts DEF AddLink
<1>3. Len(added) \in Nat /\ Len(arg[c]) \in Nat BY Facts
<1> QED BY <1>1, <1>2, <1>3, ConcatProperties

(* Nobody links or takes anything while a client is between the two halves *)
(* of its own call.                                                        *)
LEMMA OneInSection ==
    ASSUME ThreadInv, LockInv, NEW x \in InSection, NEW c \in Clients, c # x
    PROVE  apc[c] \notin {"link", "tail", "unlock"}
BY DEF LockInv, InSection

(* The list follows what is added and popped: the tail, which AddLink      *)
(* writes through, is the last task that was added and was not freed.      *)
LEMMA ListStep ==
    ASSUME ThreadInv, ChainInv, LockInv, ListInv, OutsideInv, TakenInv, [Next]_vars
    PROVE  ListInv'
<1> USE DEF ListInv, NthAdded
<1>0. /\ Len(added) \in Nat /\ Len(popped) \in Nat /\ NULL \notin Tasks
      /\ \A i \in 1 .. Len(added) : added[i] \in Tasks
  BY Facts
<1>1. CASE UNCHANGED <<corrupted, popped, added, head, next, tail, arg, apc>> BY <1>1
<1>2. ASSUME NEW c \in Clients, AddBegin(c) PROVE ListInv'
  <2>1. PICK chain \in Chains :
          /\ ToSet(chain) \subseteq Fresh
          /\ arg' = [arg EXCEPT ![c] = chain] /\ next' = Linked(chain)
    BY <1>2 DEF AddBegin
  <2>2. \A i \in 1 .. Len(chain) : chain[i] \in Fresh BY <2>1, LinkedIs DEF ToSet, ThreadInv, TypeOK
  <2>3. \A i \in 1 .. Len(added) : next'[added[i]] = next[added[i]]
    <3> TAKE i \in 1 .. Len(added)
    <3>1. added[i] \in Tasks /\ added[i] \notin Fresh BY Facts DEF Fresh, ToSet
    <3>2. next \in [Tasks -> Tasks \cup {NULL}] /\ Len(chain) \in Nat BY LinkedIs, Facts
    <3> QED BY <2>1, <2>2, <3>1, <3>2, LinkedIs
  <2>4. \A d \in Clients : /\ apc'[d] = "tail" <=> apc[d] = "tail"
                           /\ apc[d] = "tail" => arg'[d] = arg[d]
    BY <1>2, <2>1, Facts DEF AddBegin
  <2>5. UNCHANGED <<corrupted, popped, added, head, tail>> BY <1>2 DEF AddBegin, history, flags
  <2> QED BY <1>0, <2>3, <2>4, <2>5
<1>3. ASSUME NEW c \in Clients, AddLink(c) PROVE ListInv'
  <2>1. /\ apc' = [apc EXCEPT ![c] = "tail"] /\ arg' = arg /\ popped' = popped /\ tail' = tail
        /\ apc[c] = "link"
    BY <1>3 DEF AddLink
  <2>2. \A d \in Clients : d # c => apc[d] # "tail" /\ apc'[d] # "tail"
    <3>1. c \in InSection BY <2>1 DEF InSection
    <3> QED BY <2>1, <3>1, OneInSection, Facts
  <2>3. tail = IF Len(popped) < Len(added) THEN added[Len(added)] ELSE NULL BY <2>1, <2>2
  <2>4. /\ Len(added') = Len(added) + Len(arg[c])
        /\ \A i \in 1 .. Len(added) : added'[i] = added[i]
        /\ \A i \in Len(added) + 1 .. Len(added') : added'[i] = arg[c][i - Len(added)]
        /\ Len(arg[c]) \in Nat \ {0}
    BY <1>3, AddedGrows
  <2>5. arg[c][Len(arg[c])] = added'[Len(added')] BY <1>0, <2>4
  <2>6. \A i \in 1 .. Len(arg[c]) :
            next[arg[c][i]] = IF i < Len(arg[c]) THEN arg[c][i + 1] ELSE NULL
    BY <2>1 DEF OutsideInv
  <2>9. ASSUME NEW i \in Len(added) + 1 .. Len(added')
        PROVE  next[arg[c][i - Len(added)]] = NthAdded(i + 1)'
    <3> DEFINE k == i - Len(added)
    <3>1. k \in 1 .. Len(arg[c]) BY <1>0, <2>4
    <3>2. CASE k # Len(arg[c])
      <4>0. k < Len(arg[c]) BY <2>4, <3>1, <3>2
      <4>1. next[arg[c][k]] = arg[c][k + 1] BY <2>6, <3>1, <4>0
      <4>2. i + 1 \in Len(added) + 1 .. Len(added') /\ i + 1 - Len(added) = k + 1
        BY <1>0, <2>4, <4>0
      <4>3. added'[i + 1] = arg[c][(i + 1) - Len(added)] BY <2>4, <4>2
      <4>4. i + 1 \in 1 .. Len(added') BY <1>0, <4>2
      <4> QED BY <4>1, <4>2, <4>3, <4>4
    <3>3. CASE k = Len(arg[c])
      <4>1. next[arg[c][k]] = NULL BY <2>6, <3>1, <3>3
      <4>2. i + 1 \notin 1 .. Len(added') BY <1>0, <2>4, <3>3
      <4> QED BY <4>1, <4>2
    <3> QED BY <3>2, <3>3
  <2>10. ASSUME NEW i \in 1 .. Len(added') PROVE NthAdded(i)' = added'[i]
    OBVIOUS
  <2>7. CASE Len(popped) < Len(added)
    <3>1. tail = added[Len(added)] /\ tail \in Tasks /\ tail # NULL BY <1>0, <2>3, <2>7
    <3>2. next' = [next EXCEPT ![tail] = arg[c][1]] /\ head' = head
          /\ corrupted' = (corrupted \/ tail \in freed)
      BY <1>3, <3>1 DEF AddLink
    <3>3. tail \notin freed
      <4> SUFFICES ASSUME tail \in freed PROVE FALSE
        OBVIOUS
      <4>1. PICK i \in 1 .. Len(popped) : popped[i] = tail BY DEF TakenInv
      <4>2. i \in 1 .. Len(added) /\ added[i] = added[Len(added)] BY <1>0, <2>7, <3>1, <4>1
      <4>3. i = Len(added) BY <1>0, <2>7, <4>2, Facts
      <4> QED BY <1>0, <2>7, <4>3
    <3>4. \A t \in Tasks : t # tail => next'[t] = next[t] BY <3>2, Facts
    <3>5. next'[tail] = arg[c][1] BY <3>1, <3>2, Facts
    <3>6. ASSUME NEW i \in Len(popped) + 1 .. Len(added')
          PROVE  next'[added'[i]] = NthAdded(i + 1)'
      <4>1. CASE i < Len(added)
        <5>1. added[i] # tail BY <1>0, <3>1, <3>6, <4>1, Facts
        <5>2. next'[added[i]] = next[added[i]] BY <1>0, <3>4, <3>6, <4>1, <5>1
        <5>5. i \in Len(popped) + 1 .. Len(added) /\ i + 1 \in 1 .. Len(added)
          BY <1>0, <3>6, <4>1
        <5>3. next[added[i]] = added[i + 1] BY <5>5
        <5>4. added'[i] = added[i] /\ added'[i + 1] = added[i + 1] /\ i + 1 \in 1 .. Len(added')
          BY <1>0, <2>4, <3>6, <4>1
        <5> QED BY <5>2, <5>3, <5>4
      <4>2. CASE i = Len(added) BY <1>0, <2>4, <2>7, <3>1, <3>5, <4>2
      <4>3. CASE i > Len(added)
        <5>1. /\ i - Len(added) \in 1 .. Len(arg[c]) /\ added'[i] = arg[c][i - Len(added)]
              /\ Len(added) \in 1 .. Len(added)
          BY <1>0, <2>4, <2>7, <3>6, <4>3
        <5>2. added'[i] # tail /\ added'[i] \in Tasks
          BY <2>1, <3>1, <5>1, Facts DEF ChainInv, Apart
        <5>3. next'[added'[i]] = next[arg[c][i - Len(added)]] BY <3>4, <5>1, <5>2
        <5>4. i \in Len(added) + 1 .. Len(added') BY <1>0, <2>4, <3>6, <4>3
        <5>5. next[arg[c][i - Len(added)]] = NthAdded(i + 1)' BY <2>9, <5>4
        <5> QED BY <5>3, <5>5
      <4> QED BY <1>0, <3>6, <4>1, <4>2, <4>3, <2>4
    <3>7. head' = added'[Len(popped) + 1] /\ Len(popped) + 1 \in 1 .. Len(added')
      BY <1>0, <2>4, <2>7, <3>2
    <3>8. \A i \in 1 .. Len(popped) : popped[i] = added'[i] BY <1>0, <2>4, <2>7
    <3>9. \A d \in Clients : apc'[d] = "tail" <=> d = c BY <2>1, <2>2, Facts
    <3>10. Len(popped) <= Len(added') /\ Len(popped) < Len(added') BY <1>0, <2>4, <2>7
    <3>11. ~ corrupted' BY <3>2, <3>3
    <3>12. \A d \in Clients : apc'[d] = "tail" =>
              /\ Len(popped) < Len(added') /\ arg[d][Len(arg[d])] = added'[Len(added')]
      BY <2>5, <3>9, <3>10
    <3> QED BY <2>1, <3>6, <3>7, <3>8, <3>9, <3>10, <3>11, <3>12
  <2>8. CASE Len(popped) = Len(added)
    <3>1. tail = NULL BY <1>0, <2>3, <2>8
    <3>2. next' = next /\ head' = arg[c][1] /\ corrupted' = corrupted
      BY <1>3, <3>1 DEF AddLink
    <3>3. ASSUME NEW i \in Len(popped) + 1 .. Len(added')
          PROVE  next'[added'[i]] = NthAdded(i + 1)'
      <4>1. i \in Len(added) + 1 .. Len(added') BY <1>0, <2>4, <2>8, <3>3
      <4> QED BY <2>4, <2>9, <3>2, <4>1
    <3>4. head' = added'[Len(popped) + 1] /\ Len(popped) + 1 \in 1 .. Len(added')
      BY <1>0, <2>4, <2>8, <3>2
    <3>5. \A i \in 1 .. Len(popped) : popped[i] = added'[i] BY <1>0, <2>4, <2>8
    <3>6. \A d \in Clients : apc'[d] = "tail" <=> d = c BY <2>1, <2>2, Facts
    <3> QED BY <1>0, <2>1, <2>4, <2>5, <2>8, <3>2, <3>3, <3>4, <3>5, <3>6
  <2> QED BY <1>0, <2>7, <2>8
<1>4. ASSUME NEW c \in Clients, AddLock(c) \/ AddUnlock(c) PROVE ListInv'
  <2>1. \A d \in Clients : /\ apc'[d] = "tail" <=> apc[d] = "tail"
                           /\ apc[d] = "tail" => arg'[d] = arg[d]
    BY <1>4, Facts DEF AddLock, AddUnlock
  <2> QED BY <1>4, <2>1 DEF AddLock, AddUnlock, queue, history, flags
<1>5. ASSUME NEW c \in Clients, AddTail(c) PROVE ListInv'
  <2>1. UNCHANGED <<head, next, corrupted, popped, added, arg>>
    BY <1>5 DEF AddTail, history, flags
  <2>2. tail' = added[Len(added)] /\ Len(popped) < Len(added) BY <1>5 DEF AddTail
  <2>3. \A d \in Clients : apc'[d] = "tail" => apc[d] = "tail" BY <1>5, Facts DEF AddTail
  <2> QED BY <1>0, <2>1, <2>2, <2>3
<1>6. ASSUME NEW w \in Workers, WorkPop(w) PROVE ListInv'
  <2>1. UNCHANGED <<added, arg, apc, corrupted>> BY <1>6 DEF WorkPop, clientVars, flags
  <2>2. \A d \in Clients : apc[d] # "tail"
    <3>1. w \in InSection /\ \A d \in Clients : d # w
      BY <1>6, NullAssumption DEF InSection, WorkPop, Workers
    <3> QED BY <3>1, OneInSection
  <2>3. head # NULL /\ Len(popped) < Len(added) /\ head = added[Len(popped) + 1]
        /\ tail = added[Len(added)]
    BY <1>0, <1>6, <2>2 DEF WorkPop
  <2>4. /\ Len(popped') = Len(popped) + 1 /\ popped'[Len(popped) + 1] = head
        /\ \A i \in 1 .. Len(popped) : popped'[i] = popped[i]
    <3>1. popped \in Seq(Tasks) /\ head \in Tasks /\ popped' = Append(popped, head)
      BY <1>0, <1>6, <2>3, Facts DEF WorkPop
    <3> QED BY <3>1, AppendProperties
  <2>5. head' = next[head] /\ next' = [next EXCEPT ![head] = NULL]
        /\ tail' = IF tail = head THEN NULL ELSE tail
    BY <1>6 DEF WorkPop
  <2>6. \A i \in Len(popped) + 2 .. Len(added) : next'[added[i]] = next[added[i]]
    <3> TAKE i \in Len(popped) + 2 .. Len(added)
    <3>1. added[i] # head BY <1>0, <2>3, Facts
    <3> QED BY <2>5, <3>1, <1>0, Facts
  <2>7. head' = NthAdded(Len(popped) + 2) BY <1>0, <2>3, <2>5
  <2>8. tail = head <=> Len(added) = Len(popped) + 1 BY <1>0, <2>3, Facts
  <2>9. \A i \in 1 .. Len(popped') : popped'[i] = added[i] BY <1>0, <2>3, <2>4
  <2>10. tail' = IF Len(popped') < Len(added) THEN added[Len(added)] ELSE NULL
    BY <1>0, <2>3, <2>4, <2>5, <2>8
  <2> QED BY <1>0, <2>1, <2>2, <2>3, <2>4, <2>6, <2>7, <2>9, <2>10
<1>7. ASSUME NEW w \in Workers, WorkFree(w) PROVE ListInv'
  <2>1. Holds(w, task[w]) /\ task[w] \in Tasks BY <1>7 DEF WorkFree, Holds, ThreadInv, TypeOK
  <2>2. task[w] \notin freed BY <2>1 DEF TakenInv
  <2>3. UNCHANGED <<popped, added, head, next, tail, arg, apc>>
    BY <1>7 DEF WorkFree, queue, clientVars
  <2>4. ~ corrupted' BY <1>7, <2>2 DEF WorkFree
  <2> QED BY <2>3, <2>4
<1>8. ASSUME \/ InitBegin \/ InitStep
             \/ \E w \in Workers : \/ WorkLoop(w) \/ WorkLock(w) \/ WorkWait(w) \/ WorkLeaveWait(w)
                                   \/ WorkUnlock(w) \/ WorkWork(w) \/ WorkCallback(w)
                                   \/ SpuriousWake(w)
      PROVE  UNCHANGED <<corrupted, popped, added, head, next, tail, arg, apc>>
  BY <1>8 DEF InitBegin, InitStep, InitDone, InitCreate, InitFail, InitMutex, InitCond, InitCount,
        WorkLoop, WorkLock, WorkWait, WorkLeaveWait, WorkUnlock, WorkWork, WorkCallback,
        SpuriousWake, queue, history, clientVars, flags
<1>9. CASE UNCHANGED vars BY <1>1, <1>9 DEF vars, queue, history, clientVars, flags
<1> QED BY <1>1, <1>2, <1>3, <1>4, <1>5, <1>6, <1>7, <1>8, <1>9 DEF Next, AddStep, WorkStep

(* A task that is not linked is touched by nobody but its caller.          *)
LEMMA OutsideStep ==
    ASSUME ThreadInv, ChainInv, LockInv, ListInv, OutsideInv, [Next]_vars
    PROVE  OutsideInv'
<1>0. /\ apc \in [Clients -> {"idle", "lock", "link", "tail", "unlock"}]
      /\ next \in [Tasks -> Tasks \cup {NULL}] /\ NULL \notin Tasks
      /\ \A c \in Clients : Len(arg[c]) \in Nat /\ \A i \in 1 .. Len(arg[c]) : arg[c][i] \in Tasks
  BY Facts
\* Nothing enters: what is outside was outside, and keeps its pointer.
<1>1. ASSUME \A c \in Clients : Unlinked(c)' => Unlinked(c) /\ arg'[c] = arg[c],
             \A t \in Fresh' : t \in Fresh,
             \A t \in Tasks : t \notin ToSet(added) => next'[t] = next[t]
      PROVE  OutsideInv'
  <2>1. ASSUME NEW c \in Clients, Unlinked(c)', NEW i \in 1 .. Len(arg[c])
        PROVE  next'[arg[c][i]] = IF i < Len(arg[c]) THEN arg[c][i + 1] ELSE NULL
    <3>1. Unlinked(c) BY <1>1, <2>1
    <3>2. arg[c][i] \in Tasks /\ arg[c][i] \notin ToSet(added)
      BY <1>0, <3>1, Facts DEF ChainInv, Apart, Unlinked, ToSet
    <3>3. next'[arg[c][i]] = next[arg[c][i]] BY <1>1, <3>2
    <3> QED BY <3>1, <3>3 DEF OutsideInv, Unlinked
  <2>2. ASSUME NEW t \in Fresh' PROVE next'[t] = NULL
    <3>1. t \in Fresh /\ t \in Tasks /\ t \notin ToSet(added) BY <1>1, <2>2 DEF Fresh
    <3> QED BY <1>1, <3>1 DEF OutsideInv
  <2>3. \A c \in Clients : Unlinked(c)' => arg'[c] = arg[c] BY <1>1
  <2> QED BY <2>1, <2>2, <2>3 DEF OutsideInv, Unlinked
<1>2. CASE UNCHANGED <<arg, apc, added, next>>
  BY <1>1, <1>2 DEF Unlinked, Fresh
<1>3. ASSUME NEW c \in Clients, AddBegin(c) PROVE OutsideInv'
  <2>1. PICK chain \in Chains :
          /\ ToSet(chain) \subseteq Fresh
          /\ arg' = [arg EXCEPT ![c] = chain] /\ next' = Linked(chain)
    BY <1>3 DEF AddBegin
  <2>2. /\ Len(chain) \in Nat \ {0} /\ chain \in Seq(Tasks)
        /\ \A i, j \in 1 .. Len(chain) : chain[i] = chain[j] => i = j
        /\ \A i \in 1 .. Len(chain) - 1 : next'[chain[i]] = chain[i + 1]
        /\ \A t \in Tasks : (\A i \in 1 .. Len(chain) - 1 : t # chain[i]) => next'[t] = next[t]
    BY <1>0, <2>1, LinkedIs
  <2>3. \A i \in 1 .. Len(chain) : chain[i] \in Fresh /\ chain[i] \in Tasks
    BY <2>1, <2>2 DEF ToSet, Fresh
  <2>4. added' = added BY <1>3 DEF AddBegin, history
  <2>5. \A d \in Clients : arg'[d] = IF d = c THEN chain ELSE arg[d] BY <2>1, Facts
  <2>6. \A t \in Fresh' : t \in Fresh /\ \A i \in 1 .. Len(chain) : t # chain[i]
    <3> SUFFICES ASSUME NEW t \in Fresh' PROVE t \in Fresh /\ \A i \in 1 .. Len(chain) : t # chain[i]
      OBVIOUS
    <3>1. t \in Tasks /\ t \notin ToSet(added) /\ \A d \in Clients : t \notin ToSet(arg'[d])
      BY <2>4 DEF Fresh
    <3>2. t \notin ToSet(chain) BY <2>5, <3>1
    <3>3. arg[c] = <<>> BY <1>3 DEF AddBegin, ThreadInv
    <3>4. \A d \in Clients : t \notin ToSet(arg[d]) BY <2>5, <3>1, <3>3 DEF ToSet
    <3> QED BY <2>2, <3>1, <3>2, <3>4 DEF Fresh, ToSet
  <2>7. \A t \in Fresh' : next'[t] = NULL
    <3> SUFFICES ASSUME NEW t \in Fresh' PROVE next'[t] = NULL
      OBVIOUS
    <3>1. t \in Fresh /\ t \in Tasks /\ \A i \in 1 .. Len(chain) : t # chain[i]
      BY <2>6 DEF Fresh
    <3>2. \A i \in 1 .. Len(chain) - 1 : t # chain[i] BY <2>2, <3>1
    <3>3. next'[t] = next[t] BY <2>2, <3>1, <3>2
    <3> QED BY <3>1, <3>3 DEF OutsideInv
  <2>8. ASSUME NEW i \in 1 .. Len(chain)
        PROVE  next'[chain[i]] = IF i < Len(chain) THEN chain[i + 1] ELSE NULL
    <3>1. CASE i < Len(chain) BY <2>2, <3>1
    <3>2. CASE i = Len(chain)
      <4>1. \A j \in 1 .. Len(chain) - 1 : chain[i] # chain[j] BY <2>2, <3>2
      <4>2. next'[chain[i]] = next[chain[i]] BY <2>2, <2>3, <4>1
      <4> QED BY <2>3, <3>2, <4>2 DEF OutsideInv
    <3> QED BY <2>2, <3>1, <3>2
  <2>9. ASSUME NEW d \in Clients, d # c, Unlinked(d)', NEW i \in 1 .. Len(arg[d])
        PROVE  next'[arg[d][i]] = IF i < Len(arg[d]) THEN arg[d][i + 1] ELSE NULL
    <3>1. Unlinked(d) BY <1>0, <1>3, <2>9 DEF AddBegin, Unlinked
    <3>2. arg[d][i] \in Tasks /\ arg[d][i] \notin Fresh
      BY <1>0, <2>9, Facts DEF Fresh, ToSet
    <3>3. \A j \in 1 .. Len(chain) - 1 : arg[d][i] # chain[j] BY <2>2, <2>3, <3>2
    <3>4. next'[arg[d][i]] = next[arg[d][i]] BY <2>2, <3>2, <3>3
    <3> QED BY <3>1, <3>4 DEF OutsideInv, Unlinked
  <2>10. \A d \in Clients : Unlinked(d)' => \A i \in 1 .. Len(arg'[d]) :
            next'[arg'[d][i]] = IF i < Len(arg'[d]) THEN arg'[d][i + 1] ELSE NULL
    BY <2>5, <2>8, <2>9
  <2> QED BY <2>7, <2>10 DEF OutsideInv, Unlinked
<1>4. ASSUME NEW c \in Clients, AddLock(c) \/ AddTail(c) PROVE OutsideInv'
  <2>1. UNCHANGED <<arg, added, next>> BY <1>4 DEF AddLock, AddTail, queue, history
  <2>2. \A d \in Clients : Unlinked(d)' => Unlinked(d) BY <1>0, <1>4 DEF AddLock, AddTail, Unlinked
  <2> QED BY <1>1, <2>1, <2>2 DEF Fresh
<1>5. ASSUME NEW c \in Clients, AddLink(c) PROVE OutsideInv'
  <2>1. arg' = arg /\ apc' = [apc EXCEPT ![c] = "tail"] /\ apc[c] = "link" BY <1>5 DEF AddLink
  <2>2. \A d \in Clients : Unlinked(d)' => Unlinked(d) BY <1>0, <2>1 DEF Unlinked
  <2>3. \A i \in 1 .. Len(added) : i \in 1 .. Len(added') /\ added'[i] = added[i]
    BY <1>5, AddedGrows, Facts
  <2>4. added \in Seq(Tasks) /\ added' \in Seq(Tasks) BY <1>5, AddedGrows, Facts
  <2>5. \A t \in Fresh' : t \in Fresh BY <2>1, <2>3, <2>4 DEF Fresh, ToSet
  <2>6. \A d \in Clients : apc[d] # "tail"
    <3>1. c \in InSection BY <2>1 DEF InSection
    <3> QED BY <2>1, <3>1, OneInSection
  <2>7. \A t \in Tasks : t \notin ToSet(added) => next'[t] = next[t]
    <3>1. CASE tail = NULL BY <1>5, <3>1 DEF AddLink
    <3>2. CASE tail # NULL
      <4>1. tail = added[Len(added)] /\ Len(added) \in 1 .. Len(added)
        BY <2>6, <3>2, Facts DEF ListInv
      <4>2. tail \in ToSet(added) BY <2>4, <4>1 DEF ToSet
      <4>3. next' = [next EXCEPT ![tail] = arg[c][1]] BY <1>5, <3>2 DEF AddLink
      <4> QED BY <1>0, <4>2, <4>3
    <3> QED BY <3>1, <3>2
  <2> QED BY <1>1, <2>1, <2>2, <2>5, <2>7
<1>6. ASSUME NEW c \in Clients, AddUnlock(c) PROVE OutsideInv'
  <2>1. UNCHANGED <<added, next>> BY <1>6 DEF AddUnlock, queue, history
  <2>2. \A d \in Clients : /\ apc'[d] = IF d = c THEN "idle" ELSE apc[d]
                           /\ arg'[d] = IF d = c THEN <<>> ELSE arg[d]
    BY <1>0, <1>6, Facts DEF AddUnlock
  <2>3. \A d \in Clients : Unlinked(d)' => Unlinked(d) /\ arg'[d] = arg[d]
    BY <2>2 DEF Unlinked
  <2>4. \A t \in Fresh' : t \in Fresh
    <3> SUFFICES ASSUME NEW t \in Fresh', NEW d \in Clients, t \in ToSet(arg[d]) PROVE FALSE
      BY <2>1 DEF Fresh
    <3>1. t \notin ToSet(added) /\ t \notin ToSet(arg'[d]) BY <2>1 DEF Fresh
    <3>2. d = c BY <2>2, <3>1
    <3>3. Within(arg[c], added) BY <1>6 DEF ChainInv, AddUnlock
    <3>4. arg \in [Clients -> Seq(Tasks)] /\ added \in Seq(Tasks) BY Facts
    <3> QED BY <3>1, <3>2, <3>3, <3>4 DEF Within, ToSet
  <2> QED BY <1>1, <2>1, <2>3, <2>4
<1>7. ASSUME NEW w \in Workers, WorkPop(w) PROVE OutsideInv'
  <2>1. UNCHANGED <<arg, apc, added>> BY <1>7 DEF WorkPop, clientVars
  <2>2. head # NULL /\ next' = [next EXCEPT ![head] = NULL] BY <1>7 DEF WorkPop
  <2>3. head \in ToSet(added)
    <3>1. added \in Seq(Tasks) BY Facts
    <3> QED BY <2>2, <3>1 DEF ListInv, NthAdded, ToSet
  <2>4. \A t \in Tasks : t \notin ToSet(added) => next'[t] = next[t] BY <1>0, <2>2, <2>3
  <2> QED BY <1>1, <2>1, <2>4 DEF Unlinked, Fresh
<1>8. ASSUME \/ InitBegin \/ InitStep
             \/ \E w \in Workers : \/ WorkLoop(w) \/ WorkLock(w) \/ WorkWait(w) \/ WorkLeaveWait(w)
                                   \/ WorkUnlock(w) \/ WorkWork(w) \/ WorkCallback(w)
                                   \/ WorkFree(w) \/ SpuriousWake(w)
      PROVE  UNCHANGED <<arg, apc, added, next>>
  BY <1>8 DEF InitBegin, InitStep, InitDone, InitCreate, InitFail, InitMutex, InitCond, InitCount,
        WorkLoop, WorkLock, WorkWait, WorkLeaveWait, WorkUnlock, WorkWork, WorkCallback, WorkFree,
        SpuriousWake, queue, history, clientVars
<1>9. CASE UNCHANGED vars BY <1>2, <1>9 DEF vars, queue, history, clientVars
<1> QED BY <1>2, <1>3, <1>4, <1>5, <1>6, <1>7, <1>8, <1>9 DEF Next, AddStep, WorkStep

-----------------------------------------------------------------------------
(* What TakenInv says of a worker that has a task, and of one that is free.*)
Results == {"callback", "err_callback"}

Progress(w, t) ==
    /\ wpc[w] \in {"unlock", "work"} => calls[t] = <<>>
    /\ wpc[w] \in Results => calls[t] = <<"work">>
    /\ wpc[w] = "clean" => \E r \in Results : calls[t] = <<"work", r>>

Done(t) == \E r \in Results : calls[t] = <<"work", r, "clean">>
Taken(t) == \E i \in 1 .. Len(popped) : popped[i] = t

(* The same invariant in the terms of the proof.                           *)
LEMMA TakenIs ==
    TakenInv <=>
        /\ \A t \in Tasks, v, w \in Workers : Holds(v, t) /\ Holds(w, t) => v = w
        /\ \A t \in Tasks, w \in Workers :
              Holds(w, t) => t \notin freed /\ Taken(t) /\ Progress(w, t)
        /\ \A t \in freed : Taken(t) /\ Done(t)
        /\ \A t \in Tasks \ freed : (\A w \in Workers : ~ Holds(w, t)) => calls[t] = <<>>
BY DEF TakenInv, Taken, Done, Progress, Results

(* Appending to short sequences.                                           *)
LEMMA AppendShort ==
    ASSUME NEW S, NEW a \in S, NEW b \in S, NEW c \in S
    PROVE  Append(<<a>>, b) = <<a, b>> /\ Append(<<a, b>>, c) = <<a, b, c>>
<1>1. Append(<<a>>, b) = <<a, b>>
  <2> DEFINE s == Append(<<a>>, b)  t == <<a, b>>
  <2>1. s \in Seq(S) /\ t \in Seq(S) /\ Len(s) = 2 /\ Len(t) = 2 /\ s[1] = a /\ s[2] = b
    BY AppendProperties
  <2>2. \A i \in 1 .. Len(s) : s[i] = t[i] BY <2>1
  <2> QED BY <2>1, <2>2, SeqEqual
<1>2. Append(<<a, b>>, c) = <<a, b, c>>
  <2> DEFINE s == Append(<<a, b>>, c)  t == <<a, b, c>>
  <2>1. s \in Seq(S) /\ t \in Seq(S) /\ Len(s) = 3 /\ Len(t) = 3
        /\ s[1] = a /\ s[2] = b /\ s[3] = c
    BY AppendProperties
  <2>2. \A i \in 1 .. Len(s) : s[i] = t[i] BY <2>1
  <2> QED BY <2>1, <2>2, SeqEqual
<1> QED BY <1>1, <1>2

(* A worker that has a task comes one callback further and at last frees   *)
(* it; everybody else leaves it alone.                                     *)
LEMMA TakenStep ==
    ASSUME ThreadInv, ChainInv, ListInv, TakenInv, [Next]_vars
    PROVE  TakenInv'
<1>0. /\ wpc \in [Workers -> {"none", "loop", "lock", "test", "wait", "relock", "pop",
                              "unlock", "work", "callback", "err_callback", "clean", "exit"}]
      /\ task \in [Workers -> Tasks \cup {NULL}] /\ NULL \notin Tasks
      /\ calls \in [Tasks -> Seq(Callbacks)] /\ created \in 0 .. MaxThreads
      /\ waiters \subseteq Workers /\ \A w \in waiters : wpc[w] = "wait"
      /\ \A w \in Workers : /\ w > created => wpc[w] = "none"
                            /\ wpc[w] \in {"lock", "relock", "wait", "test", "pop"} => task[w] = NULL
                            /\ wpc[w] \in {"work", "callback", "err_callback", "clean"} => task[w] \in Tasks
  BY NullAssumption DEF ThreadInv, TypeOK
<1>1. /\ \A t \in Tasks, v, w \in Workers : Holds(v, t) /\ Holds(w, t) => v = w
      /\ \A t \in Tasks, w \in Workers : Holds(w, t) => t \notin freed /\ Taken(t) /\ Progress(w, t)
      /\ \A t \in freed : Taken(t) /\ Done(t)
      /\ \A t \in Tasks \ freed : (\A w \in Workers : ~ Holds(w, t)) => calls[t] = <<>>
  BY TakenIs
\* Nobody takes, works on, or frees a task.
<1>2. ASSUME UNCHANGED <<popped, calls, freed>>,
             \A v \in Workers, t \in Tasks : Holds(v, t)' <=> Holds(v, t),
             \A v \in Workers, t \in Tasks : Holds(v, t) =>
                 wpc'[v] = wpc[v] \/ (wpc[v] = "unlock" /\ wpc'[v] = "work")
      PROVE  TakenInv'
  <2>1. \A t \in Tasks : (Taken(t)' <=> Taken(t)) /\ (Done(t)' <=> Done(t))
    BY <1>2 DEF Taken, Done
  <2>2. \A t \in Tasks, w \in Workers : Holds(w, t) => Progress(w, t)'
    BY <1>1, <1>2 DEF Progress, Results
  <2>3. freed \subseteq Tasks BY DEF ThreadInv, TypeOK
  <2>4. \A t \in Tasks, v, w \in Workers : Holds(v, t)' /\ Holds(w, t)' => v = w BY <1>1, <1>2
  <2>5. \A t \in Tasks, w \in Workers :
            Holds(w, t)' => t \notin freed' /\ Taken(t)' /\ Progress(w, t)'
    BY <1>1, <1>2, <2>1, <2>2
  <2>6. \A t \in freed' : Taken(t)' /\ Done(t)' BY <1>1, <1>2, <2>1, <2>3
  <2>7. \A t \in Tasks \ freed' : (\A w \in Workers : ~ Holds(w, t)') => calls'[t] = <<>>
    BY <1>1, <1>2
  <2> QED BY <2>4, <2>5, <2>6, <2>7 DEF TakenInv, Taken, Done, Progress, Results
<1>3. ASSUME InitBegin \/ InitStep PROVE TakenInv'
  <2>1. UNCHANGED <<popped, calls, freed, task>>
    BY <1>3 DEF InitBegin, InitStep, InitDone, InitCreate, InitFail, InitMutex, InitCond, InitCount,
          history, workerVars
  <2>2. wpc' = wpc \/ \E v \in Workers : wpc[v] = "none" /\ wpc' = [wpc EXCEPT ![v] = "loop"]
    <3>1. CASE InitCreate
      <4>1. created' \in Workers /\ created' > created
        BY <1>0, <3>1, ThreadsAssumption DEF InitCreate, Workers
      <4> QED BY <1>0, <3>1, <4>1 DEF InitCreate
    <3>2. CASE ~ InitCreate
      BY <1>3, <3>2 DEF InitBegin, InitStep, InitDone, InitFail, InitMutex, InitCond, InitCount, workerVars
    <3> QED BY <3>1, <3>2
  <2> QED BY <1>0, <1>2, <2>1, <2>2 DEF Holds
<1>4. ASSUME NEW c \in Clients, AddBegin(c) \/ AddStep(c) PROVE TakenInv'
  <2>1. UNCHANGED <<popped, calls, freed, task>>
    BY <1>4 DEF AddBegin, AddStep, AddLock, AddLink, AddTail, AddUnlock, history, workerVars
  <2>2. wpc' = wpc \/ \E v \in Workers : wpc[v] = "wait" /\ wpc' = [wpc EXCEPT ![v] = "relock"]
    BY <1>0, <1>4 DEF AddBegin, AddStep, AddLock, AddLink, AddTail, AddUnlock, workerVars
  <2> QED BY <1>0, <1>2, <2>1, <2>2 DEF Holds
<1>5. ASSUME NEW w \in Workers,
             WorkLoop(w) \/ WorkLock(w) \/ WorkWait(w) \/ WorkLeaveWait(w) \/ SpuriousWake(w)
      PROVE  TakenInv'
  <2>1. UNCHANGED <<popped, calls, freed>>
    BY <1>5 DEF WorkLoop, WorkLock, WorkWait, WorkLeaveWait, SpuriousWake, history
  <2>2. /\ wpc[w] \in {"loop", "lock", "relock", "test", "wait"}
        /\ \A v \in Workers : v # w => wpc'[v] = wpc[v] /\ task'[v] = task[v]
        /\ task'[w] = NULL
    BY <1>0, <1>5 DEF WorkLoop, WorkLock, WorkWait, WorkLeaveWait, SpuriousWake
  <2> QED BY <1>0, <1>2, <2>1, <2>2 DEF Holds
<1>6. ASSUME NEW w \in Workers, WorkUnlock(w) PROVE TakenInv'
  <2>1. UNCHANGED <<popped, calls, freed, task>> BY <1>6 DEF WorkUnlock, history
  <2>2. wpc[w] = "unlock" /\ wpc' = [wpc EXCEPT ![w] = IF task[w] = NULL THEN "loop" ELSE "work"]
    BY <1>6 DEF WorkUnlock
  <2> QED BY <1>0, <1>2, <2>1, <2>2 DEF Holds
<1>7. ASSUME NEW w \in Workers, WorkPop(w) PROVE TakenInv'
  <2>1. /\ UNCHANGED <<calls, freed>> /\ head # NULL /\ wpc[w] = "pop"
        /\ task' = [task EXCEPT ![w] = head] /\ wpc' = [wpc EXCEPT ![w] = "unlock"]
        /\ popped' = Append(popped, head)
    BY <1>7 DEF WorkPop
  <2>2. Len(popped) + 1 \in 1 .. Len(added) /\ head = added[Len(popped) + 1] /\ head \in Tasks
    BY <2>1, Facts DEF ListInv, NthAdded
  <2>3. ~ Taken(head)
    <3> SUFFICES ASSUME NEW i \in 1 .. Len(popped), popped[i] = head PROVE FALSE
      BY DEF Taken
    <3>1. i \in 1 .. Len(added) /\ added[i] = added[Len(popped) + 1] /\ i # Len(popped) + 1
      BY <2>2, Facts DEF ListInv
    <3> QED BY <2>2, <3>1, Facts
  <2>4. \A t : Taken(t)' <=> t = head \/ Taken(t)
    <3>1. popped \in Seq(Tasks) /\ Len(popped) \in Nat BY Facts
    <3>2. /\ Len(popped') = Len(popped) + 1 /\ popped'[Len(popped) + 1] = head
          /\ \A i \in 1 .. Len(popped) : popped'[i] = popped[i]
      BY <2>1, <2>2, <3>1, AppendProperties
    <3> QED BY <3>1, <3>2 DEF Taken
  <2>5. \A v \in Workers, t \in Tasks : Holds(v, t)' <=> (v = w /\ t = head) \/ (v # w /\ Holds(v, t))
    BY <1>0, <2>1 DEF Holds
  <2>6. \A v \in Workers : v # w => wpc'[v] = wpc[v] BY <1>0, <2>1
  <2>7. \A v \in Workers : ~ Holds(v, head) BY <1>1, <2>2, <2>3
  <2>8. head \notin freed BY <1>1, <2>3
  <2>9. calls[head] = <<>> BY <1>1, <2>2, <2>7, <2>8
  <2>10. \A v \in Workers, t \in Tasks : Holds(v, t)' => Progress(v, t)'
    BY <1>0, <1>1, <2>1, <2>5, <2>6, <2>9 DEF Progress, Results
  <2>11. \A t \in Tasks, u, v \in Workers : Holds(u, t)' /\ Holds(v, t)' => u = v
    BY <1>1, <2>2, <2>5, <2>7
  <2>12. \A t \in Tasks, v \in Workers :
            Holds(v, t)' => t \notin freed' /\ Taken(t)' /\ Progress(v, t)'
    BY <1>1, <2>1, <2>4, <2>5, <2>8, <2>10
  <2>13. \A t \in freed' : Taken(t)' /\ Done(t)' BY <1>1, <2>1, <2>4 DEF Done
  <2>14. \A t \in Tasks \ freed' : (\A v \in Workers : ~ Holds(v, t)') => calls'[t] = <<>>
    <3>1. ~ \E t \in Tasks : Holds(w, t) BY <2>1 DEF Holds
    <3> QED BY <1>1, <2>1, <2>5, <3>1
  <2> QED BY <2>11, <2>12, <2>13, <2>14 DEF TakenInv, Taken, Done, Progress, Results
\* The worker runs a callback on the task it has.
<1>8. ASSUME NEW w \in Workers, NEW x \in Callbacks, Holds(w, task[w]), task[w] \in Tasks,
             Called(w, x), popped' = popped, task' = task,
             wpc' \in [Workers -> {"none", "loop", "lock", "test", "wait", "relock", "pop",
                              "unlock", "work", "callback", "err_callback", "clean", "exit"}],
             \A v \in Workers : v # w => wpc'[v] = wpc[v],
             \/ Holds(w, task[w])' /\ Progress(w, task[w])' /\ freed' = freed
             \/ ~ Holds(w, task[w])' /\ Done(task[w])' /\ freed' = freed \cup {task[w]}
      PROVE  TakenInv'
  <2>1. \A t \in Tasks : t # task[w] => calls'[t] = calls[t] BY <1>0, <1>8 DEF Called
  <2>2. \A t \in Tasks, v \in Workers : v # w => (Holds(v, t)' <=> Holds(v, t))
    BY <1>8 DEF Holds
  <2>3. \A t \in Tasks : /\ Holds(w, t) <=> t = task[w]
                         /\ Holds(w, t)' => t = task[w]
    BY <1>8 DEF Holds
  <2>4. \A t \in Tasks : Taken(t)' <=> Taken(t) BY <1>8 DEF Taken
  <2>5. \A t \in Tasks, u, v \in Workers : Holds(u, t)' /\ Holds(v, t)' => u = v
    BY <1>1, <2>2, <2>3
  <2>6. \A t \in Tasks, v \in Workers : v # w /\ Holds(v, t) => t # task[w] BY <1>1, <2>3
  <2>7. \A t \in Tasks, v \in Workers : v # w /\ Holds(v, t) => Progress(v, t)'
    BY <1>1, <1>8, <2>1, <2>6 DEF Progress
  <2>8. \A t \in Tasks, v \in Workers :
            Holds(v, t)' => t \notin freed' /\ Taken(t)' /\ Progress(v, t)'
    BY <1>1, <1>8, <2>2, <2>3, <2>4, <2>6, <2>7
  <2>9. freed \subseteq Tasks /\ task[w] \notin freed BY <1>1, <1>8 DEF ThreadInv, TypeOK
  <2>10. \A t \in freed' : Taken(t)' /\ Done(t)'
    <3>1. \A t \in freed : Done(t)' BY <1>1, <2>1, <2>9 DEF Done
    <3>2. task[w] \in freed' => Done(task[w])' BY <1>8, <2>9
    <3> QED BY <1>1, <1>8, <2>4, <2>9, <3>1, <3>2
  <2>11. \A t \in Tasks \ freed' : (\A v \in Workers : ~ Holds(v, t)') => calls'[t] = <<>>
    BY <1>1, <1>8, <2>1, <2>2, <2>3
  <2> QED BY <2>5, <2>8, <2>10, <2>11 DEF TakenInv, Taken, Done, Progress, Results
<1>9. ASSUME NEW w \in Workers, WorkWork(w) \/ WorkCallback(w) \/ WorkFree(w) PROVE TakenInv'
  <2>1. /\ Holds(w, task[w]) /\ task[w] \in Tasks /\ Progress(w, task[w])
        /\ popped' = popped /\ task' = task
    BY <1>0, <1>1, <1>9 DEF WorkWork, WorkCallback, WorkFree, Holds
  <2>2. CASE WorkWork(w)
    <3>1. PICK r \in Results : wpc' = [wpc EXCEPT ![w] = r] BY <2>2 DEF WorkWork, Results
    <3>2. calls[task[w]] = <<>> /\ Called(w, "work") /\ freed' = freed
      BY <2>1, <2>2 DEF WorkWork, Progress
    <3>3. calls'[task[w]] = <<"work">> BY <1>0, <2>1, <3>2 DEF Called
    <3>4. Holds(w, task[w])' /\ Progress(w, task[w])'
      BY <1>0, <2>1, <3>1, <3>3 DEF Holds, Progress, Results
    <3> QED BY <1>0, <1>8, <2>1, <3>1, <3>2, <3>4 DEF Callbacks, Results
  <2>3. CASE WorkCallback(w)
    <3>1. wpc[w] \in Results /\ wpc' = [wpc EXCEPT ![w] = "clean"] BY <2>3 DEF WorkCallback, Results
    <3>2. calls[task[w]] = <<"work">> /\ Called(w, wpc[w]) /\ freed' = freed
      BY <2>1, <2>3, <3>1 DEF WorkCallback, Progress
    <3>5. "work" \in Callbacks /\ wpc[w] \in Callbacks BY <3>1 DEF Callbacks, Results
    <3>6. Append(<<"work">>, wpc[w]) = <<"work", wpc[w]>> BY <3>5, AppendShort
    <3>3. calls'[task[w]] = <<"work", wpc[w]>> BY <1>0, <2>1, <3>2, <3>6 DEF Called
    <3>4. Holds(w, task[w])' /\ Progress(w, task[w])'
      BY <1>0, <2>1, <3>1, <3>3 DEF Holds, Progress, Results
    <3> QED BY <1>0, <1>8, <2>1, <3>1, <3>2, <3>4 DEF Callbacks, Results
  <2>4. CASE WorkFree(w)
    <3>1. wpc[w] = "clean" /\ wpc' = [wpc EXCEPT ![w] = "loop"] /\ Called(w, "clean")
          /\ freed' = freed \cup {task[w]}
      BY <2>4 DEF WorkFree
    <3>2. PICK r \in Results : calls[task[w]] = <<"work", r>> BY <2>1, <3>1 DEF Progress
    <3>5. "work" \in Callbacks /\ r \in Callbacks /\ "clean" \in Callbacks
      BY DEF Callbacks, Results
    <3>6. Append(<<"work", r>>, "clean") = <<"work", r, "clean">> BY <3>5, AppendShort
    <3>3. calls'[task[w]] = <<"work", r, "clean">> BY <1>0, <2>1, <3>1, <3>2, <3>6 DEF Called
    <3>4. ~ Holds(w, task[w])' /\ Done(task[w])' BY <1>0, <2>1, <3>1, <3>3 DEF Holds, Done
    <3> QED BY <1>0, <1>8, <2>1, <3>1, <3>4 DEF Callbacks
  <2> QED BY <1>9, <2>2, <2>3, <2>4
<1>10. CASE UNCHANGED vars
  <2>1. UNCHANGED <<popped, calls, freed, task, wpc>> BY <1>10 DEF vars, history, workerVars
  <2> QED BY <1>2, <2>1 DEF Holds
<1> QED BY <1>3, <1>4, <1>5, <1>6, <1>7, <1>9, <1>10 DEF Next, WorkStep

-----------------------------------------------------------------------------
(* Before the first call nothing is linked, held, or called.               *)
LEMMA QueueStart == Init => QueueInv
<1> SUFFICES ASSUME Init PROVE QueueInv
  OBVIOUS
<1>1. ThreadInv BY ThreadStart
<1>2. /\ \A c \in Clients : apc[c] = "idle" /\ arg[c] = <<>>
      /\ \A w \in Workers : wpc[w] = "none"
      /\ \A t \in Tasks : next[t] = NULL /\ calls[t] = <<>>
      /\ added = <<>> /\ popped = <<>> /\ head = NULL /\ tail = NULL /\ freed = {} /\ ~ corrupted
  BY DEF Init
<1>3. ChainInv BY <1>2 DEF ChainInv, Distinct, Apart, Within
<1>4. LockInv BY <1>2 DEF LockInv, InSection
<1>5. ListInv BY <1>2 DEF ListInv, NthAdded
<1>6. OutsideInv BY <1>2 DEF OutsideInv, Fresh
<1>7. TakenInv BY <1>2 DEF TakenInv, Holds
<1> QED BY <1>1, <1>3, <1>4, <1>5, <1>6, <1>7 DEF QueueInv

(* Everything above holds at every step.                                   *)
LEMMA QueueInvariant == Spec => []QueueInv
<1>1. QueueInv /\ [Next]_vars => QueueInv'
  <2> SUFFICES ASSUME QueueInv, [Next]_vars PROVE QueueInv'
    OBVIOUS
  <2>1. ThreadInv' /\ ChainInv' BY ThreadStep, ChainStep DEF QueueInv
  <2>2. ASSUME clean' PROVE LockInv' /\ ListInv' /\ OutsideInv' /\ TakenInv'
    <3>1. clean /\ LockInv' BY <2>2, LockStep DEF QueueInv
    <3> QED BY <3>1, ListStep, OutsideStep, TakenStep DEF QueueInv
  <2> QED BY <2>1, <2>2 DEF QueueInv
<1> QED BY <1>1, QueueStart, PTL DEF Spec

(* Unless async_task_init() interferes with a worker that is there, tasks  *)
(* are taken in the order they were added, none is lost or taken twice, no *)
(* freed task is written to, and whenever nobody is in the critical        *)
(* section the list is exactly what was added and not yet taken.           *)
THEOREM ListIsPendingHolds == Spec => []ListIsPending
<1>1. QueueInv => ListIsPending
  <2> SUFFICES ASSUME QueueInv PROVE ListIsPending
    OBVIOUS
  <2>0. ThreadInv /\ ChainInv BY DEF QueueInv
  <2> DEFINE n == Len(popped)  m == Len(added)
  <2>1. ASSUME clean PROVE ~ corrupted /\ popped = SubSeq(added, 1, Len(popped))
    <3>1. ListInv BY <2>1 DEF QueueInv
    <3>2. popped \in Seq(Tasks) /\ n \in Nat /\ m \in Nat /\ n <= m
          /\ \A i \in 1 .. n : added[i] \in Tasks
      BY <2>0, <3>1, Facts DEF ListInv
    <3>3. /\ SubSeq(added, 1, n) \in Seq(Tasks) /\ Len(SubSeq(added, 1, n)) = n
          /\ \A i \in 1 .. n : SubSeq(added, 1, n)[i] = added[i]
      BY <3>2, SubSeqProperties
    <3>4. \A i \in 1 .. n : popped[i] = SubSeq(added, 1, n)[i] BY <3>1, <3>3 DEF ListInv
    <3>5. popped = SubSeq(added, 1, n) BY <3>2, <3>3, <3>4, SeqEqual
    <3> QED BY <3>1, <3>5 DEF ListInv
  <2>2. ASSUME clean, InSection = {}
        PROVE  /\ (head = NULL) = (Pending = <<>>) /\ (tail = NULL) = (Pending = <<>>)
               /\ Pending # <<>> =>
                    /\ head = Pending[1] /\ tail = Pending[Len(Pending)] /\ next[tail] = NULL
                    /\ \A i \in 1 .. Len(Pending) - 1 : next[Pending[i]] = Pending[i + 1]
                    /\ ToSet(Pending) \cap freed = {}
    <3>1. ListInv /\ TakenInv BY <2>2 DEF QueueInv
    <3>2. /\ n \in Nat /\ m \in Nat /\ n <= m /\ NULL \notin Tasks
          /\ \A i \in 1 .. m : added[i] \in Tasks
          /\ \A i, j \in 1 .. m : added[i] = added[j] => i = j
      BY <2>0, <3>1, Facts DEF ListInv
    <3>3. /\ Pending \in Seq(Tasks) /\ Len(Pending) = m - n
          /\ \A i \in 1 .. m - n : Pending[i] = added[n + i]
      <4>1. n + 1 \in Int /\ m \in Int /\ \A i \in n + 1 .. m : added[i] \in Tasks BY <3>2
      <4>2. /\ SubSeq(added, n + 1, m) \in Seq(Tasks)
            /\ Len(SubSeq(added, n + 1, m)) = IF n + 1 <= m THEN m - (n + 1) + 1 ELSE 0
            /\ \A i \in 1 .. m - (n + 1) + 1 : SubSeq(added, n + 1, m)[i] = added[n + 1 + i - 1]
        BY <4>1, SubSeqProperties
      <4> QED BY <3>2, <4>2 DEF Pending
    <3>4. tail = IF n < m THEN added[m] ELSE NULL
      <4>1. \A c \in Clients : apc[c] # "tail" BY <2>2 DEF InSection
      <4> QED BY <3>1, <4>1 DEF ListInv
    <3>5. head = IF n < m THEN added[n + 1] ELSE NULL BY <3>1, <3>2 DEF ListInv, NthAdded
    <3>6. Pending = <<>> <=> n = m BY <3>2, <3>3, EmptySeq
    <3>7. CASE n = m BY <3>2, <3>4, <3>5, <3>6, <3>7
    <3>8. CASE n < m
      <4>1. head = Pending[1] /\ tail = Pending[Len(Pending)] /\ head # NULL /\ tail # NULL
        <5>1. 1 \in 1 .. m - n /\ m - n \in 1 .. m - n /\ n + (m - n) = m BY <3>2, <3>8
        <5>2. Pending[1] = added[n + 1] /\ Pending[m - n] = added[n + (m - n)] BY <3>3, <5>1
        <5>3. n + 1 \in 1 .. m /\ m \in 1 .. m BY <3>2, <3>8
        <5>4. head = added[n + 1] /\ tail = added[m] BY <3>4, <3>5, <3>8
        <5> QED BY <3>2, <3>3, <5>1, <5>2, <5>3, <5>4
      <4>2. next[tail] = NULL BY <3>1, <3>2, <3>4, <3>8 DEF ListInv, NthAdded
      <4>3. ASSUME NEW i \in 1 .. Len(Pending) - 1 PROVE next[Pending[i]] = Pending[i + 1]
        <5>1. n + i \in n + 1 .. m /\ n + i + 1 \in 1 .. m BY <3>2, <3>3
        <5>2. Pending[i] = added[n + i] /\ Pending[i + 1] = added[n + i + 1] BY <3>2, <3>3
        <5> QED BY <3>1, <5>1, <5>2 DEF ListInv, NthAdded
      <4>4. ToSet(Pending) \cap freed = {}
        <5> SUFFICES ASSUME NEW i \in 1 .. Len(Pending), Pending[i] \in freed PROVE FALSE
          BY <3>3 DEF ToSet
        <5>1. PICK j \in 1 .. n : popped[j] = Pending[i] BY <3>1 DEF TakenInv
        <5>2. added[j] = added[n + i] /\ j \in 1 .. m /\ n + i \in 1 .. m /\ j # n + i
          BY <3>1, <3>2, <3>3, <5>1 DEF ListInv
        <5> QED BY <3>2, <5>2
      <4>5. Pending # <<>> BY <3>2, <3>6, <3>8
      <4> QED BY <4>1, <4>2, <4>3, <4>4, <4>5
    <3> QED BY <3>2, <3>7, <3>8
  <2>3. TypeOK BY <2>0 DEF ThreadInv
  <2> QED BY <2>1, <2>2, <2>3 DEF ListIsPending
<1> QED BY <1>1, QueueInvariant, PTL

(* Every task goes through work, one of the two result callbacks and       *)
(* clean_callback, in that order and once, and is freed only then.         *)
THEOREM CallbacksOnceHolds == Spec => []CallbacksOnce
<1>1. QueueInv => CallbacksOnce
  <2> SUFFICES ASSUME QueueInv, clean, NEW t \in Tasks
               PROVE  /\ Len(calls[t]) <= 3
                      /\ \A i \in DOMAIN calls[t] :
                          calls[t][i] \in << {"work"}, {"callback", "err_callback"}, {"clean"} >>[i]
                      /\ t \in freed <=> Len(calls[t]) = 3
    BY DEF CallbacksOnce
  <2>1. TakenInv BY DEF QueueInv
  <2>2. CASE t \in freed
    <3>1. PICK r \in Results : calls[t] = <<"work", r, "clean">>
      BY <2>1, <2>2 DEF TakenInv, Results
    <3> QED BY <2>2, <3>1 DEF Results
  <2>3. CASE t \notin freed
    <3>1. \/ calls[t] = <<>> \/ calls[t] = <<"work">>
          \/ \E r \in Results : calls[t] = <<"work", r>>
      <4>1. CASE \E w \in Workers : Holds(w, t) BY <2>1, <4>1 DEF TakenInv, Holds, Results
      <4>2. CASE \A w \in Workers : ~ Holds(w, t) BY <2>1, <2>3, <4>2 DEF TakenInv
      <4> QED BY <4>1, <4>2
    <3>2. CASE calls[t] = <<>> BY <2>3, <3>2
    <3>3. CASE calls[t] = <<"work">> BY <2>3, <3>3
    <3>4. ASSUME NEW r \in Results, calls[t] = <<"work", r>>
          PROVE  /\ Len(calls[t]) = 2
                 /\ \A i \in DOMAIN calls[t] :
                     calls[t][i] \in << {"work"}, {"callback", "err_callback"}, {"clean"} >>[i]
      BY <3>4 DEF Results
    <3> QED BY <2>3, <3>1, <3>2, <3>3, <3>4
  <2> QED BY <2>2, <2>3
<1> QED BY <1>1, QueueInvariant, PTL
=============================================================================
