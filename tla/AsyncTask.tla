----------------------------- MODULE AsyncTask -----------------------------
(***************************************************************************)
(* The task queue of async_task/async_task.c: client threads append chains *)
(* of tasks to a linked list under a mutex, detached worker threads pop    *)
(* them and run their callbacks.  async_task_init() creates the first      *)
(* worker before it initialises the mutex and the condition variable, and  *)
(* gives up half way when a thread cannot be created.                      *)
(***************************************************************************)
EXTENDS Integers, FiniteSets, TLC, SequencesExt

CONSTANTS
    Clients,            \* threads that call async_task_add()
    Tasks,
    NULL,
    TASK_THREAD_COUNT,
    MaxThreads,         \* bound: threads ever created
    MaxInits,           \* bound: calls of async_task_init()
    MaxChain            \* bound: tasks in one chain

ASSUME ThreadsAssumption ==
    /\ TASK_THREAD_COUNT \in Nat \ {0}
    /\ MaxThreads \in Nat /\ MaxInits \in Nat /\ MaxChain \in Nat
ASSUME NullAssumption ==
    /\ NULL \notin Tasks \cup Clients \cup (1 .. MaxThreads)
    /\ Clients \cap (1 .. MaxThreads) = {}

VARIABLES
    s_task_running, s_task_threads,
    head, tail, next,   \* task_queue->head, ->tail and every task's ->next
    owner,              \* who holds the mutex, or NULL
    waiters,            \* workers a signal can wake
    ipc, inits,         \* async_task_init(): where it is, how often called
    apc, arg,           \* async_task_add(): where each client is, its chain
    wpc, task,          \* each worker: where it is, its local "task"
    created,            \* workers created so far
    freed,              \* tasks given to free()
    calls,              \* ghost: the callbacks run on each task, in order
    added, popped,      \* ghost: tasks linked, and taken, in order
    clean,              \* ghost: no init ever hit a held mutex or a waiter
    corrupted           \* a freed task was written to: anything may happen

queue == <<head, tail, next>>
sync == <<owner, waiters>>
status == <<s_task_running, s_task_threads>>
initVars == <<ipc, inits, created>>
clientVars == <<apc, arg>>
workerVars == <<wpc, task>>
history == <<freed, calls, added, popped>>
flags == <<clean, corrupted>>
vars == <<queue, sync, status, initVars, clientVars, workerVars, history, flags>>

Workers == 1 .. MaxThreads

\* The chains a client can pass: tasks it owns, linked through ->next.
Chains == {c \in UNION {[1 .. n -> Tasks] : n \in 1 .. MaxChain} :
              \A i, j \in DOMAIN c : i # j => c[i] # c[j]}

Init ==
    /\ s_task_running = FALSE /\ s_task_threads = 0
    /\ head = NULL /\ tail = NULL
    /\ next = [t \in Tasks |-> NULL]
    /\ owner = NULL /\ waiters = {}      \* zeroed statics work as initialised
    /\ ipc = "idle" /\ inits = 0 /\ created = 0
    /\ apc = [c \in Clients |-> "idle"]
    /\ arg = [c \in Clients |-> <<>>]
    /\ wpc = [w \in Workers |-> "none"]
    /\ task = [w \in Workers |-> NULL]
    /\ freed = {}
    /\ calls = [t \in Tasks |-> <<>>]
    /\ added = <<>> /\ popped = <<>>
    /\ clean = TRUE /\ corrupted = FALSE

-----------------------------------------------------------------------------
(* async_task_init()                                                       *)

InitBegin ==
    /\ ipc = "idle" /\ inits < MaxInits
    /\ inits' = inits + 1
    /\ s_task_running' = TRUE
    /\ ipc' = "create"
    /\ UNCHANGED <<queue, sync, s_task_threads, created, clientVars, workerVars, history, flags>>

InitDone ==
    /\ ipc = "create" /\ s_task_threads >= TASK_THREAD_COUNT
    /\ ipc' = "idle"
    /\ UNCHANGED <<queue, sync, status, inits, created, clientVars, workerVars, history, flags>>

\* pthread_create(): the thread runs from here on.
InitCreate ==
    /\ ipc = "create" /\ s_task_threads < TASK_THREAD_COUNT
    /\ created < MaxThreads
    /\ created' = created + 1
    /\ wpc' = [wpc EXCEPT ![created'] = "loop"]
    /\ ipc' = IF s_task_threads = 0 THEN "mutex" ELSE "count"
    /\ UNCHANGED <<queue, sync, status, inits, clientVars, task, history, flags>>

\* One of the three pthread calls fails.  Workers that exist are left alone,
\* and both return values of the ?: are negative once the count is 0.
InitFail ==
    /\ ipc = "create" /\ s_task_threads < TASK_THREAD_COUNT
    /\ s_task_running' = FALSE
    /\ s_task_threads' = 0
    /\ ipc' = "idle"
    /\ UNCHANGED <<queue, sync, inits, created, clientVars, workerVars, history, flags>>

\* pthread_mutex_init() of a held mutex unlocks it.
InitMutex ==
    /\ ipc = "mutex"
    /\ owner' = NULL
    /\ clean' = (clean /\ owner = NULL)
    /\ ipc' = "cond"
    /\ UNCHANGED <<queue, waiters, status, inits, created, clientVars, workerVars, history, corrupted>>

\* pthread_cond_init() forgets the threads that wait.
InitCond ==
    /\ ipc = "cond"
    /\ waiters' = {}
    /\ clean' = (clean /\ waiters = {})
    /\ ipc' = "count"
    /\ UNCHANGED <<queue, owner, status, inits, created, clientVars, workerVars, history, corrupted>>

InitCount ==
    /\ ipc = "count"
    /\ s_task_threads' = s_task_threads + 1
    /\ ipc' = "create"
    /\ UNCHANGED <<queue, sync, s_task_running, inits, created, clientVars, workerVars, history, flags>>

InitStep == InitDone \/ InitCreate \/ InitFail \/ InitMutex \/ InitCond \/ InitCount

-----------------------------------------------------------------------------
(* async_task_add()                                                        *)

\* The tasks a client may still pass: in no queue and in nobody's hands.
Fresh == {t \in Tasks :
            /\ t \notin ToSet(added)
            /\ \A c \in Clients : t \notin ToSet(arg[c])}

\* The ->next pointers once the caller has chained these tasks.
Linked(chain) ==
    LET Inner == 1 .. Len(chain) - 1 IN
    [t \in Tasks |-> IF \E i \in Inner : chain[i] = t
                     THEN chain[(CHOOSE i \in Inner : chain[i] = t) + 1]
                     ELSE next[t]]

AddBegin(c) ==
    /\ apc[c] = "idle"
    /\ s_task_running /\ s_task_threads > 0
    /\ \E chain \in Chains :
        /\ ToSet(chain) \subseteq Fresh
        /\ arg' = [arg EXCEPT ![c] = chain]
        /\ next' = Linked(chain)
    /\ apc' = [apc EXCEPT ![c] = "lock"]
    /\ UNCHANGED <<head, tail, sync, status, initVars, workerVars, history, flags>>

AddLock(c) ==
    /\ apc[c] = "lock" /\ owner = NULL
    /\ owner' = c
    /\ apc' = [apc EXCEPT ![c] = "link"]
    /\ UNCHANGED <<queue, waiters, status, initVars, arg, workerVars, history, flags>>

\* Defect: the new chain always becomes the head of the list.
AddLinkAtHead(c) ==
    /\ apc[c] = "link"
    /\ head' = arg[c][1]
    /\ added' = added \o arg[c]
    /\ apc' = [apc EXCEPT ![c] = "tail"]
    /\ UNCHANGED <<next, tail, sync, status, initVars, arg, workerVars, freed, calls, popped, flags>>

AddLink(c) ==
    /\ apc[c] = "link"
    /\ IF tail # NULL
       THEN /\ next' = [next EXCEPT ![tail] = arg[c][1]]
            /\ corrupted' = (corrupted \/ tail \in freed)
            /\ UNCHANGED head
       ELSE /\ head' = arg[c][1]
            /\ UNCHANGED <<next, corrupted>>
    /\ added' = added \o arg[c]
    /\ apc' = [apc EXCEPT ![c] = "tail"]
    /\ UNCHANGED <<tail, sync, status, initVars, arg, workerVars, freed, calls, popped, clean>>

\* Defect: nobody is signalled.
AddTailSilent(c) ==
    /\ apc[c] = "tail"
    /\ tail' = arg[c][Len(arg[c])]
    /\ apc' = [apc EXCEPT ![c] = "unlock"]
    /\ UNCHANGED <<head, next, sync, status, initVars, arg, workerVars, history, flags>>

\* The chain is walked to its last task, and one signal is sent for all of it.
AddTail(c) ==
    /\ apc[c] = "tail"
    /\ tail' = arg[c][Len(arg[c])]
    /\ \/ /\ waiters = {}
          /\ UNCHANGED <<waiters, wpc>>
       \/ \E w \in waiters :
          /\ waiters' = waiters \ {w}
          /\ wpc' = [wpc EXCEPT ![w] = "relock"]
    /\ apc' = [apc EXCEPT ![c] = "unlock"]
    /\ UNCHANGED <<head, next, owner, status, initVars, arg, task, history, flags>>

AddUnlock(c) ==
    /\ apc[c] = "unlock"
    /\ owner' = NULL
    /\ arg' = [arg EXCEPT ![c] = <<>>]
    /\ apc' = [apc EXCEPT ![c] = "idle"]
    /\ UNCHANGED <<queue, waiters, status, initVars, workerVars, history, flags>>

AddStep(c) == AddLock(c) \/ AddLink(c) \/ AddTail(c) \/ AddUnlock(c)

-----------------------------------------------------------------------------
(* task_work_loop()                                                        *)

WorkLoop(w) ==
    /\ wpc[w] = "loop"
    /\ wpc' = [wpc EXCEPT ![w] = IF s_task_running THEN "lock" ELSE "exit"]
    /\ task' = [task EXCEPT ![w] = NULL]
    /\ UNCHANGED <<queue, sync, status, initVars, clientVars, history, flags>>

WorkLock(w) ==
    /\ wpc[w] \in {"lock", "relock"} /\ owner = NULL
    /\ owner' = w
    /\ wpc' = [wpc EXCEPT ![w] = "test"]
    /\ UNCHANGED <<queue, waiters, status, initVars, clientVars, task, history, flags>>

WorkWait(w) ==
    /\ wpc[w] = "test"
    /\ s_task_running /\ head = NULL
    /\ owner' = NULL
    /\ waiters' = waiters \cup {w}
    /\ wpc' = [wpc EXCEPT ![w] = "wait"]
    /\ UNCHANGED <<queue, status, initVars, clientVars, task, history, flags>>

WorkLeaveWait(w) ==
    /\ wpc[w] = "test"
    /\ ~s_task_running \/ head # NULL
    /\ wpc' = [wpc EXCEPT ![w] = IF head = NULL THEN "unlock" ELSE "pop"]
    /\ UNCHANGED <<queue, sync, status, initVars, clientVars, task, history, flags>>

\* A wait may end without a signal.
SpuriousWake(w) ==
    /\ wpc[w] = "wait"
    /\ waiters' = waiters \ {w}
    /\ wpc' = [wpc EXCEPT ![w] = "relock"]
    /\ UNCHANGED <<queue, owner, status, initVars, clientVars, task, history, flags>>

\* Defect: the tail still points to the last task once it is taken.
WorkPopKeepsTail(w) ==
    /\ wpc[w] = "pop" /\ head # NULL
    /\ task' = [task EXCEPT ![w] = head]
    /\ head' = next[head]
    /\ next' = [next EXCEPT ![head] = NULL]
    /\ popped' = Append(popped, head)
    /\ wpc' = [wpc EXCEPT ![w] = "unlock"]
    /\ UNCHANGED <<tail, sync, status, initVars, clientVars, freed, calls, added, flags>>

WorkPop(w) ==
    /\ wpc[w] = "pop"
    /\ head # NULL     \* another thread inside the section would be undefined
    /\ task' = [task EXCEPT ![w] = head]
    /\ tail' = IF tail = head THEN NULL ELSE tail
    /\ head' = next[head]
    /\ next' = [next EXCEPT ![head] = NULL]
    /\ popped' = Append(popped, head)
    /\ wpc' = [wpc EXCEPT ![w] = "unlock"]
    /\ UNCHANGED <<sync, status, initVars, clientVars, freed, calls, added, flags>>

WorkUnlock(w) ==
    /\ wpc[w] = "unlock"
    /\ owner' = NULL
    /\ wpc' = [wpc EXCEPT ![w] = IF task[w] = NULL THEN "loop" ELSE "work"]
    /\ UNCHANGED <<queue, waiters, status, initVars, clientVars, task, history, flags>>

Called(w, callback) == calls' = [calls EXCEPT ![task[w]] = Append(@, callback)]

\* Defect: a failed task is freed without its err_callback.
WorkWorkSkips(w) ==
    /\ wpc[w] = "work"
    /\ Called(w, "work")
    /\ \E outcome \in {"callback", "clean"} : wpc' = [wpc EXCEPT ![w] = outcome]
    /\ UNCHANGED <<queue, sync, status, initVars, clientVars, task, freed, added, popped, flags>>

\* (*task->work)(task): the sign of the result selects the next callback.
WorkWork(w) ==
    /\ wpc[w] = "work"
    /\ Called(w, "work")
    /\ \E outcome \in {"callback", "err_callback"} : wpc' = [wpc EXCEPT ![w] = outcome]
    /\ UNCHANGED <<queue, sync, status, initVars, clientVars, task, freed, added, popped, flags>>

WorkCallback(w) ==
    /\ wpc[w] \in {"callback", "err_callback"}
    /\ Called(w, wpc[w])
    /\ wpc' = [wpc EXCEPT ![w] = "clean"]
    /\ UNCHANGED <<queue, sync, status, initVars, clientVars, task, freed, added, popped, flags>>

\* clean_callback, then input, output and the task itself are freed.
WorkFree(w) ==
    /\ wpc[w] = "clean"
    /\ Called(w, "clean")
    /\ corrupted' = (corrupted \/ task[w] \in freed)
    /\ freed' = freed \cup {task[w]}
    /\ wpc' = [wpc EXCEPT ![w] = "loop"]
    /\ UNCHANGED <<queue, sync, status, initVars, clientVars, task, added, popped, clean>>

WorkStep(w) ==
    \/ WorkLoop(w) \/ WorkLock(w) \/ WorkWait(w) \/ WorkLeaveWait(w) \/ WorkPop(w)
    \/ WorkUnlock(w) \/ WorkWork(w) \/ WorkCallback(w) \/ WorkFree(w)

-----------------------------------------------------------------------------
Next ==
    /\ ~corrupted
    /\ \/ InitBegin \/ InitStep
       \/ \E c \in Clients : AddBegin(c) \/ AddStep(c)
       \/ \E w \in Workers : WorkStep(w) \/ SpuriousWake(w)

\* Threads that have begun something go on; nobody has to call, and the
\* system need not let a creation of a thread fail.
Fairness ==
    /\ WF_vars(~corrupted /\ InitStep)
    /\ \A c \in Clients : WF_vars(~corrupted /\ AddStep(c))
    /\ \A w \in Workers : WF_vars(~corrupted /\ WorkStep(w))

Spec == Init /\ [][Next]_vars /\ Fairness

-----------------------------------------------------------------------------
TypeOK ==
    /\ s_task_running \in BOOLEAN /\ s_task_threads \in 0 .. TASK_THREAD_COUNT
    /\ head \in Tasks \cup {NULL} /\ tail \in Tasks \cup {NULL}
    /\ next \in [Tasks -> Tasks \cup {NULL}]
    /\ owner \in Clients \cup Workers \cup {NULL} /\ waiters \subseteq Workers
    /\ apc \in [Clients -> {"idle", "lock", "link", "tail", "unlock"}]
    /\ wpc \in [Workers -> {"none", "loop", "lock", "test", "wait", "relock", "pop",
                            "unlock", "work", "callback", "err_callback", "clean", "exit"}]
    /\ task \in [Workers -> Tasks \cup {NULL}]
    /\ freed \subseteq Tasks

InSection ==
    {c \in Clients : apc[c] \in {"link", "tail", "unlock"}}
    \cup {w \in Workers : wpc[w] \in {"test", "pop", "unlock"}}

\* The tasks linked and not yet popped, oldest first.
Pending == SubSeq(added, Len(popped) + 1, Len(added))

(* Tasks are taken in the order they were added, a chain as one block, and *)
(* none is lost, duplicated or taken twice: outside the critical section   *)
(* the linked list is exactly the pending tasks: head and tail are its     *)
(* ends (both NULL when it is empty), ->next follows it, and none of its   *)
(* tasks was freed.  No freed task is ever written to.  (All unless init   *)
(* re-initialised the mutex or the condition while it was in use.)         *)
ListIsPending ==
    /\ TypeOK
    /\ clean => ~corrupted /\ popped = SubSeq(added, 1, Len(popped))
    /\ clean /\ InSection = {} =>
        /\ (head = NULL) = (Pending = <<>>) /\ (tail = NULL) = (Pending = <<>>)
        /\ Pending # <<>> =>
            /\ head = Pending[1] /\ tail = Pending[Len(Pending)] /\ next[tail] = NULL
            /\ \A i \in 1 .. Len(Pending) - 1 : next[Pending[i]] = Pending[i + 1]
            /\ ToSet(Pending) \cap freed = {}

(* Every task goes through work, exactly one of the two result callbacks   *)
(* and clean_callback, in that order and once, and is freed only then.     *)
CallbacksOnce ==
    clean => \A t \in Tasks :
        /\ Len(calls[t]) <= 3
        /\ \A i \in DOMAIN calls[t] :
            calls[t][i] \in << {"work"}, {"callback", "err_callback"}, {"clean"} >>[i]
        /\ t \in freed <=> Len(calls[t]) = 3

(* A task that was added is run and freed in the end, unless a creation of *)
(* a thread fails or init interferes with a worker that is already there.  *)
AddedTasksComplete ==
    \A t \in Tasks :
        t \in ToSet(added) ~> (t \in freed \/ ~s_task_running \/ ~clean)
=============================================================================
