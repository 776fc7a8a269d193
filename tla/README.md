# Verification of utility-codes

utility-codes is a collection of independent C, C++ and shell utilities. This
directory holds TLA+ models of those with logic worth checking, the TLC
configurations that check small instances, and theorems about them whose proofs
TLAPS checks. Source paths below are relative to `src/`.

To check a module: `tlc -config MCX.cfg MCX`. To check the proofs of a component:
`tlapm XProofs.tla` for the module in section 2, and `tlapm NumberLemmas.tla` for the
arithmetic they share.

## 1. Inventory

| Component | State | Operations | What is hard | What makes it correct |
|---|---|---|---|---|
| `spsc_queue/spsc_queue.hpp` | slots with an atomic `ready` flag and a value, two published indices | produce, try_produce, consume, try_consume, visit, clear, size, empty, full | two threads without a lock; the indices are published after `ready`, so each thread sees the other's index late; wrap-around | a race-free bounded FIFO; an operation is refused only with cause; how far size() can be trusted |
| `db_service/db_service.hpp` | a queue of messages, `running_`, a worker thread | asyncDatabaseInitialize/Upgrade/Cleanup/Finalize, destructor; the worker's loop and handlers | the worker leaves on `!running_ && empty()`, and empty() can be late; sessions reuse the queue; the destructor | messages handled in order, finalize returns when all are, the worker ends |
| `uid_allocator/bitmap_uid_allocator.hpp` | bitmap words, a cursor (`index_`, `bit_`), `count_` | allocate, release, clear | 32-bit arithmetic; a partly used last word; a cursor one past the word | unique ids of the range, refused only when all are held; in the cyclic mode the next free one |
| `async_task/async_task.c` | a linked list with head and tail, mutex, condition, worker threads | async_task_init, async_task_add, the worker loop | init starts a worker before it initialises the mutex, and may fail half way; one signal per chain | every task runs once, in order, with its callbacks, and is freed last; no use after free |
| `lru_cache/lru_cache.hpp` | a list and a map of iterators into it | find, emplace, at, clear | iterators must not dangle | map and list agree; the entry unused for longest is evicted |
| `evaluate/expression_logic_evaluate.cpp` | one cache of compiled patterns (an `LRUCache`), static in its function and shared by all threads without a lock | evaluate_logic_expression, regex_match_cached | text is cut at operators outside brackets; a match that throws; two threads at once | expressions have their usual meaning; answers do not depend on the history of the cache |
| `stuck_checker/stuck_check.c` | shared memory: pid, mark, count, a record per thread, the stream's deadline | open, in, out, delay reset and clear in the application; the check loop of the watchdog | two processes, no lock, records read, and cleared by a starting watchdog, field by field; either process restarts | the watchdog kills for a late action only, and does kill for one |
| `capnp_demo/v1`, `capnp_demo/v2` | the Core's map of registered Exts, each Ext's running flag | register, unregister, connectToExt, ping, shutdown, the consoles of Core and Exts | handlers interleave at every await (v2); a console thread that blocks (v1); either end dies while the other waits | a registered Ext stays reachable; every command and registration ends |
| `network_check/network_check.c` | for each call, a `param` on the caller's stack with the result and the pid of the command; a pipe | get_*, parse_domain, ping_server, test_download, each a thread the caller polls, kills by pid and joins | a kill that reaches only the shell; write ends of pipes inherited by other commands; a failed fork whose -1 reaches kill() | results are final and true; only the check's own process is killed; a timeout ends the check |
| `popen_ex/popen_ex.cpp` | none of its own: the caller holds a pid (POSIX) or the value of a handle (Windows), and a pipe | goofer_popen, palive, pkill, pclose | pids and handles that are given away again; ends of pipes that later children inherit | a number names the child as long as the caller may use it; a child sees that its pipe is closed |
| `sqlite/sqlite.hpp` | a connection, two caches of statements by text, in each statement the index of the next parameter | init, exit, execute, begin/commit/rollback/end, create and get of statements, set, read, write, reset, clear | calls in any order; statements the caller keeps; another process that locks the file | statements belong to the open connection; what was reported as done is in the file; exit frees it |
| `directory_watcher/directory_watcher.cpp` | two maps between watch descriptors and directory names; the events read and not yet handled | init (scan and watch), exit, the thread that follows the events | the tree changes while it is scanned and while events wait; a name means another directory by the time it is used | every directory seen is watched, under its present name; file events are reported under a true path |
| `shell_daemon/*.sh` | the processes of daemons and servers | start, stop, restart, the daemon's loop | restart runs stop and start concurrently; several daemons; a process that is stopped | what stop.sh leaves behind; a daemon keeps a server up |
| `oss_client/oss_client.cpp` | none of its own; objects in a store others write to | listing, creation of a directory, uploads | pages of a listing that is changing; requests that fail before or after they were carried out | a listing is complete; a creation destroys nothing; a path means one object |
| `algorithm/combination.cpp` | positions chosen, next number | enumeration of combinations | two steps back at once | every choice once, in order, and an end |
| `os_system`, `dos_sample`, `shell_sample`, `cmake_sample` | none | single calls of operating-system interfaces, snippets | nothing | not to be modelled |

The utilities interact in two places. `DBServiceBase` owns a
`UniquePtrSPSCQueue` and is its only producer (the client's calls) and only
consumer (the worker). `regex_match_cached()` keeps its compiled patterns in an
`LRUCache`. The models follow: `DbService` EXTENDS `SpscQueue` and schedules its
actions, `RegexCache` EXTENDS `LruCache` and uses its operations.

## 2. Modules

| Module | Models | Checked through |
|---|---|---|
| `SpscQueue` | every load and store of the queue | `MCDbService` |
| `BoundedFifo` | what a queue promises (abstract) | refined by `SpscQueue` |
| `DbService` | sessions of the service, over `SpscQueue` | `MCDbService` |
| `UidAllocator` | the bitmap allocator | `MCUtilities` |
| `UidPool` | what an allocator of ids promises (abstract) | refined by `UidAllocator` |
| `AsyncTask` | the task list, its clients, its workers, init | `MCAsyncTask`, `MCWorkers` |
| `LruCache` | the cache | `MCUtilities` |
| `RegexCache` | the pattern cache, over `LruCache` | `MCUtilities` |
| `LogicExpression` | the evaluator, and the language it should evaluate | `MCUtilities` |
| `StuckChecker` | application and watchdog over their shared memory | `MCStuckChecker` |
| `CapnpRegistry` | Core and Exts of both versions | `MCCapnpRegistry` |
| `NetworkCheck` | callers, check threads, and the commands they fork | `MCNetworkCheck` |
| `DirectoryWatcher` | the Linux watcher, inotify and a changing tree | `MCDirectoryWatcher` |
| `SqliteDb` | connections, statements and transactions, against SQLite's locks | `MCSqliteDb` |
| `ProcessHandle` | children, their numbers and pipes, on POSIX and Windows | `MCUtilities` |
| `SchedulerDaemon` | daemons, servers and the scripts | `MCWorkers` |
| `OssClient` | the object store's client among others | `MCUtilities` |
| `Combination` | the enumeration of combinations | `MCUtilities` |
| `NumberLemmas` | lemmas about `%` and about least elements | TLAPS |
| `DbServiceProofs` | theorems about `SpscQueue` and `DbService` | TLAPS |
| `UtilityProofs` | theorems about `LruCache`, `RegexCache`, `UidAllocator`, `Combination` and `OssClient` | TLAPS |
| `StorageProofs` | theorems about `SqliteDb` and `DirectoryWatcher` | TLAPS |
| `AsyncTaskProofs`, `StuckCheckerProofs`, `CapnpRegistryProofs` | theorems about the module of that name | TLAPS |
| `ProcessProofs` | theorems about `NetworkCheck`, `ProcessHandle` and `SchedulerDaemon` | TLAPS |

`MCDbService`, `MCUtilities` and `MCWorkers` each check several components in one
run. Their variable `part` says which one takes the steps of an execution; the
others stay in an initial state in which their fairness asks for nothing. Every
behaviour of each component is a behaviour of the run, up to the names of calls
that are alike (`InTurn` in `MCUtilities`), and no others are.

Variables and actions carry the names of the source where they can. Operators
whose comment begins with "Defect" are deliberately wrong variants of the
definition that follows them; they show that a property can fail.

### SpscQueue

State: `ready[i]`, `value[i]`, `writer_idx`, `reader_idx`, and a program counter
for each thread. One action is one atomic access: `PFindsRoom`/`PFindsFull` is
the acquire load of `ready`, `PStoreValue`, `PStoreReady`, `PStoreIdx` the three
stores that follow, and the consumer's actions mirror them. `try_` operations
give up where the others wait and look again. `clear()` loops on empty() and
consume(); the visiting and converting operations are consume operations that
pass the item on. size(), full() and empty() are one action: each loads two
indices, and a thread's own index does not change meanwhile. Items are the
numbers 1, 2, ...; a moved-from `unique_ptr` leaves `Null`. Release/acquire
order makes the value of a slot visible with its flag, so a sequentially
consistent interleaving is faithful as long as the value is never accessed by
both at once, and that is `NoDataRace`. Ghosts `produced` and `consumed` count
the stores to `ready`. `IndexMod` stands for 2^64.

### DbService

The client's calls set `running_`, spawn the thread, produce messages and join;
`WorkerLoop` is the test of `running_ || !empty()`, `WorkerHandle` the handler.
A finalize message sets `running_` false before the worker looks at the queue
again, and `writer_idx_` of that very message may not be published yet: empty()
then answers "no" (0 - 1 in a size_t) and the worker waits for a message nobody
will send, with the client waiting in join(). `JoinReturnsUnlessTrapped` says that this
is the only way into that state, and that join() returns otherwise. The destructor of a service that still runs calls handlers
that are pure virtual by then; the model ends there (`crashed`).

### UidAllocator

The array of words is the set of positions whose bit is set. `AllocateInWord` is
the loop over the rest of the current word, `AllocateByScan` the loop over the
words, `Get` the 32-bit addition. `CountExact` also says that no unused bit of the
last word is ever set. The template parameter CYCLIC is a variable
that is chosen at the start and never changes, so that one run takes both. The
pool it implements (`UidPool`) knows nothing of words: an id that nobody holds,
in the cyclic mode the next one going round, and failure only when all are held.

Both properties need more of the range than `static_assert(MIN_UID < MAX_UID)`
(line 11). The unused bits of the last word stand for ids above MAX_UID; if the
first of them wraps around to 0 in 32 bits it passes the comparison with MAX_UID and
is handed out. Both searches stop at the first id above MAX_UID, so that it does
not matter whether the later ones wrap: what is needed is that there are no unused
bits, or MAX_UID is not the limit itself, 2^32 - 1 (and that `UID_SLOTS` does not
overflow). The run is as close to that as it can be, with ids 8..14 and a last
unused bit that wraps to 0; 9..15, one id further, hands out 0, and 10..15,
without unused bits, is right again.

### AsyncTask

`InitCreate`, `InitMutex`, `InitCond`, `InitCount` follow `async_task_init()`,
which starts the first worker before the mutex and condition exist (zeroed
statics, which work as initialised ones on Linux), and `InitFail` the three early
returns. `clean` turns false when init re-initialises a mutex that is held or a
condition somebody waits on; what follows is undefined, and the properties
are stated for executions where it did not happen. `SpuriousWake` is the wake-up
without a signal that POSIX allows. Each worker runs work, then callback or
err_callback, then clean_callback, each an action of its own.

### LruCache, RegexCache, LogicExpression

List nodes have an identity, so that an iterator in the map can dangle.
`find()` does not refresh an entry, unlike `at()`; the header introduces the class
as "Least Recently Used Cache" (`lru_cache/lru_cache.hpp:10`), and what it keeps
are the entries stored or read with `at()` last (`KeepsMostRecent`). The pattern
cache only uses `find()`, so what it drops is the pattern that entered first, however
often it is asked for.

In `regex_match_cached()` the call that compiles a pattern also matches it inside
the `try`, and the handler stores "invalid": a pattern whose first match throws
is answered "false" from then on (the exception in `AnswersAreMatches`), while a
throw on a later call leaves the function. The cache belongs to the function and not
to a thread (line 16): two evaluations at once would race in its list and map. The
model is of one thread at a time, which is all that the source gives a meaning to.

The evaluator is a set of operators on sequences of tokens. Its run builds trees
of comparisons step by step, writes them as text in several ways and compares
`Evaluate` of the text to the meaning of the tree. An operator inside a quoted
literal is outside the language: the code would cut there.

### StuckChecker

Each store to the shared memory and each field the watchdog copies is an action.
The application is one process at a time with several threads, each with its
record; the watchdog scans the pid, the mark, the deadline, and the records.
Processes end at any point and are started again with a new pid; so is the
watchdog, which then clears the records field by field (`WipeMaxTime`, `WipeCheckIn`,
`WipeCheckOut`) while the threads go on. The stores of `open_stuck_checker()` are
steps as well, but for its own clearing of the records: no thread runs yet, and
the watchdog reads them under a pid that has ended.

`KilledForLateAction` excepts two races of the code. Writes to a record between the
watchdog's first read and its kill set `moved`: a copy torn that way can mix two
actions and be judged late although neither is, and an action may end after its
copy; records of dead processes count among those. And an action that ends after
the wipe of its `check_in` and before that of its `check_out` leaves a record that
looks open (`torn`), with its old start, until the next action of that thread has
begun: the watchdog kills the process over it. Of no other wipe is that true, which is
what the property says. `StuckIsKilled` promises nothing to an action whose
timeout or start was wiped; its run has one watchdog. The clock is one counter, read
by both processes.

### CapnpRegistry

The variable `version` is chosen at the start. In version 2 both processes run
one event loop, so handlers are atomic between awaits (`capnp_demo/v2` README,
"threading model"). `register_()` looks the id up (`RegisterChecked`), awaits the
connection, and then stores the entry (`RegisterConnected`) without looking again:
two registrations of one id can both succeed, against "Check if already
registered" (`core.cpp:60`). Console commands of the Core await the Ext's answer;
a shutdown then erases by id. Version 1 stores in one step (`Register`), has no
console in the Core, and its Ext serves in one thread while the console waits
for answers in another.

The console of an Ext (`call`) asks the Core for another Ext and calls that
through the Core: `ExtAsks`, `CoreConnects`, `TargetAnswers`, `ExtCallDone`,
`ExtCallFailed`. Exts may ask each other, in version 1 with both threads blocked
in wait(). Any process may end at any point; calls to it, or over an entry that
the Core drops, then fail. In version 2 `ping` has an error handler for
the call to the Core but none for the call to the Ext, so a ping of an Ext that
ends takes the Ext that asked with it, against "returns promise of: true to
continue, false to quit" (`v2/src/ext.cpp:250`). `OnlyQuitEnds` asks this of pings of
another id while the Core and the link to it are alive, as an Ext that loses the
Core ends in any case (`onDisconnect()`). In the counterexample of the run
`registry_ping` one Ext registers and quits, which leaves its entry in the map, and
another one, with an id of its own, pings it and ends, with the Core alive.

`RegistrationsAreTrue` relates what an Ext was told to the map. `EntriesGivenUp`
lists all ways to lose an entry: the unregister() of version 1, an accepted shutdown,
and the two races of version 2 on one id. An Ext of version 2 that ends keeps its
entry, and its id is never free again.

Version 1 documents "| `quit` | Exit |" (`v1/README.md:124`), but after quit the
client thread ends and main() waits for NEVER_DONE (`v1/src/ext.cpp:471`): the
Ext, then in the phase "parted", serves on until it is killed. The same holds for
one that is refused.

### NetworkCheck

Each call is a caller (`cpc`), a thread (`tpc`) and perhaps a command. The caller
looks at the result, then at the child and the time, and sleeps (`PollOver`,
`PollPending`, `PollSleep`), kills (`Abort`), and joins; the thread opens a pipe,
forks, stores the pid, closes its write end and reads lines to the end. The
source's six commands differ in text only; what matters is whether the process
that was forked is the command itself or a bash that waits for the processes of
a pipeline. Every command inherits the write ends the process has open in the
moment of the fork (`held`).

Pids are numbers that the system gives to the children of checks and to other
processes (`holder`), which come and go. `Abort` is the test of `child_pid`, `Kill` the
call, later, with whatever `child_pid` is by then: it reaches the holder of that
pid, or, for 0 and -1, everybody (`Reached`). `KillsOnlyOwn` says that this is never
anybody but the child of that check, on the way from fork() to the store of the pid
and from the end of the output to the store of the result. The pid of a dead child
stays a zombie, as nobody waits for it; a program that reaps children or ignores
SIGCHLD gives it away while the check may still signal it, and the property would
not hold. Failure of fork() is looked for as `cpid < -1`, so that -1 becomes
`child_pid` and a timeout calls kill(-1): the property excepts the check whose own
fork made no process, and no other.

`ReturnsUnlessHeldUp` names the two ways in which
a timeout does not end a check: helpers of its own pipeline that outlive bash, and a
command of another check that holds its write end. The test of the time is a
choice; a check without a command is never given up, as `child_pid` stays 0.

### DirectoryWatcher

Directories have an identity and a path; `Mkdir`, `Rmdir`, `Rename` and
`FileChange` change the tree at any moment and queue the events inotify would.
`InitScan` and `InitWatch` are the two halves of a step of `init()` (what is
created between the two is missed; `seen` does not promise it), `AppendWatch` and
`RemoveDescription`/`RemoveDirectory` the functions on the maps, `HandleSelf`,
`HandleMovedFrom`, `HandleEntered` and `HandleFile` the branches of the
event loop. Whether the kernel sets IN_ISDIR on the `_SELF` events, which
the first branch asks for, differs between kernels and is chosen at the start.

The code finds a directory by its name, or by the descriptor inotify gives for
it, at the time it handles an event. Four changes of the tree it does not follow,
and from the first of them on (`outrun`) nothing is promised:

- a directory moves while others are below it: the watches of those keep their old
  names for good;
- a watched directory moves out of one that is not watched, so that no event says so;
- a directory takes a name while the event by which another gives it up waits
  (`Reused`): the event then finds the newcomer;
- a directory is found under its new name while it is still watched under the old
  one (in `AppendWatch`): inotify returns the old descriptor, the descriptor gets the
  new name, and the events of it that wait, by which directories inside it leave,
  look for them under names they never had.

The last needs three directories and six changes, beyond the run; it came up when
the invariant of section 4 could not be kept by `HandleEntered`, and the ghost names
it since. Up to such a change both properties are proved for every tree.
Left out: a directory that moves out of the tree or into it, which comes as one of
IN_MOVED_FROM and IN_MOVED_TO without the other (lines 447 to 457; for a single
directory the thread does what it does for either half of `Rename`, but what happens
to its files outside is not followed), and one that is renamed onto an empty
directory, which ends that one without an event in its parent (`Rename` takes only
a name that is free); a queue that overflows, a system out of watches, and the
Windows half. The header declares `watch()` where the Linux half defines
`watch_wait()`; the module models the latter, as if the header declared it.

### SqliteDb

One `SQLiteDB` used by one thread, with the statements of its caches and one
that the caller created (`create_reader()`, `create_writer()`) and may keep across
`exit()` and `init()`. The texts are one INSERT into a unique column and one
SELECT. The part of SQLite the calls show is modelled as external: which lock a
transaction, a reader or another process (`other`) holds, and which call it
refuses for that. `exit()`, which `init()` and the destructor call as well, is its
three calls one after the other (`DbExit`, `ExitOrder`): the readers are finalised, the
writers, and then sqlite3_close() either closes, which rolls back, or refuses while
a statement of the connection is left (`CloseDb`); the other process may take and
leave its locks in between. In either case `sqlite_` becomes null. The ghost `kept`
holds the connections of which the caller had a statement of its own when the call
began: one of those stays open for good, with its transaction and lock, even after
the caller has dropped the statement (`sqlite.hpp:61`). `ExitFreesTheFile` says that
no other connection is left open, whatever was cached, bound, begun or locked; with
the close before one of the caches it fails.

`StatementsBelong` is about what is cached: a statement, also one that failed to be
prepared and is kept all the same (lines 602, 616), was made for the connection
open now; and the first value given after a reset is stored, although old
bindings stay and `setIndex_` lives on in the cache. `PromisesKept` is about
what the caller is told, kept in the ghost `ack`: `write()` counts a step that a
lock or a constraint refused as a success (line 558), which is excepted, but
nothing else that was reported as done is lost.

### ProcessHandle

`named` says what each pid or handle value means at the moment, and `Strangers`
takes and frees the numbers nobody uses. A pid stays taken until the child is
reaped, which only `goofer_palive()` does; a handle until `goofer_pclose()`.
`NumbersNameTheChild` holds as long as no pid is used again after `goofer_palive()`
has said that the child is dead (`askedAgain`): after that, `goofer_pkill()` kills
whoever has the pid, and `goofer_palive()` may reap another child of the program.
A Windows child that ends with 259, STILL_ACTIVE, is called alive for good.

On POSIX every child inherits the caller's ends of the pipes that are open
(`Inherited`), so that a child does not see its pipe closed while a later one
lives; on Windows SetHandleInformation() prevents it. `ClosedPipeEndsChild` says
whom a closed pipe may wait for. When fdopen() fails the child is left running
without a number (`PopenNoStream`).

### SchedulerDaemon

Each run of `scheduler_daemon.sh` is a daemon whose step is a command of its
loop: `FindProgram`, `FindStopped`, `KillProgram`, `KillPort`, `StartServer`,
`Sleep`. `stop.sh` is four steps: two ps and two kills. Since
`restart.sh` starts both scripts in the background, `StartDaemon` may come
anywhere between them. `StopLeavesNewcomers` says exactly who survives a stop:
daemons started meanwhile and their servers, a server forked between the first
ps and its kill, and a stopped server, which gets its SIGTERM only when it goes
on. `DaemonKeepsServer` says that a daemon that lives keeps something on the port,
whatever a second daemon, a crash or a stop does; a stopped server counts, as
no other can serve then: the SIGTERM of the scripts leaves it where it is.

### OssClient

`oss_split_path()` is a set of operators on sequences of separators and other
tokens; `Meant` is the reference they are compared with on every path up to
a length. Listing is page by page from a marker while others put and delete; the
objects that were there all along (`throughout`) must be listed once. Files and
common prefixes both go into `sub_file_list` (`oss_client.cpp:102`); the list of
folders, an argument of the same function, is never filled. `CreateKeepsContent`
says that creating a directory empties an object only if HEAD was not answered,
which counts as "not there", or others were faster.

### Combination

One turn of the loop is a step. The code fixes s = 6 and c = 4; the model takes
every s and every c of at least 2, as the loop reads `pos[c - 2]`.

## 3. Runs

| Run | Instance | States | What it shows |
|---|---|---|---|
| `db_service` | 2 slots, indices mod 8, 10 items; the queue by itself, and the service with 10 messages | 0.6M | race freedom, order, the inductive invariant, refusals, size(), clear(), refinement of `BoundedFifo`; order across sessions, synchronous finalize, the trapped worker and that nothing else blocks join() |
| `utilities` | a cache of 4 keys; 4 patterns, one malformed, one that throws; expressions of up to 4 comparisons and a redundant bracket, every operator and spelling with 2; ids 8..14 in words of 3 bits, 4-bit arithmetic; s up to 6; paths of up to 6 tokens, 5 entries in pages of 2, 3 changes; 3 children, 2 numbers, both systems | 0.5M | what the cache keeps; answers independent of history, up to the exception above; evaluation has the usual meaning; exact count, refinement of `UidPool` in both modes; every choice shown; complete listings, harmless creations; numbers name their child, closed pipes end it |
| `async_task` | 2 clients, 2 tasks in chains of up to 2, 3 threads, 2 calls of init | 1.5M | the list is what was added and not taken; callbacks; no use after free |
| `workers` | the same with 2 threads and 1 call of init; 2 daemons, 2 servers, 1 stop | 213k | every task is run and freed; what stop leaves behind; a server is kept up |
| `stuck_actions` | 2 threads, 2 records, 2 processes, 2 watchdogs, 3 ticks | 2.7M | no false kill, also while the records are wiped; records owned by one thread |
| `stuck_live` | 2 threads, 1 record, a stream, 2 processes, 3 ticks | 0.6M | no false kill for the stream; a late action is killed |
| `registry` | both versions, 2 Exts, 2 ids, 2 Cores | 167k | the map against the Exts; commands and registrations end |
| `network_check` | 2 checks, 3 pairs of kinds, 2 pids | 0.7M | true results, whom a timeout kills, and that it ends the check up to the exceptions above |
| `directory_watcher` | 2 directories, 2 names, depth 2, 4 changes | 2.3M | watched and named as they are; true reports |
| `sqlite` | 2 values, 2 connections one after the other | 1.9M | statements belong to the connection; promises kept; exit(), call by call, frees the file |
| `registry_race` | 2 Exts with one id | | a registered id is given to a second Ext (the counterexample) |
| `registry_ping` | 2 Exts, 2 ids | | with the Core alive, a ping of an Ext that has ended also ends the one that asked (the counterexample) |

Why the bounds are enough. The queue: 2 slots are the least number with a
"between", indices mod 8 wrap around within 10 items with every value of
"capacity + 1" and "-1" taken, and its main invariant is proved for every
capacity and width. The service: 10 messages make several complete sessions, all but
the first on a used queue. The allocator: 7 ids in words of 3 leave a last word
partly used and a first and a middle one full, next to the limit of the arithmetic. The tasks: two clients race on
the tail, a chain of two exercises the single signal, three threads allow a
failed init to leave one over and the next to succeed. The caches: one key more
than the largest capacity. The watchdog: two processes and two watchdogs give
every take-over and a wipe of records in use, and 3 ticks let an action with a timeout of 1 be late. The registry: two
Exts race for one id or use two, and ask each other. The network checks: two,
since what one does to another is to inherit its pipe, and every line beyond the
answer and one more reads alike; a single command and a pipeline are run each
next to a check without a command, and next to each other. Two of the same
kind at once are covered by the theorems only, so `ReturnsUnlessHeldUp` is not
checked for them. Two pids give each command one, or leave one for strangers to
take and free. The watcher: with two directories one lies in the
other, takes its name or its place, and four changes make a name be left, taken
and left again; what needs more directories is proved, see section 4. SQLite: a second connection is what the
first, left open, can be in the way of; two rows differ in the file, in a
transaction or in a binding. Children: three, as one holds the pipe of another
that holds a third's, on two numbers, so that one is used again. Daemons: two undo
each other's work, with a server each. The listing: five entries are three pages,
and three changes hit each. Paths: six tokens hold two words, or three, with every kind of
separator before, between and after.

Deadlock is checked where the system never stops (the watcher, SQLite's callers).
Elsewhere it may legally end: a crashed or exited program, exhausted bounds, no
more calls, an expression or an enumeration that is complete.

### Fairness

- `DbService`: weak fairness of the client inside a call it has begun and of the
  worker's steps: both are threads the system schedules. No fairness of calls.
- `AsyncTask`: weak fairness of init, of each client's call once begun, and of
  each worker. A worker that waits for the mutex is served since every holder
  leaves in a bounded number of steps and other threads run out of tasks.
- `StuckChecker`: weak fairness of the clock and of the watchdog, its start included; the
  application owes nothing, which is what the watchdog is for.
- `CapnpRegistry`: weak fairness of what the event loops do, and of failing calls
  to a process that ended, for the consoles of the Core and of the Exts alike; nobody
  has to start, quit or type anything. In version 2 this takes standard input to be
  open: at its end the consoles read again at once, over and over
  (`v2/src/core.cpp:335`, `v2/src/ext.cpp:362`), and whether the event loop ever gets
  to anything else is up to kj. `ConsoleReturns` and `RegistrationAnswered` say nothing
  about a process with its input at the end.
- `SchedulerDaemon`: weak fairness of each daemon's loop and of a server's way from
  its fork to its port. Nobody has to start or stop anything, and a server that is
  stopped may stay so.
- `ProcessHandle`: weak fairness of a child that sees its pipe closed; nothing else.
- `Combination`: weak fairness of the loop, which is one thread.
- `NetworkCheck`: weak fairness of the caller's and the thread's steps; strong
  fairness of `Abort`, which is that a time that is asked for over and over is
  over in the end, and weak fairness of the kill and the join that follow. Commands owe nothing, and may hang.

## 4. Proofs

All theorems are about the specifications the runs check, for every value of the
constants that the named assumptions of the module allow. Each safety theorem has
the same shape: an invariant that is inductive, found with TLC on an instance of
the run and then proved step by step, and the property as its consequence.

| Theorems | Inductive invariant | For every |
|---|---|---|
| `TypeCorrect`, `QueueCorrect`, `FifoHolds`, `NoDataRaceHolds`, `RefusalsHold`, `ClearDrainsHolds`, `SizesHold`, `ImplementsFifoHolds` | `QueueInv`; `ViewsInv` | capacity, multiple of it as the width of the indices, at least four times as large, number of items |
| `SessionsInOrderHolds`, `FinalizeIsSynchronousHolds`, `TrapsOnlyAtStoreHolds` | `ServiceInv` | the same |
| `CountExactHolds`, `ImplementsPoolHolds` | `UidInv` | range, width of words and of the arithmetic, with `Room` |
| `ListIsPendingHolds`, `CallbacksOnceHolds` | `QueueInv` of `AsyncTaskProofs` | set of clients and tasks, number of workers, calls of init and length of chains |
| `RecordsAreOwnedHolds`, `KilledForLateActionHolds`, `KilledForLateStreamHolds` | `CheckerInv` | set of threads, records, timeouts, processes, watchdogs |
| `RegistrationsAreTrueHolds`, `EntriesGivenUpHolds` | `RegistryInv` | set of Exts and ids, number of Cores, both versions |
| `ResultIsTrueHolds`, `KillsOnlyOwnHolds` | `NetworkInv` | set of checks of every kind |
| `KeepsMostRecentHolds` | `LruInv` | capacity, set of keys and values, number of calls |
| `AnswersAreMatchesHolds` | `RegexInv` | the same, and set of patterns and inputs |
| `ChoicesInOrderHolds` | `CombInv` | s, and c of at least 2 |
| `ListsWhatIsThereHolds`, `EmptiesNothingHolds` | `OssInv` | number of names, page size, changes by others |
| `StatementsBelongHolds`, `PromisesKeptHolds`, `ExitFreesTheFileHolds` | `SqliteInv` | set of rows, number of connections |
| `WatchesFollowTreeHolds`, `ReportsAreTrueHolds` | `WatcherInv` | set of directories and names, depth, number of changes |
| `NumbersNameTheChildHolds` | `HandleInv` | set of calls and numbers, both systems |
| `StopLeavesNewcomersHolds` | `DaemonInv` | set of daemons and servers, number of stops |

### The queue

`NoDataRace` and `Fifo` are not inductive: whether a flag may be trusted depends
on which items are in flight. `QueueInv` says that a slot is ready exactly if one
of the items `consumed + 1 .. produced` lies in it, that it holds that item, that at
most `QueueSize` are in flight, that the published indices are the counts up to
the store in progress, and what each thread knows after its test of the flag. The
lemmas `WrapKeeps`, `DistinctSlots` and `SlotPeriod` tie slots to positions across
the wrap-around; `RoomIffFree` and `ItemIffReady` turn a flag into a statement
about counts.

What size() told a thread outlives the moment: `ViewsInv` says that the number is
the thread's own count and one the other had at some time, modulo the width, from
which `SizesHold` follows. The refinement of `BoundedFifo` maps the queue to the
items between the two counts; the lemmas `WindowGrows` and `WindowShrinks` are
its two operations, and `FifoStep` has one step for each of the two stores to
`ready` and a stutter for every other action.

### The service

Every step of the service is a step of the queue or leaves it alone
(`QueueSteps`), so that `QueueInv` holds under it without a second proof. What
the service adds is by whom its parts are kept: the messages named are those
produced and the one in hand (`ProducerInv`), those handled are those consumed less
the one in hand (`ConsumerInv`), and there is a worker exactly within a session
(`OutsideInv`, `InsideInv`). `FinalizeInv` is the heart: a Finalize that was not
handled is the last message, so a worker that has seen one has handled all there
are. `FinalizeIsSynchronous` follows since join() waits for that worker.
`TrapsOnlyAtStore` is the safety half of `JoinReturnsUnlessTrapped`: with all
messages handled the counts agree, and unless the producer is between its two
stores the indices do, so empty() tells the truth.

### The allocator

Both theorems assume `Room`, which the static_assert of the code does not grant:
that `UID_SLOTS` is computed without an overflow, and that the first unused bit of
the last word, if there is one, stands for a number that does not wrap around
(section 2 has the ranges it leaves out; for those the theorems would be false).
`SearchInWord` and `SearchByScan` need no more, since a search that comes to that bit
gives up. `UidInv` adds to the types
that no position beyond the range is set, that the count is the cardinality, and
that the cursor is at most one past the last id, which is what makes the scan
reach every word. For the refinement in the cyclic mode the id found must be the
nearest free one: `WordNearest` and `ScanNearest` say so for the rest of the
current word and for the words after it, with the distance going round
(`AheadIs`, `ScanDistanceIs`).

### The task queue

`ListIsPending` speaks of the list at rest; to be inductive it needs who holds the
mutex (`LockInv`), the list at each step inside the critical section (`ListInv`),
and the pointers of chains that a client has not linked yet (`OutsideInv`), which
must stay as the caller made them while others work. `ChainInv` says that no task
is in two places, and `TakenInv` that a task that was taken is in the hands of one
worker, whose step tells which callbacks it had. All but the types and the chains
is stated under `clean`: after an init that initialised a mutex in use nothing of
it holds.

### The watchdog

`KilledForLateAction` relates the watchdog's copy to a record two processes
write. `RecordsInv` says what a record may read as while its owner is at a given
step, `CopyInv` that the copy is that record as far as it has come, unless `moved`;
`StreamInv` and `DelayInv` are the same for the stream's deadline, whose two
fields are stored one after the other. What a starting watchdog may leave of a
record is part of `RecordsInv`: at any time a field of it may be wiped, and if the
wipe has passed its `check_in` and not its `check_out`, and no action has begun
since, its `check_in` is 0. They stand on `PidsInv` (who knows which
pid: a new process publishes its own last, when the memory is ready) and on
`OwnersInv` (the records handed out are those below the index, one to a thread).

### The registry

`RegistrationsAreTrue` is not inductive since handlers continue after an await:
`ContinuationsInv` says what is true of a registration or a command that waits,
whatever ran meanwhile, `EntriesInv` what an entry of the map stands for, and
`LinksInv` that an Ext's connection is to a Core that did run. `VersionInv` keeps the
phases of version 1 apart from those of version 2.

### Processes

`CheckInv` ties a check's caller to its thread: until the thread ends the result
is "pending". `PidInv` says what the number that a caller signals is worth: it is 0,
which the caller tests, or what fork() returned; a pid that fork() returned belongs to
that child from then on, whoever else takes and frees pids; and -1 comes with no
child. `HandleInv` says that a number the caller
may use names its child, as long as `askedAgain` is false; with it the step that
gives a number away needs to know that no child of an open pipe has it. `DaemonInv` says what
stop.sh knows at each of its four steps.

### The caches

The list of nodes is the front part of `refreshed`, the ghost that orders all keys
by their last use, and the map is its inverse: `LruInv` says both, node by node.
What refresh() does to a list is a lemma of its own (`FrontOfThere`, `FrontOfNew`,
`FrontKeeps`), needed for the nodes and for the ghost alike, since `ListOrder` finds a
key at the same place in both. `RegexInv` adds that a pattern is cached as invalid
for a reason, which a step of the cache beneath leaves alone (`MissLeaves`).

### Combinations and listings

Both run through a finite set in order, which the prover has to be told how:
`CountedOff` makes a sequence of any finite set of numbers, by the number of those
not above each, and `AscendingOnto` says that an ascending sequence of full length
is onto. `CombInv` calls a choice passed (`Behind`) if the first place in which it
differs from the places filled so far, or from the number that is tried next, is
smaller in it; what was shown is exactly what was passed, and each step passes what
it should: `PlaceBehind` nothing, `BackBehind` and `ShowBehind` the choices they
end. That the loop ends is left to TLC. `OssInv` says of a listing that every name
up to the marker that was there throughout is in the list and nothing above the
marker is; `PageIs` gives what a page adds, `GreatestIs` that the last of a page that
was cut is the next marker.

### SQLite

`SqliteInv` needs, next to the properties, what is between a row that was given and
the commit: what is bound is what was given (`BindInv`), and a row that waits for the
end of its transaction is in the transaction's writes or in the file (`PendingInv`).
`ExitInv` says how far exit() is: which caches are empty by then, and that a
connection of which the caller has a statement was noted when the call began, so
that sqlite3_close() finds no other statement.
Most calls replace one statement, or the state of one connection, and
`StatementReplaced` and its like say what that keeps, so that each call is a step
of a few lines.

### The watcher

What the watches should be and what they are differ by the events that wait, so
`WatcherInv` goes by what the thread will come to (`Waiting`, the batch and then the
queue). A name that is not its directory's will be given up by one of these
events, which finds the watch since no event before it renames its descriptor
(`PlacesInv`, `Undisturbed`); a directory that was seen and is not watched will be
found by one of them or by the scan (`SeenInv`, `Enters`, `Coming`); a name that will be
given up is nobody's (`NamesInv`); and a change of a file will be reported under a
name the directory had (`FilesInv`). Changes by others append events, and one lemma
(`OthersKeep`) says what a change must announce for the invariant to survive it;
steps of the thread take the first event away and change the maps as it says, and
`MapsKeep` is the one lemma for all of these. With no event left the invariant is the
property (`NothingWaits`).

### What the proofs changed

The ghost `outrun` of `DirectoryWatcher` was too narrow: the fourth of the changes that
section 2 lists was missing, with the reuse of a name by `Mkdir`, and the property
was false for trees larger than the run's. `ReportsAreTrue` promises more than
it did: a change is reported if its directory was watched under its path at the
time, whatever else was outstanding.

In `AsyncTask` and `StuckChecker` the assumptions on the constants are now
what the steps rely on (a client is not a worker; the bound on the time leaves it a
step; the bound on the indices lets every record be handed out), each true of the
code or of a bound of the model. The distance in `UidPool` counts the ids of the
range. A server that is started
gets a pid that is on no list stop.sh has made (`StartServer`), which the model had
left open.

### What is only model-checked

Liveness and fairness are beyond the prover: `JoinReturnsUnlessTrapped` and
`ShowsEveryChoice` but for their safety halves, `AddedTasksComplete`, `StuckIsKilled`,
`RegistrationAnswered`, `ConsoleReturns`, `ReturnsUnlessHeldUp`, `ClosedPipeEndsChild` and
`DaemonKeepsServer`. So is what a recursive definition computes for every input:
`EvaluatesMeaning` is about the recursive evaluator, and the half of
`CreateKeepsContent` that is about paths about a fold over the parts of one; its
other half is `EmptiesNothingHolds`. Every other property of a passing run is a
theorem.

## 5. Not modelled

The heartbeat of `capnp_demo`, which is stored and never read, and calls that only
read or print; the columns read with `get()`, `rowid()`, `changes()` and moves of
statements of `sqlite.hpp`, which are calls passed on or swaps; that the busy
timeout of a "multi" connection waits before it refuses; arguments that
`goofer_popen()` refuses and pipes or processes that cannot be made, which leave
nothing behind; what else than servers is on the port of `shell_daemon`, and pids
used again there; the Windows half of the watcher, a kernel queue that overflows
and watches that run out, directories that move into or out of the watched tree or
are renamed onto an empty one; two evaluations of an expression at once, which race
in the shared cache; consoles at the end of their input; the mapping of the stuck checker's memory, its log file
and upload; failures of memory allocation; std::regex itself; text encodings. The
index of `stuck_checker_in()` that wraps around after 2^32 refused calls is beyond the
bound on that index. `os_system` and the sample directories hold single calls of the
operating system and snippets, without a state of their own.

## 6. Plan

Order: the queue and the service first (lock-free code others build on), then the
allocator, the task queue and the caches, then the protocols between processes
and with the operating system, last the small utilities around them. All modules are
written, and every safety property of a run that does not need induction over data is
proved. What could follow: the Windows half of the watcher, which reads its own
kind of events, and the errors of system calls that section 5 lists.
