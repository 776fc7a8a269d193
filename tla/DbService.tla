----------------------------- MODULE DbService -----------------------------
(***************************************************************************)
(* DBServiceBase of db_service/db_service.hpp over the queue of            *)
(* spsc_queue.hpp: one client thread turns calls into messages, one worker *)
(* thread takes and handles them until a Finalize message tells it to      *)
(* stop, and asyncDatabaseFinalize() joins the worker.  The queue's steps  *)
(* are those of SpscQueue: the client is its producer, the worker its      *)
(* consumer.  Item n of the queue is the message kinds[n].                 *)
(***************************************************************************)
EXTENDS SpscQueue, Sequences

VARIABLES
    running,     \* running_
    joinable,    \* workerThread_.joinable()
    dpc,         \* the client thread
    wpc,         \* the worker thread, "none" when there is none
    kinds,       \* ghost: the messages in the order of the calls
    handled,     \* ghost: the items the handlers were given, in order
    destroying,  \* the destructor has begun: the derived object is gone
    crashed      \* std::terminate was called

serviceVars == <<running, joinable, dpc, wpc, kinds, handled, destroying, crashed>>
dbVars == <<vars, serviceVars>>

Kinds == {"Initialize", "Upgrade", "Cleanup", "Finalize"}

\* What the client still has to do after the message is in the queue.
ClientStates == {"idle", "spawn", "produce", "produce_last", "join", "destroyed"}

IsFinalize(item) == item # Null /\ kinds[item] = "Finalize"

DbInit ==
    /\ Init
    /\ running = FALSE
    /\ joinable = FALSE
    /\ dpc = "idle"
    /\ wpc = "none"
    /\ kinds = <<>>
    /\ handled = <<>>
    /\ destroying = FALSE
    /\ crashed = FALSE

-----------------------------------------------------------------------------
(* The client.  Every call but the destructor returns at once when         *)
(* running_ does not allow it, which changes nothing.                      *)

\* dbQueue_.produce(make_unique<...>()) begins.
Send(kind) ==
    /\ PStart("produce")
    /\ kinds' = Append(kinds, kind)

\* asyncDatabaseInitialize(): running_ is set before the thread starts.
ClientInitialize ==
    /\ dpc = "idle"
    /\ ~running
    /\ produced < MaxProduced
    /\ running' = TRUE
    /\ dpc' = "spawn"
    /\ UNCHANGED <<vars, joinable, wpc, kinds, handled, destroying, crashed>>

\* workerThread_ = std::thread(...) terminates the program if the old thread
\* was never joined; then the Initialize message is sent.
ClientSpawn ==
    /\ dpc = "spawn"
    /\ crashed' = joinable
    /\ joinable' = TRUE
    /\ wpc' = "loop"
    /\ dpc' = "produce"
    /\ Send("Initialize")
    /\ UNCHANGED <<running, handled, destroying>>

\* asyncDatabaseUpgrade() and asyncDatabaseCleanup().
ClientRequest(kind) ==
    /\ dpc = "idle"
    /\ running
    /\ dpc' = "produce"
    /\ Send(kind)
    /\ UNCHANGED <<running, joinable, wpc, handled, destroying, crashed>>

\* asyncDatabaseFinalize(), and the destructor of a running service, which
\* begins by calling it.
ClientFinalize ==
    /\ dpc = "idle"
    /\ running
    /\ dpc' = "produce_last"
    /\ destroying' \in BOOLEAN
    /\ Send("Finalize")
    /\ UNCHANGED <<running, joinable, wpc, handled, crashed>>

ClientDestroyStopped ==
    /\ dpc = "idle"
    /\ ~running
    /\ dpc' = "destroyed"
    /\ destroying' = TRUE
    /\ crashed' = joinable    \* ~thread() of a thread never joined
    /\ UNCHANGED <<vars, running, joinable, wpc, kinds, handled>>

\* produce() has returned.
ClientProduced ==
    /\ dpc \in {"produce", "produce_last"}
    /\ ppc = "idle"
    /\ dpc' = IF dpc = "produce" THEN "idle" ELSE "join"
    /\ UNCHANGED <<vars, running, joinable, wpc, kinds, handled, destroying, crashed>>

\* Defect: finalize returns without waiting for the worker.
ClientJoinAtOnce ==
    /\ dpc = "join"
    /\ wpc' = "none"
    /\ joinable' = FALSE
    /\ dpc' = "idle"
    /\ UNCHANGED <<vars, running, kinds, handled, destroying, crashed>>

ClientJoin ==
    /\ dpc = "join"
    /\ wpc = "exited"
    /\ wpc' = "none"
    /\ joinable' = FALSE
    /\ dpc' = "idle"
    /\ UNCHANGED <<vars, running, kinds, handled, destroying, crashed>>

-----------------------------------------------------------------------------
(* The worker: while (running_ || !dbQueue_.empty()) dbQueue_.visit(...).  *)

\* Defect: the worker waits for a message whatever the loop condition says.
WorkerLoopUnguarded ==
    /\ wpc = "loop"
    /\ wpc' = "visit"
    /\ CStart("consume")
    /\ UNCHANGED <<running, joinable, dpc, kinds, handled, destroying, crashed>>

WorkerLoop ==
    /\ wpc = "loop"
    /\ running \/ IndexDistance # 0
    /\ wpc' = "visit"
    /\ CStart("consume")
    /\ UNCHANGED <<running, joinable, dpc, kinds, handled, destroying, crashed>>

WorkerExit ==
    /\ wpc = "loop"
    /\ ~running
    /\ IndexDistance = 0
    /\ wpc' = "exited"
    /\ UNCHANGED <<vars, running, joinable, dpc, kinds, handled, destroying, crashed>>

\* Defect: the handler of Finalize does not clear running_.
WorkerHandleGoesOn ==
    /\ wpc = "visit" /\ cpc = "idle"
    /\ handled' = Append(handled, cdata)
    /\ wpc' = "loop"
    /\ UNCHANGED <<vars, running, joinable, dpc, kinds, destroying, crashed>>

\* The handler of the message that visit() took, if it took one.  Once the destructor of the
\* base class runs, the handlers' virtual functions are pure.
WorkerHandle ==
    /\ wpc = "visit"
    /\ cpc = "idle"
    /\ handled' = Append(handled, cdata)
    /\ IF destroying
       THEN crashed' = TRUE /\ UNCHANGED running
       ELSE running' = (running /\ ~IsFinalize(cdata)) /\ UNCHANGED crashed
    /\ wpc' = "loop"
    /\ UNCHANGED <<vars, joinable, dpc, kinds, destroying>>

-----------------------------------------------------------------------------
QueueStep(step) == step /\ UNCHANGED serviceVars

ClientCall ==
    \/ ClientInitialize
    \/ \E kind \in {"Upgrade", "Cleanup"} : ClientRequest(kind)
    \/ ClientFinalize
    \/ ClientDestroyStopped

ClientStep == ClientSpawn \/ ClientProduced \/ ClientJoin \/ QueueStep(PStep)
WorkerStep == WorkerLoop \/ WorkerExit \/ WorkerHandle \/ QueueStep(CStep)

DbNext == ~crashed /\ (ClientCall \/ ClientStep \/ WorkerStep)

\* The client finishes a call it has begun, and the worker's thread keeps
\* running; nothing obliges the client to call.
DbFairness == WF_dbVars(~crashed /\ ClientStep) /\ WF_dbVars(~crashed /\ WorkerStep)

DbSpec == DbInit /\ [][DbNext]_dbVars /\ DbFairness

-----------------------------------------------------------------------------
(* Type invariant of the service; the queue keeps its own.                 *)
DbTypeOK ==
    /\ TypeOK
    /\ running \in BOOLEAN /\ joinable \in BOOLEAN
    /\ dpc \in ClientStates
    /\ wpc \in {"none", "loop", "visit", "exited"}
    /\ kinds \in Seq(Kinds) /\ Len(kinds) <= produced + 1
    /\ handled \in Seq(Nat)
    /\ destroying \in BOOLEAN /\ crashed \in BOOLEAN

(* Messages are handled one by one in the order of the client's calls,     *)
(* across sessions that reuse the queue, and every session of the worker   *)
(* handles Initialize first and nothing after Finalize.                    *)
SessionsInOrder ==
    /\ DbTypeOK
    /\ \A n \in 1 .. Len(handled) :
        /\ handled[n] = n
        /\ kinds[n] = "Initialize" <=> (n = 1 \/ kinds[n - 1] = "Finalize")

(* asyncDatabaseFinalize() returns only when the worker has handled every  *)
(* message sent before it, and the Finalize itself last.                   *)
FinalizeIsSynchronous ==
    [][dpc = "join" /\ dpc' = "idle" =>
        Len(handled) = Len(kinds) /\ kinds[Len(kinds)] = "Finalize" /\ ~running]_dbVars

\* The worker waits for a message after the last one.
Trapped == wpc = "visit" /\ ~running

(* A worker told to stop is trapped in one case only: it looked at the     *)
(* queue between the producer's store of ready and its store of            *)
(* writer_idx_ for the Finalize message, when empty() answers "no".        *)
TrapsOnlyAtStore ==
    [][wpc = "loop" /\ wpc' = "visit" /\ ~running => ppc = "store_idx"]_dbVars

(* asyncDatabaseFinalize() returns in the end unless the worker is         *)
(* trapped, by this one step; then it never does.                          *)
JoinReturnsUnlessTrapped ==
    /\ dpc = "join" ~> (dpc # "join" \/ Trapped \/ crashed)
    /\ TrapsOnlyAtStore
=============================================================================
