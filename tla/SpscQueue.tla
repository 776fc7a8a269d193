------------------------------ MODULE SpscQueue ------------------------------
(***************************************************************************)
(* The lock-free queue of spsc_queue/spsc_queue.hpp, one step per access   *)
(* of memory the two threads share.  The producer and the consumer hand    *)
(* each slot back and forth through its ready flag; writer_idx_ and        *)
(* reader_idx_ only say which slot comes next, and are what empty(),       *)
(* size(), full() and clear() look at.                                     *)
(*                                                                         *)
(* The queue holds unique_ptrs, so every item is a different object: the   *)
(* n-th item produced is the number n, and 0 is the null pointer a move    *)
(* leaves behind.  Each thread reads its own index without interference,   *)
(* so that read is not a step of its own.                                  *)
(***************************************************************************)
EXTENDS Integers

CONSTANTS
    QueueSize,     \* template parameter: number of slots
    IndexMod,      \* number of values of a size_t index (2^w)
    MaxProduced    \* bound on the number of items produced

\* The static_assert also asks for a power of two, so that "& cap_mask_" is
\* "% QueueSize"; a power of two divides the range of size_t.  A slot takes
\* at least 128 bytes, so the array can never use up the range of the index.
ASSUME QueueSizeAssumption == QueueSize \in Nat \ {0}
ASSUME IndexModAssumption ==
    IndexMod \in Nat /\ IndexMod >= 4 * QueueSize /\ IndexMod % QueueSize = 0
ASSUME MaxProducedAssumption == MaxProduced \in Nat

VARIABLES
    ready,        \* slots_[i].ready
    value,        \* slots_[i].value
    writer_idx,   \* writer_idx_
    reader_idx,   \* reader_idx_
    ppc, pop,     \* where the producer is, and in which operation
    cpc, cop,     \* the same for the consumer
    cdata,        \* the consumer's local "data"
    pview, cview, \* what size() last told each thread, until it moves an item
    produced,     \* ghost: how many items were made ready
    consumed      \* ghost: how many slots were given back

pvars == <<ppc, pop, pview>>
cvars == <<cpc, cop, cdata, cview>>
vars == <<ready, value, writer_idx, reader_idx, pvars, cvars, produced, consumed>>

Slots == 0 .. QueueSize - 1
Null == 0
Unknown == -1

\* idx & cap_mask_, and what a size_t keeps of a number.
SlotOf(n) == n % QueueSize
Wrap(n) == n % IndexMod

WriteSlot == SlotOf(writer_idx)
ReadSlot == SlotOf(reader_idx)

\* size(): the difference of the indices, in the width of size_t.
IndexDistance == Wrap(writer_idx - reader_idx)

ProducerOps == {"try_produce", "produce"}
ConsumerOps == {"try_consume", "consume", "clear"}

-----------------------------------------------------------------------------
Init ==
    /\ ready = [i \in Slots |-> FALSE]
    /\ value = [i \in Slots |-> Null]
    /\ writer_idx = 0
    /\ reader_idx = 0
    /\ ppc = "idle" /\ pop = "produce" /\ pview = Unknown
    /\ cpc = "idle" /\ cop = "consume" /\ cview = Unknown
    /\ cdata = Null
    /\ produced = 0
    /\ consumed = 0

-----------------------------------------------------------------------------
(* The producer.                                                           *)

PStart(op) ==
    /\ ppc = "idle"
    /\ produced < MaxProduced
    /\ ppc' = "test"
    /\ pop' = op
    /\ UNCHANGED <<ready, value, writer_idx, reader_idx, pview, cvars, produced, consumed>>

\* The acquire load of ready finds the slot free.
PFindsRoom ==
    /\ ppc = "test"
    /\ ~ready[WriteSlot]
    /\ ppc' = "store_value"
    /\ UNCHANGED <<ready, value, writer_idx, reader_idx, pop, pview, cvars, produced, consumed>>

\* try_produce() gives up, produce() sleeps and tests again.
PFindsFull ==
    /\ ppc = "test"
    /\ ready[WriteSlot]
    /\ ppc' = IF pop = "try_produce" THEN "idle" ELSE "test"
    /\ UNCHANGED <<ready, value, writer_idx, reader_idx, pop, pview, cvars, produced, consumed>>

PStoreValue ==
    /\ ppc = "store_value"
    /\ value' = [value EXCEPT ![WriteSlot] = produced + 1]
    /\ ppc' = "store_ready"
    /\ UNCHANGED <<ready, writer_idx, reader_idx, pop, pview, cvars, produced, consumed>>

\* Defect: the flag of the slot is never set.
PStoreReadyForgotten ==
    /\ ppc = "store_ready"
    /\ produced' = produced + 1
    /\ ppc' = "store_idx"
    /\ UNCHANGED <<ready, value, writer_idx, reader_idx, pop, pview, cvars, consumed>>

PStoreReady ==
    /\ ppc = "store_ready"
    /\ ready' = [ready EXCEPT ![WriteSlot] = TRUE]
    /\ produced' = produced + 1
    /\ ppc' = "store_idx"
    /\ UNCHANGED <<value, writer_idx, reader_idx, pop, pview, cvars, consumed>>

PStoreIdx ==
    /\ ppc = "store_idx"
    /\ writer_idx' = Wrap(writer_idx + 1)
    /\ pview' = Unknown
    /\ ppc' = "idle"
    /\ UNCHANGED <<ready, value, reader_idx, pop, cvars, produced, consumed>>

\* size() and full() called by the producer between its operations.
PSize ==
    /\ ppc = "idle"
    /\ pview' = IndexDistance
    /\ UNCHANGED <<ready, value, writer_idx, reader_idx, ppc, pop, cvars, produced, consumed>>

PStep == PFindsRoom \/ PFindsFull \/ PStoreValue \/ PStoreReady \/ PStoreIdx

-----------------------------------------------------------------------------
(* The consumer.  visit() and consume_as() are consume(), try_visit() and  *)
(* try_consume_as() are try_consume(), with the item passed on afterwards. *)

CStart(op) ==
    /\ cpc = "idle"
    /\ cpc' = IF op = "clear" THEN "clear_test" ELSE "test"
    /\ cop' = op
    /\ UNCHANGED <<ready, value, writer_idx, reader_idx, pvars, cdata, cview, produced, consumed>>

\* Defect: clear() stops one item early.
CClearTestOffByOne ==
    /\ cpc = "clear_test"
    /\ cpc' = IF IndexDistance <= 1 THEN "idle" ELSE "test"
    /\ UNCHANGED <<ready, value, writer_idx, reader_idx, pvars, cop, cdata, cview, produced, consumed>>

\* while (!empty()) consume();
CClearTest ==
    /\ cpc = "clear_test"
    /\ cpc' = IF IndexDistance = 0 THEN "idle" ELSE "test"
    /\ UNCHANGED <<ready, value, writer_idx, reader_idx, pvars, cop, cdata, cview, produced, consumed>>

\* Defect: the item is taken without a look at ready.
CFindsItemUntested ==
    /\ cpc = "test"
    /\ cpc' = "move_value"
    /\ UNCHANGED <<ready, value, writer_idx, reader_idx, pvars, cop, cdata, cview, produced, consumed>>

CFindsItem ==
    /\ cpc = "test"
    /\ ready[ReadSlot]
    /\ cpc' = "move_value"
    /\ UNCHANGED <<ready, value, writer_idx, reader_idx, pvars, cop, cdata, cview, produced, consumed>>

\* try_consume() gives up, the loop of consume() sleeps and tries again.
CFindsNone ==
    /\ cpc = "test"
    /\ ~ready[ReadSlot]
    /\ cpc' = IF cop = "try_consume" THEN "idle" ELSE "test"
    /\ UNCHANGED <<ready, value, writer_idx, reader_idx, pvars, cop, cdata, cview, produced, consumed>>

CMoveValue ==
    /\ cpc = "move_value"
    /\ cdata' = value[ReadSlot]
    /\ value' = [value EXCEPT ![ReadSlot] = Null]
    /\ cpc' = "clear_ready"
    /\ UNCHANGED <<ready, writer_idx, reader_idx, pvars, cop, cview, produced, consumed>>

\* Defect: the flag of the slot stays set.
CClearReadyForgotten ==
    /\ cpc = "clear_ready"
    /\ consumed' = consumed + 1
    /\ cpc' = "store_idx"
    /\ UNCHANGED <<ready, value, writer_idx, reader_idx, pvars, cop, cdata, cview, produced>>

CClearReady ==
    /\ cpc = "clear_ready"
    /\ ready' = [ready EXCEPT ![ReadSlot] = FALSE]
    /\ consumed' = consumed + 1
    /\ cpc' = "store_idx"
    /\ UNCHANGED <<value, writer_idx, reader_idx, pvars, cop, cdata, cview, produced>>

CStoreIdx ==
    /\ cpc = "store_idx"
    /\ reader_idx' = Wrap(reader_idx + 1)
    /\ cview' = Unknown
    /\ cpc' = IF cop = "clear" THEN "clear_test" ELSE "idle"
    /\ UNCHANGED <<ready, value, writer_idx, pvars, cop, cdata, produced, consumed>>

\* size() and empty() called by the consumer between its operations.
CSize ==
    /\ cpc = "idle"
    /\ cview' = IndexDistance
    /\ UNCHANGED <<ready, value, writer_idx, reader_idx, pvars, cpc, cop, cdata, produced, consumed>>

CStep == CClearTest \/ CFindsItem \/ CFindsNone \/ CMoveValue \/ CClearReady \/ CStoreIdx

-----------------------------------------------------------------------------
Producer == PStep \/ PSize \/ \E op \in ProducerOps : PStart(op)
Consumer == CStep \/ CSize \/ \E op \in ConsumerOps : CStart(op)

Next == Producer \/ Consumer

Spec == Init /\ [][Next]_vars

-----------------------------------------------------------------------------
(* Type invariant: the slots, indices and program counters stay in range.  *)
TypeOK ==
    /\ ready \in [Slots -> BOOLEAN]
    /\ value \in [Slots -> Nat]
    /\ writer_idx \in 0 .. IndexMod - 1
    /\ reader_idx \in 0 .. IndexMod - 1
    /\ ppc \in {"idle", "test", "store_value", "store_ready", "store_idx"}
    /\ pop \in ProducerOps
    /\ cpc \in {"idle", "clear_test", "test", "move_value", "clear_ready", "store_idx"}
    /\ cop \in ConsumerOps
    /\ cdata \in Nat
    /\ pview \in Unknown .. IndexMod - 1
    /\ cview \in Unknown .. IndexMod - 1
    /\ produced \in Nat
    /\ consumed \in Nat

\* How many items each published index accounts for, before it wraps.
WriterCount == IF ppc = "store_idx" THEN produced - 1 ELSE produced
ReaderCount == IF cpc = "store_idx" THEN consumed - 1 ELSE consumed

(* The non-atomic member "value" of a slot is never accessed by both       *)
(* threads at once: the ready flag is enough to keep them apart, whatever  *)
(* the wrap-around of the indices.                                         *)
NoDataRace ==
    ~ (ppc = "store_value" /\ cpc = "move_value" /\ WriteSlot = ReadSlot)

(* First in, first out, nothing lost and nothing twice: the k-th item a    *)
(* consumer is handed is the k-th item produced, never the null pointer    *)
(* that an earlier move left in the slot.                                  *)
Fifo == cpc = "store_idx" => cdata = consumed

(* The indices agree with the items up to the steps in flight.  They can   *)
(* be apart by -1, when the consumer has published reader_idx_ for an item *)
(* whose writer_idx_ is still to come, and by QueueSize + 1, when the      *)
(* producer has reused a slot whose reader_idx_ is still to come.          *)
IndicesTrackItems ==
    /\ writer_idx = Wrap(WriterCount)
    /\ reader_idx = Wrap(ReaderCount)
    /\ WriterCount - ReaderCount \in -1 .. QueueSize + 1
    /\ WriterCount < ReaderCount => ppc = "store_idx"
    /\ WriterCount - ReaderCount > QueueSize => cpc = "store_idx"

(* No operation is refused without cause: try_produce fails only on a      *)
(* queue whose slots are all taken, and try_consume only when every item   *)
(* made ready has been taken, however stale the index the other thread has *)
(* published.                                                              *)
RefusalsAreReal ==
    [][/\ ppc = "test" /\ ppc' = "idle" => produced - consumed = QueueSize
       /\ cpc = "test" /\ cpc' = "idle" => produced = consumed]_vars

(* How far size() can be relied on.  A producer told less than the         *)
(* capacity is not refused next (full() is weaker: it tests for equality,  *)
(* and answers "no" at capacity + 1); a consumer told more than 0 is       *)
(* refused next only if that was 0 - 1 in a size_t.                        *)
SizesAreReal ==
    [][/\ ppc = "test" /\ ppc' = "idle" => pview \in {Unknown, QueueSize, QueueSize + 1}
       /\ cpc = "test" /\ cpc' = "idle" => cview \in {Unknown, 0, IndexMod - 1}]_vars

(* clear() returns only once every item whose produce() has returned is    *)
(* taken out (an item of which only ready is stored may stay).             *)
ClearDrains ==
    [][cpc = "clear_test" /\ cpc' = "idle" => consumed = WriterCount]_vars

-----------------------------------------------------------------------------
(* The items the queue holds are numbered consumed + 1 .. produced; item   *)
(* n + 1 lies in slot SlotOf(n).                                            *)
Live == consumed .. produced - 1

ReadyIffLive ==
    \A i \in Slots : ready[i] <=> \E n \in Live : SlotOf(n) = i

LiveValues ==
    \A n \in Live :
        (n = consumed /\ cpc = "clear_ready") \/ value[SlotOf(n)] = n + 1

(* The inductive invariant: the flags and values of the slots are exactly  *)
(* those of the items in flight, the indices account for all of them, and  *)
(* each thread's step is one its last test of the ready flag allows.       *)
QueueInv ==
    /\ IndicesTrackItems
    /\ consumed <= produced /\ produced <= consumed + QueueSize
    /\ ReadyIffLive
    /\ LiveValues
    /\ ppc \in {"store_value", "store_ready"} => produced < consumed + QueueSize
    /\ ppc = "store_ready" => value[SlotOf(produced)] = produced + 1
    /\ ppc = "store_idx" => produced > 0
    /\ cpc \in {"move_value", "clear_ready"} => consumed < produced
    /\ cpc = "clear_ready" => cdata = consumed + 1
    /\ cpc = "store_idx" => consumed > 0 /\ cdata = consumed

-----------------------------------------------------------------------------
\* The items in the queue, oldest first, read from the slots themselves.  An
\* item the consumer has moved out is still in the queue until its slot is
\* given back.
Contents ==
    [k \in 1 .. produced - consumed |->
        IF k = 1 /\ cpc = "clear_ready" THEN cdata
        ELSE value[SlotOf(consumed + k - 1)]]

Abstract == INSTANCE BoundedFifo WITH
    Capacity <- QueueSize, MaxPut <- MaxProduced,
    buffer <- Contents, put <- produced, taken <- consumed

(* The queue implements a bounded FIFO buffer: an item enters when its     *)
(* ready flag is stored, and the oldest leaves when its flag is cleared.   *)
ImplementsFifo == Abstract!Spec
=============================================================================
