-------------------------- MODULE DbServiceProofs ---------------------------
(***************************************************************************)
(* Proofs about the queue of SpscQueue and the service DbService on top of *)
(* it, for every capacity of the queue, every width of its indices and     *)
(* every number of messages: order, exclusion and refusal of the queue;    *)
(* messages are handled in the order of the calls, session by session,     *)
(* asyncDatabaseFinalize() is synchronous, and there is one step only by   *)
(* which the worker misses its end.                                        *)
(***************************************************************************)
EXTENDS DbService, NumberLemmas, SequenceTheorems, TLAPS

-----------------------------------------------------------------------------
(* SpscQueue.                                                              *)

(* Slots and wrapped indices are in range.                                 *)
LEMMA RangeOfMod ==
    /\ QueueSize \in Nat \ {0} /\ IndexMod \in Nat \ {0}
    /\ \A n \in Int : SlotOf(n) \in Slots
    /\ \A n \in Int : Wrap(n) \in 0 .. IndexMod - 1
<1>1. QueueSize \in Nat \ {0} /\ IndexMod \in Nat \ {0}
  BY QueueSizeAssumption, IndexModAssumption
<1>2. \A n \in Int : n % QueueSize \in 0 .. QueueSize - 1 BY <1>1
<1>3. \A n \in Int : n % IndexMod \in 0 .. IndexMod - 1 BY <1>1
<1> QED BY <1>1, <1>2, <1>3 DEF Slots, SlotOf, Wrap

(* Wrapping an index loses nothing a slot or an increment depends on.      *)
LEMMA WrapKeeps ==
    ASSUME NEW n \in Nat
    PROVE  SlotOf(Wrap(n)) = SlotOf(n) /\ Wrap(Wrap(n) + 1) = Wrap(n + 1)
<1>1. IndexMod % QueueSize = 0 /\ n \in Int BY IndexModAssumption
<1>2. QueueSize \in Nat \ {0} /\ IndexMod \in Nat \ {0} BY RangeOfMod
<1>3. (n % IndexMod) % QueueSize = n % QueueSize
  BY ONLY <1>1, <1>2, ModMod, Zenon
<1>4. ((n % IndexMod) + 1) % IndexMod = (n + 1) % IndexMod
  BY ONLY <1>1, <1>2, ModSucc, Zenon
<1> QED BY <1>3, <1>4, Zenon DEF SlotOf, Wrap

(* Positions less than a capacity apart are in different slots.            *)
LEMMA DistinctSlots ==
    ASSUME NEW a \in Nat, NEW b \in Nat, a # b,
           a - b < QueueSize, b - a < QueueSize
    PROVE  SlotOf(a) # SlotOf(b)
<1>1. -QueueSize < a - b /\ a - b < QueueSize /\ a \in Int /\ b \in Int
  BY RangeOfMod
<1>2. QueueSize \in Nat \ {0} BY RangeOfMod
<1>3. a % QueueSize # b % QueueSize
  BY ONLY <1>1, <1>2, a # b, ModInjective, Zenon
<1> QED BY <1>3, Zenon DEF SlotOf

(* Positions a capacity apart are in the same slot.                        *)
LEMMA SlotPeriod ==
    ASSUME NEW a \in Nat
    PROVE  SlotOf(a + QueueSize) = SlotOf(a)
<1>1. a \in Int /\ QueueSize \in Nat \ {0} BY RangeOfMod
<1> QED BY ONLY <1>1, ModPeriod, Zenon DEF SlotOf

(* Every variable keeps its type: the flags and values stay per slot and   *)
(* the indices stay within size_t.                                         *)
LEMMA QueueTypeStart == Init => TypeOK
BY RangeOfMod DEF Init, TypeOK, Null, Unknown, ProducerOps, ConsumerOps

(* A step keeps the types.                                                 *)
LEMMA QueueTypeStep == TypeOK /\ [Next]_vars => TypeOK'
<1> SUFFICES ASSUME TypeOK, [Next]_vars PROVE TypeOK'
  OBVIOUS
<1>0. WriteSlot \in Slots /\ ReadSlot \in Slots /\ IndexDistance \in 0 .. IndexMod - 1
      /\ Wrap(writer_idx + 1) \in 0 .. IndexMod - 1
      /\ Wrap(reader_idx + 1) \in 0 .. IndexMod - 1
  <2>1. writer_idx \in Int /\ reader_idx \in Int /\ writer_idx - reader_idx \in Int
        /\ writer_idx + 1 \in Int /\ reader_idx + 1 \in Int
    BY RangeOfMod DEF TypeOK
  <2> QED BY <2>1, RangeOfMod DEF WriteSlot, ReadSlot, IndexDistance
<1>00. Unknown \in Unknown .. IndexMod - 1
  BY RangeOfMod DEF Unknown
<1> USE DEF TypeOK, ProducerOps, ConsumerOps
<1>1. CASE PStep
  <2>1. CASE PFindsRoom BY <2>1 DEF PFindsRoom, cvars
  <2>2. CASE PFindsFull BY <2>2 DEF PFindsFull, cvars
  <2>3. CASE PStoreValue BY <2>3, <1>0 DEF PStoreValue, cvars
  <2>4. CASE PStoreReady BY <2>4, <1>0 DEF PStoreReady, cvars
  <2>5. CASE PStoreIdx
    <3>1. writer_idx' \in 0 .. IndexMod - 1 /\ pview' \in Unknown .. IndexMod - 1
      BY <2>5, <1>0, <1>00, Zenon DEF PStoreIdx
    <3>2. UNCHANGED <<ready, value, reader_idx, pop, cvars, produced, consumed>> /\ ppc' = "idle"
      BY <2>5 DEF PStoreIdx
    <3> QED BY <3>1, <3>2 DEF cvars
  <2> QED BY <1>1, <2>1, <2>2, <2>3, <2>4, <2>5 DEF PStep
<1>2. CASE PSize
  BY <1>2, <1>0 DEF PSize, cvars, Unknown
<1>3. CASE \E op \in ProducerOps : PStart(op)
  BY <1>3 DEF PStart, cvars
<1>4. CASE CStep
  <2>1. CASE CClearTest BY <2>1 DEF CClearTest, pvars
  <2>2. CASE CFindsItem BY <2>2 DEF CFindsItem, pvars
  <2>3. CASE CFindsNone BY <2>3 DEF CFindsNone, pvars
  <2>4. CASE CMoveValue BY <2>4, <1>0 DEF CMoveValue, pvars, Null
  <2>5. CASE CClearReady BY <2>5, <1>0 DEF CClearReady, pvars
  <2>6. CASE CStoreIdx
    <3>1. reader_idx' \in 0 .. IndexMod - 1 /\ cview' \in Unknown .. IndexMod - 1
      BY <2>6, <1>0, <1>00, Zenon DEF CStoreIdx
    <3>2. /\ UNCHANGED <<ready, value, writer_idx, pvars, cop, cdata, produced, consumed>>
          /\ cpc' \in {"clear_test", "idle"}
      BY <2>6 DEF CStoreIdx
    <3> QED BY <3>1, <3>2 DEF pvars
  <2> QED BY <1>4, <2>1, <2>2, <2>3, <2>4, <2>5, <2>6 DEF CStep
<1>5. CASE CSize
  BY <1>5, <1>0 DEF CSize, pvars, Unknown
<1>6. CASE \E op \in ConsumerOps : CStart(op)
  BY <1>6 DEF CStart, pvars
<1>7. CASE UNCHANGED vars
  BY <1>7 DEF vars, pvars, cvars
<1> QED BY <1>1, <1>2, <1>3, <1>4, <1>5, <1>6, <1>7 DEF Next, Producer, Consumer

(* Every variable has its type at every step: no index leaves size_t and   *)
(* no slot is outside the array.                                           *)
THEOREM TypeCorrect == Spec => []TypeOK
BY QueueTypeStart, QueueTypeStep, PTL DEF Spec

(* Between operations on the indices, each thread's slot is that of the    *)
(* next position it has to fill or to empty.                               *)
LEMMA SlotsOfThreads ==
    ASSUME TypeOK, QueueInv
    PROVE  /\ ppc # "store_idx" => WriteSlot = SlotOf(produced)
           /\ cpc # "store_idx" => ReadSlot = SlotOf(consumed)
<1>1. ASSUME ppc # "store_idx" PROVE WriteSlot = SlotOf(produced)
  <2>1. writer_idx = Wrap(produced)
    BY <1>1 DEF QueueInv, IndicesTrackItems, WriterCount
  <2> QED BY <2>1, WrapKeeps DEF WriteSlot, TypeOK
<1>2. ASSUME cpc # "store_idx" PROVE ReadSlot = SlotOf(consumed)
  <2>1. reader_idx = Wrap(consumed)
    BY <1>2 DEF QueueInv, IndicesTrackItems, ReaderCount
  <2> QED BY <2>1, WrapKeeps DEF ReadSlot, TypeOK
<1> QED BY <1>1, <1>2

(* A free slot at the writer's position means the queue is not full, and   *)
(* a ready slot there that it is.                                          *)
LEMMA RoomIffFree ==
    ASSUME TypeOK, QueueInv, ppc = "test"
    PROVE  ready[WriteSlot] <=> produced = consumed + QueueSize
<1>1. WriteSlot = SlotOf(produced) /\ WriteSlot \in Slots
  BY SlotsOfThreads, RangeOfMod DEF TypeOK
<1>2. ready[WriteSlot] <=> \E n \in Live : SlotOf(n) = SlotOf(produced)
  BY <1>1 DEF QueueInv, ReadyIffLive
<1>3. ASSUME NEW n \in Live, SlotOf(n) = SlotOf(produced)
      PROVE  produced = consumed + QueueSize
  <2>1. n \in Nat /\ n # produced /\ n - produced < QueueSize
        /\ (produced # consumed + QueueSize => produced - n < QueueSize)
    BY RangeOfMod DEF Live, TypeOK, QueueInv
  <2> QED BY <1>3, <2>1, DistinctSlots DEF TypeOK
<1>4. ASSUME produced = consumed + QueueSize
      PROVE  consumed \in Live /\ SlotOf(consumed) = SlotOf(produced)
  <2>1. consumed \in Live BY <1>4, RangeOfMod DEF Live, TypeOK
  <2>3. SlotOf(consumed + QueueSize) = SlotOf(consumed)
    BY SlotPeriod DEF TypeOK
  <2> QED BY <1>4, <2>1, <2>3
<1> QED BY <1>2, <1>3, <1>4

(* A ready slot at the reader's position means there is an item to take.   *)
LEMMA ItemIffReady ==
    ASSUME TypeOK, QueueInv, cpc # "store_idx"
    PROVE  ready[ReadSlot] <=> consumed < produced
<1>1. ReadSlot = SlotOf(consumed) /\ ReadSlot \in Slots
  BY SlotsOfThreads, RangeOfMod DEF TypeOK
<1>2. ready[ReadSlot] <=> \E n \in Live : SlotOf(n) = SlotOf(consumed)
  BY <1>1 DEF QueueInv, ReadyIffLive
<1>3. (\E n \in Live : TRUE) => consumed < produced
  BY DEF Live, TypeOK
<1>4. consumed < produced => consumed \in Live
  BY DEF Live, TypeOK
<1> QED BY <1>2, <1>3, <1>4

(* The position the producer fills next is in a slot of no live item, as   *)
(* long as the queue is not full.                                          *)
LEMMA WriteSlotIsFree ==
    ASSUME TypeOK, QueueInv, produced < consumed + QueueSize, NEW n \in Live
    PROVE  n \in Nat /\ SlotOf(n) # SlotOf(produced)
<1>1. n \in Nat /\ n # produced /\ n - produced < QueueSize /\ produced - n < QueueSize
  BY RangeOfMod DEF Live, TypeOK, QueueInv
<1> QED BY <1>1, DistinctSlots DEF TypeOK

(* Every other live item lies outside the slot the consumer empties.       *)
LEMMA ReadSlotIsFirst ==
    ASSUME TypeOK, QueueInv, NEW n \in Live, n # consumed
    PROVE  n \in Nat /\ SlotOf(n) # SlotOf(consumed)
<1>1. n \in Nat /\ n - consumed < QueueSize /\ consumed - n < QueueSize
  BY RangeOfMod DEF Live, TypeOK, QueueInv
<1> QED BY <1>1, DistinctSlots DEF TypeOK

(* The inductive step: no step of either thread, in any interleaving,      *)
(* breaks the correspondence between slots, indices and items in flight.   *)
LEMMA QueueInvStep ==
    ASSUME TypeOK, TypeOK', QueueInv, [Next]_vars
    PROVE  QueueInv'
<1> USE RangeOfMod
<1>0. Live = consumed .. produced - 1 /\ produced \in Nat /\ consumed \in Nat
      /\ consumed <= produced /\ produced <= consumed + QueueSize
  BY DEF Live, QueueInv, TypeOK
<1>1. CASE PFindsRoom
  <2>1. produced < consumed + QueueSize
    BY <1>1, <1>0, RoomIffFree DEF PFindsRoom
  <2> QED BY <1>1, <1>0, <2>1 DEF PFindsRoom, QueueInv, IndicesTrackItems,
       WriterCount, ReaderCount, ReadyIffLive, LiveValues, Live, cvars
<1>2. CASE PFindsFull
  BY <1>2, <1>0 DEF PFindsFull, QueueInv, IndicesTrackItems,
     WriterCount, ReaderCount, ReadyIffLive, LiveValues, Live, cvars
<1>3. CASE PStoreValue
  <2>1. produced < consumed + QueueSize /\ WriteSlot = SlotOf(produced) /\ WriteSlot \in Slots
    BY <1>3, <1>0, SlotsOfThreads DEF PStoreValue, QueueInv
  <2>2. value' = [value EXCEPT ![SlotOf(produced)] = produced + 1] /\ Live' = Live
    BY <1>3, <2>1 DEF PStoreValue, Live
  <2>3. LiveValues'
    BY <1>3, <2>1, <2>2, WriteSlotIsFree DEF LiveValues, PStoreValue, QueueInv, cvars, TypeOK
  <2>4. value'[SlotOf(produced)] = produced + 1
    BY <2>1, <2>2 DEF TypeOK
  <2> QED BY <1>3, <1>0, <2>1, <2>3, <2>4 DEF PStoreValue, QueueInv, IndicesTrackItems,
       WriterCount, ReaderCount, ReadyIffLive, Live, cvars
<1>4. CASE PStoreReady
  <2>1. produced < consumed + QueueSize /\ WriteSlot = SlotOf(produced) /\ WriteSlot \in Slots
    BY <1>4, <1>0, SlotsOfThreads DEF PStoreReady, QueueInv
  <2>2. Live' = Live \cup {produced} /\ produced' = produced + 1 /\ consumed' = consumed
    BY <1>4, <1>0 DEF PStoreReady, Live
  <2>3. ready' = [ready EXCEPT ![SlotOf(produced)] = TRUE]
    BY <1>4, <2>1 DEF PStoreReady
  <2>4. ReadyIffLive'
    BY <2>1, <2>2, <2>3 DEF ReadyIffLive, QueueInv, TypeOK
  <2>5. LiveValues'
    BY <1>4, <2>2 DEF LiveValues, PStoreReady, QueueInv, cvars
  <2>6. IndicesTrackItems'
    BY <1>4, <1>0, <2>1 DEF PStoreReady, QueueInv, IndicesTrackItems, WriterCount, ReaderCount, cvars
  <2> QED BY <1>4, <1>0, <2>1, <2>2, <2>4, <2>5, <2>6 DEF PStoreReady, QueueInv, cvars
<1>5. CASE PStoreIdx
  <2>1. produced - 1 \in Nat /\ writer_idx = Wrap(produced - 1) /\ produced - 1 + 1 = produced
    BY <1>5, <1>0 DEF PStoreIdx, QueueInv, IndicesTrackItems, WriterCount
  <2>2. writer_idx' = Wrap(produced)
    BY <1>5, <2>1, WrapKeeps DEF PStoreIdx
  <2>3. IndicesTrackItems'
    <3>1. WriterCount' = produced /\ ReaderCount' = ReaderCount
          /\ ReaderCount \in {consumed, consumed - 1}
          /\ (ReaderCount = consumed - 1 => cpc = "store_idx")
          /\ reader_idx' = reader_idx /\ cpc' = cpc /\ ppc' = "idle"
      BY <1>5, <1>0 DEF PStoreIdx, WriterCount, ReaderCount, cvars
    <3>2. reader_idx = Wrap(ReaderCount) BY DEF QueueInv, IndicesTrackItems
    <3>3. writer_idx' = Wrap(WriterCount') /\ reader_idx' = Wrap(ReaderCount')
      BY <3>1, <3>2, <2>2
    <3>4. produced - ReaderCount \in 0 .. QueueSize + 1
          /\ (produced - ReaderCount > QueueSize => cpc = "store_idx")
      BY <3>1, <1>0
    <3>5. ~(produced < ReaderCount) BY <3>1, <1>0
    <3>6. produced - ReaderCount \in -1 .. QueueSize + 1 BY <3>4
    <3> QED BY <3>1, <3>3, <3>4, <3>5, <3>6, Zenon DEF IndicesTrackItems
  <2> QED BY <1>5, <1>0, <2>3 DEF PStoreIdx, QueueInv, ReadyIffLive, LiveValues, Live, cvars
<1>6. CASE PSize \/ \E op \in ProducerOps : PStart(op)
  BY <1>6, <1>0 DEF PSize, PStart, QueueInv, IndicesTrackItems,
     WriterCount, ReaderCount, ReadyIffLive, LiveValues, Live, cvars
<1>7. CASE CClearTest \/ CFindsNone \/ CSize \/ \E op \in ConsumerOps : CStart(op)
  BY <1>7, <1>0 DEF CClearTest, CFindsNone, CSize, CStart, QueueInv, IndicesTrackItems,
     WriterCount, ReaderCount, ReadyIffLive, LiveValues, Live, pvars
<1>8. CASE CFindsItem
  <2>1. consumed < produced
    BY <1>8, ItemIffReady DEF CFindsItem
  <2> QED BY <1>8, <1>0, <2>1 DEF CFindsItem, QueueInv, IndicesTrackItems,
       WriterCount, ReaderCount, ReadyIffLive, LiveValues, Live, pvars
<1>9. CASE CMoveValue
  <2>1. consumed < produced /\ ReadSlot = SlotOf(consumed) /\ ReadSlot \in Slots
    BY <1>9, <1>0, SlotsOfThreads DEF CMoveValue, QueueInv
  <2>2. value' = [value EXCEPT ![SlotOf(consumed)] = Null] /\ Live' = Live
    BY <1>9, <2>1 DEF CMoveValue, Live
  <2>3. cdata' = consumed + 1
    <3>1. consumed \in Live /\ cpc # "clear_ready"
      BY <1>9, <1>0, <2>1 DEF CMoveValue
    <3>2. value[SlotOf(consumed)] = consumed + 1
      BY <3>1 DEF QueueInv, LiveValues
    <3> QED BY <1>9, <2>1, <3>2 DEF CMoveValue
  <2>4. LiveValues'
    BY <1>9, <2>1, <2>2, ReadSlotIsFirst DEF LiveValues, CMoveValue, QueueInv, TypeOK
  <2>5. ppc = "store_ready" => value'[SlotOf(produced)] = produced + 1
    <3>1. ASSUME ppc = "store_ready" PROVE SlotOf(consumed) # SlotOf(produced)
      <4>1. consumed \in Live /\ produced < consumed + QueueSize
        BY <3>1, <1>0, <2>1 DEF QueueInv
      <4> QED BY <4>1, WriteSlotIsFree
    <3>2. SlotOf(produced) \in Slots BY <1>0
    <3> QED BY <3>1, <3>2, <2>2 DEF QueueInv, TypeOK
  <2> QED BY <1>9, <1>0, <2>1, <2>3, <2>4, <2>5 DEF CMoveValue, QueueInv, IndicesTrackItems,
       WriterCount, ReaderCount, ReadyIffLive, Live, pvars
<1>10. CASE CClearReady
  <2>1. consumed < produced /\ ReadSlot = SlotOf(consumed) /\ ReadSlot \in Slots
    BY <1>10, <1>0, SlotsOfThreads DEF CClearReady, QueueInv
  <2>2. Live' = Live \ {consumed} /\ produced' = produced /\ consumed' = consumed + 1
    BY <1>10, <1>0 DEF CClearReady, Live, pvars
  <2>3. ready' = [ready EXCEPT ![SlotOf(consumed)] = FALSE]
    BY <1>10, <2>1 DEF CClearReady
  <2>4. ReadyIffLive'
    BY <2>1, <2>2, <2>3, ReadSlotIsFirst DEF ReadyIffLive, QueueInv, TypeOK
  <2>5. LiveValues'
    BY <1>10, <1>0, <2>2 DEF LiveValues, CClearReady, QueueInv
  <2>6. IndicesTrackItems'
    BY <1>10, <1>0, <2>1, <2>2 DEF CClearReady, QueueInv, IndicesTrackItems, WriterCount, ReaderCount, pvars
  <2> QED BY <1>10, <1>0, <2>1, <2>2, <2>4, <2>5, <2>6 DEF CClearReady, QueueInv, pvars
<1>11. CASE CStoreIdx
  <2>1. consumed - 1 \in Nat /\ reader_idx = Wrap(consumed - 1) /\ consumed - 1 + 1 = consumed
    BY <1>11, <1>0 DEF CStoreIdx, QueueInv, IndicesTrackItems, ReaderCount
  <2>2. reader_idx' = Wrap(consumed)
    BY <1>11, <2>1, WrapKeeps DEF CStoreIdx
  <2>3. IndicesTrackItems'
    <3>1. ReaderCount' = consumed /\ WriterCount' = WriterCount
          /\ WriterCount \in {produced, produced - 1}
          /\ (WriterCount = produced - 1 => ppc = "store_idx")
          /\ writer_idx' = writer_idx /\ ppc' = ppc
      BY <1>11, <1>0 DEF CStoreIdx, WriterCount, ReaderCount, pvars
    <3>2. writer_idx = Wrap(WriterCount) BY DEF QueueInv, IndicesTrackItems
    <3>3. writer_idx' = Wrap(WriterCount') /\ reader_idx' = Wrap(ReaderCount')
      BY <3>1, <3>2, <2>2
    <3>4. WriterCount - consumed \in -1 .. QueueSize + 1
          /\ (WriterCount < consumed => ppc = "store_idx")
      BY <3>1, <1>0
    <3>5. ~(WriterCount - consumed > QueueSize) BY <3>1, <1>0
    <3> QED BY <3>1, <3>3, <3>4, <3>5, Zenon DEF IndicesTrackItems
  <2> QED BY <1>11, <1>0, <2>3 DEF CStoreIdx, QueueInv, ReadyIffLive, LiveValues, Live, pvars
<1>12. CASE UNCHANGED vars
  BY <1>12 DEF vars, pvars, cvars, QueueInv, IndicesTrackItems,
     WriterCount, ReaderCount, ReadyIffLive, LiveValues, Live
<1> QED BY <1>1, <1>2, <1>3, <1>4, <1>5, <1>6, <1>7, <1>8, <1>9, <1>10, <1>11, <1>12
    DEF Next, Producer, Consumer, PStep, CStep

(* The initial queue satisfies it.                                         *)
LEMMA QueueInvStart == ASSUME Init PROVE QueueInv
<1>1. Live = {} BY DEF Init, Live
<1>2. 0 = IndexMod * 0 + 0 /\ 0 \in 0 .. IndexMod - 1 BY RangeOfMod
<1>3. 0 % IndexMod = 0 BY RangeOfMod, <1>2, ModUnique
<1>4. IndicesTrackItems
  BY <1>3, RangeOfMod DEF Init, IndicesTrackItems, WriterCount, ReaderCount, Wrap
<1>5. ReadyIffLive /\ LiveValues BY <1>1 DEF Init, ReadyIffLive, LiveValues
<1> QED BY <1>4, <1>5, RangeOfMod DEF Init, QueueInv

(* QueueInv holds throughout: the flags, values and indices always         *)
(* describe the same items in flight.                                      *)
THEOREM QueueCorrect == Spec => []QueueInv
<1>1. Init => QueueInv BY QueueInvStart
<1>2. TypeOK /\ TypeOK' /\ QueueInv /\ [Next]_vars => QueueInv' BY QueueInvStep
<1> QED BY <1>1, <1>2, TypeCorrect, PTL DEF Spec

(* Every item is handed out exactly once, in the order of production.      *)
THEOREM FifoHolds == Spec => []Fifo
<1>1. QueueInv => Fifo BY DEF QueueInv, Fifo
<1> QED BY <1>1, QueueCorrect, PTL

(* The two threads never touch the value of one slot at the same time.     *)
THEOREM NoDataRaceHolds == Spec => []NoDataRace
<1>1. TypeOK /\ QueueInv => NoDataRace
  <2> SUFFICES ASSUME TypeOK, QueueInv, ppc = "store_value", cpc = "move_value",
                      WriteSlot = ReadSlot
               PROVE  FALSE
    BY DEF NoDataRace
  <2>1. consumed \in Live /\ produced < consumed + QueueSize
    BY DEF QueueInv, Live, TypeOK
  <2>2. SlotOf(consumed) # SlotOf(produced) BY <2>1, WriteSlotIsFree
  <2> QED BY <2>2, SlotsOfThreads
<1> QED BY <1>1, TypeCorrect, QueueCorrect, PTL

(* No operation is refused without cause: a try_produce only when every    *)
(* slot holds an item not yet taken, a try_consume only when none does.    *)
THEOREM RefusalsHold == Spec => RefusalsAreReal
<1>1. TypeOK /\ QueueInv /\ [Next]_vars
      => /\ ppc = "test" /\ ppc' = "idle" => produced - consumed = QueueSize
         /\ cpc = "test" /\ cpc' = "idle" => produced = consumed
  <2> SUFFICES ASSUME TypeOK, QueueInv, [Next]_vars
               PROVE  /\ ppc = "test" /\ ppc' = "idle" => produced - consumed = QueueSize
                      /\ cpc = "test" /\ cpc' = "idle" => produced = consumed
    OBVIOUS
  <2> USE DEF Next, Producer, Consumer, PStep, CStep, PFindsRoom, PFindsFull, PStoreValue,
          PStoreReady, PStoreIdx, PSize, PStart, CClearTest, CFindsItem, CFindsNone, CMoveValue,
          CClearReady, CStoreIdx, CSize, CStart, vars, pvars, cvars
  <2>1. ASSUME ppc = "test", ppc' = "idle" PROVE produced - consumed = QueueSize
    <3>1. PFindsFull BY <2>1
    <3>2. produced = consumed + QueueSize BY <3>1, RoomIffFree
    <3> QED BY <3>2, RangeOfMod DEF TypeOK
  <2>2. ASSUME cpc = "test", cpc' = "idle" PROVE produced = consumed
    <3>1. CFindsNone BY <2>2
    <3>2. ~(consumed < produced) BY <3>1, ItemIffReady
    <3> QED BY <3>2 DEF QueueInv, TypeOK
  <2> QED BY <2>1, <2>2
<1> QED BY <1>1, TypeCorrect, QueueCorrect, PTL DEF Spec, RefusalsAreReal

(* clear() leaves nothing behind of which produce() has returned: equal    *)
(* indices mean equal counts, although the indices wrap around.            *)
THEOREM ClearDrainsHolds == Spec => ClearDrains
<1>1. TypeOK /\ QueueInv /\ [Next]_vars
      => (cpc = "clear_test" /\ cpc' = "idle" => consumed = WriterCount)
  <2> SUFFICES ASSUME TypeOK, QueueInv, [Next]_vars, cpc = "clear_test", cpc' = "idle"
               PROVE  consumed = WriterCount
    OBVIOUS
  <2>1. CClearTest /\ IndexDistance = 0
    BY DEF Next, Producer, Consumer, PStep, CStep, PFindsRoom, PFindsFull, PStoreValue,
       PStoreReady, PStoreIdx, PSize, PStart, CClearTest, CFindsItem, CFindsNone, CMoveValue,
       CClearReady, CStoreIdx, CSize, CStart, vars, cvars
  <2>2. /\ WriterCount \in Int /\ ReaderCount = consumed /\ consumed \in Int
        /\ WriterCount - consumed < IndexMod /\ consumed - WriterCount < IndexMod
    <3>1. WriterCount \in Int /\ ReaderCount = consumed /\ consumed \in Int
      BY DEF WriterCount, ReaderCount, TypeOK
    <3>2. -1 <= WriterCount - consumed /\ WriterCount - consumed <= QueueSize
      BY <3>1, RangeOfMod DEF QueueInv, IndicesTrackItems
    <3>3. QueueSize < IndexMod /\ IndexMod > 1
      BY QueueSizeAssumption, IndexModAssumption
    <3> QED BY <3>1, <3>2, <3>3, RangeOfMod
  <2>3. writer_idx = reader_idx
    <3>1. writer_idx \in 0 .. IndexMod - 1 /\ reader_idx \in 0 .. IndexMod - 1 BY DEF TypeOK
    <3>2. (writer_idx - reader_idx) % IndexMod = 0 % IndexMod
      BY <2>1, RangeOfMod DEF IndexDistance, Wrap
    <3>3. /\ writer_idx - reader_idx \in Int /\ 0 \in Int
          /\ -IndexMod < (writer_idx - reader_idx) - 0 /\ (writer_idx - reader_idx) - 0 < IndexMod
      BY <3>1, RangeOfMod
    <3>4. writer_idx - reader_idx = 0
      BY ONLY <3>2, <3>3, RangeOfMod, ModInjective, Zenon
    <3> QED BY <3>1, <3>4, RangeOfMod
  <2>4. WriterCount % IndexMod = consumed % IndexMod
    BY <2>2, <2>3 DEF QueueInv, IndicesTrackItems, Wrap
  <2>5. -IndexMod < WriterCount - consumed /\ WriterCount - consumed < IndexMod
    BY <2>2, RangeOfMod
  <2> QED BY ONLY <2>2, <2>4, <2>5, RangeOfMod, ModInjective, Zenon
<1> QED BY <1>1, TypeCorrect, QueueCorrect, PTL DEF Spec, ClearDrains

-----------------------------------------------------------------------------
(* What size() tells, and the refinement of the bounded buffer.            *)

(* An operation that is under way was begun within the bound.              *)
BoundInv == ppc \notin {"idle", "store_idx"} => produced < MaxProduced

(* What size() last told a thread that has moved no item since is the      *)
(* difference of its own count and one the other thread had then, which    *)
(* can only have grown.                                                    *)
ViewsInv ==
    /\ pview # Unknown /\ ppc # "store_idx" =>
          \E r \in 0 .. ReaderCount :
              r <= produced /\ produced <= r + QueueSize + 1 /\ pview = Wrap(produced - r)
    /\ cview # Unknown /\ cpc # "store_idx" =>
          \E w \in 0 .. WriterCount : consumed <= w + 1 /\ cview = Wrap(w - consumed)

(* size() is the difference of the counts, in the width of size_t.         *)
LEMMA DistanceIs ==
    ASSUME TypeOK, QueueInv
    PROVE  /\ WriterCount \in Nat /\ ReaderCount \in Nat
           /\ IndexDistance = Wrap(WriterCount - ReaderCount)
<1>1. WriterCount \in Nat /\ ReaderCount \in Nat
  BY DEF WriterCount, ReaderCount, TypeOK, QueueInv
<1>2. writer_idx = WriterCount % IndexMod /\ reader_idx = ReaderCount % IndexMod
  BY DEF QueueInv, IndicesTrackItems, Wrap
<1>3. (writer_idx - reader_idx) % IndexMod = (WriterCount - ReaderCount) % IndexMod
  <2>1. PICK a \in Int, b \in Int : a = WriterCount /\ b = ReaderCount BY <1>1
  <2>2. ((a % IndexMod) - (b % IndexMod)) % IndexMod = (a - b) % IndexMod
    BY RangeOfMod, ModDifference
  <2> QED BY <1>2, <2>1, <2>2
<1> QED BY <1>1, <1>3 DEF IndexDistance, Wrap

(* Every step keeps the bound and what size() has told true.               *)
LEMMA ViewsStep ==
    ASSUME TypeOK, TypeOK', QueueInv, QueueInv', BoundInv, ViewsInv, [Next]_vars
    PROVE  BoundInv' /\ ViewsInv'
<1>0. /\ produced \in Nat /\ consumed \in Nat /\ QueueSize \in Nat \ {0}
      /\ WriterCount \in Nat /\ ReaderCount \in Nat
      /\ WriterCount' \in Nat /\ ReaderCount' \in Nat
  <2>1. WriterCount' \in Nat /\ ReaderCount' \in Nat
    <3>1. (TypeOK /\ QueueInv => WriterCount \in Nat /\ ReaderCount \in Nat)' BY DistanceIs, PTL
    <3> QED BY <3>1
  <2> QED BY <2>1, DistanceIs, RangeOfMod DEF TypeOK
<1> USE <1>0
<1>1. CASE PFindsRoom \/ PFindsFull \/ PStoreValue
  BY <1>1 DEF PFindsRoom, PFindsFull, PStoreValue, BoundInv, ViewsInv, WriterCount, ReaderCount, cvars
<1>2. CASE PStoreReady
  <2>1. WriterCount' = WriterCount BY <1>2 DEF PStoreReady, WriterCount
  <2> QED BY <1>2, <2>1 DEF PStoreReady, BoundInv, ViewsInv, cvars
<1>3. CASE PStoreIdx
  <2>1. WriterCount <= WriterCount' BY <1>3 DEF PStoreIdx, WriterCount
  <2> QED BY <1>3, <2>1 DEF PStoreIdx, BoundInv, ViewsInv, cvars
<1>4. CASE PSize
  <2>1. WriterCount = produced /\ ReaderCount' = ReaderCount /\ WriterCount' = WriterCount
        /\ produced' = produced
    BY <1>4 DEF PSize, WriterCount, ReaderCount, cvars
  <2>2. ReaderCount <= produced /\ produced <= ReaderCount + QueueSize + 1
    BY <1>4, <2>1 DEF QueueInv, IndicesTrackItems, PSize
  <2>3. pview' = Wrap(produced - ReaderCount) BY <1>4, <2>1, DistanceIs DEF PSize
  <2> QED BY <1>4, <2>1, <2>2, <2>3 DEF PSize, BoundInv, ViewsInv, cvars
<1>5. CASE \E op \in ProducerOps : PStart(op)
  BY <1>5 DEF PStart, BoundInv, ViewsInv, WriterCount, ReaderCount, cvars
<1>6. CASE CClearTest \/ CFindsItem \/ CFindsNone \/ CMoveValue
  BY <1>6 DEF CClearTest, CFindsItem, CFindsNone, CMoveValue, BoundInv, ViewsInv, WriterCount,
     ReaderCount, pvars
<1>7. CASE CClearReady
  <2>1. ReaderCount' = ReaderCount BY <1>7 DEF CClearReady, ReaderCount
  <2>2. WriterCount' = WriterCount BY <1>7 DEF CClearReady, WriterCount, pvars
  <2> QED BY <1>7, <2>1, <2>2 DEF CClearReady, BoundInv, ViewsInv, pvars
<1>8. CASE CStoreIdx
  <2>1. ReaderCount <= ReaderCount' BY <1>8 DEF CStoreIdx, ReaderCount
  <2> QED BY <1>8, <2>1 DEF CStoreIdx, BoundInv, ViewsInv, pvars
<1>9. CASE CSize
  <2>1. ReaderCount = consumed /\ ReaderCount' = ReaderCount /\ WriterCount' = WriterCount
        /\ consumed' = consumed
    BY <1>9 DEF CSize, WriterCount, ReaderCount, pvars
  <2>2. consumed <= WriterCount + 1 BY <2>1 DEF QueueInv, IndicesTrackItems
  <2>3. cview' = Wrap(WriterCount - consumed) BY <1>9, <2>1, DistanceIs DEF CSize
  <2> QED BY <1>9, <2>1, <2>2, <2>3 DEF CSize, BoundInv, ViewsInv, pvars
<1>10. CASE \E op \in ConsumerOps : CStart(op)
  BY <1>10 DEF CStart, BoundInv, ViewsInv, WriterCount, ReaderCount, pvars
<1>11. CASE UNCHANGED vars
  BY <1>11 DEF vars, pvars, cvars, BoundInv, ViewsInv, WriterCount, ReaderCount
<1> QED BY <1>1, <1>2, <1>3, <1>4, <1>5, <1>6, <1>7, <1>8, <1>9, <1>10, <1>11
    DEF Next, Producer, Consumer, PStep, CStep

(* Both hold at every step.                                                *)
LEMMA ViewsInvariant == Spec => [](BoundInv /\ ViewsInv)
<1>1. Init => BoundInv /\ ViewsInv BY DEF Init, BoundInv, ViewsInv
<1>2. /\ TypeOK /\ TypeOK' /\ QueueInv /\ QueueInv' /\ (BoundInv /\ ViewsInv) /\ [Next]_vars
      => (BoundInv /\ ViewsInv)'
  BY ViewsStep
<1> QED BY <1>1, <1>2, TypeCorrect, QueueCorrect, PTL DEF Spec

(* What size() says can be relied on this far: a producer refused next was *)
(* told the capacity, or one more, and a consumer refused next was told 0, *)
(* or 0 - 1 in a size_t.                                                   *)
THEOREM SizesHold == Spec => SizesAreReal
<1>1. TypeOK /\ QueueInv /\ ViewsInv /\ [Next]_vars
      => /\ ppc = "test" /\ ppc' = "idle" => pview \in {Unknown, QueueSize, QueueSize + 1}
         /\ cpc = "test" /\ cpc' = "idle" => cview \in {Unknown, 0, IndexMod - 1}
  <2> SUFFICES ASSUME TypeOK, QueueInv, ViewsInv, [Next]_vars
               PROVE  /\ ppc = "test" /\ ppc' = "idle" => pview \in {Unknown, QueueSize, QueueSize + 1}
                      /\ cpc = "test" /\ cpc' = "idle" => cview \in {Unknown, 0, IndexMod - 1}
    OBVIOUS
  <2>0. /\ produced \in Nat /\ consumed \in Nat /\ QueueSize \in Nat \ {0}
        /\ IndexMod \in Nat \ {0} /\ QueueSize + 1 < IndexMod
    BY RangeOfMod, IndexModAssumption DEF TypeOK
  <2> USE <2>0
  <2>1. ASSUME ppc = "test", ppc' = "idle", pview # Unknown
        PROVE  pview \in {QueueSize, QueueSize + 1}
    <3>1. PFindsFull
      BY <2>1 DEF Next, Producer, Consumer, PStep, CStep, PFindsRoom, PFindsFull, PStoreValue,
         PStoreReady, PStoreIdx, PSize, PStart, CClearTest, CFindsItem, CFindsNone, CMoveValue,
         CClearReady, CStoreIdx, CSize, CStart, vars, pvars
    <3>2. produced = consumed + QueueSize BY <3>1, RoomIffFree DEF PFindsFull
    <3>3. PICK r \in Nat : /\ r <= ReaderCount /\ produced <= r + QueueSize + 1
                          /\ pview = Wrap(produced - r)
      BY <2>1 DEF ViewsInv
    <3>4. r <= consumed BY <3>3 DEF ReaderCount
    <3>5. PICK d \in {QueueSize, QueueSize + 1} : d = produced - r
      BY <3>2, <3>3, <3>4
    <3>6. d = IndexMod * 0 + d /\ d \in 0 .. IndexMod - 1 /\ d \in Int OBVIOUS
    <3>7. d % IndexMod = d BY <3>6, 0 \in Int, ModUnique
    <3> QED BY <3>3, <3>5, <3>7 DEF Wrap
  <2>2. ASSUME cpc = "test", cpc' = "idle", cview # Unknown
        PROVE  cview \in {0, IndexMod - 1}
    <3>1. CFindsNone
      BY <2>2 DEF Next, Producer, Consumer, PStep, CStep, PFindsRoom, PFindsFull, PStoreValue,
         PStoreReady, PStoreIdx, PSize, PStart, CClearTest, CFindsItem, CFindsNone, CMoveValue,
         CClearReady, CStoreIdx, CSize, CStart, vars, cvars
    <3>2. produced = consumed BY <3>1, ItemIffReady DEF CFindsNone, QueueInv
    <3>3. PICK w \in Nat : w <= WriterCount /\ consumed <= w + 1 /\ cview = Wrap(w - consumed)
      BY <2>2 DEF ViewsInv
    <3>4. w <= produced BY <3>3 DEF WriterCount
    <3>5. PICK d \in {0, -1} : d = w - consumed BY <3>2, <3>3, <3>4
    <3>6. CASE d = 0
      <4>1. d = IndexMod * 0 + 0 /\ 0 \in 0 .. IndexMod - 1 BY <3>6
      <4>2. d % IndexMod = 0 BY <4>1, 0 \in Int, <3>6, ModUnique
      <4> QED BY <3>3, <3>5, <4>2 DEF Wrap
    <3>7. CASE d = -1
      <4>1. PICK r \in 0 .. IndexMod - 1 : r = IndexMod - 1 OBVIOUS
      <4>2. d = IndexMod * (-1) + r BY <3>7, <4>1
      <4>3. d % IndexMod = r BY <4>2, -1 \in Int, <3>7, ModUnique
      <4> QED BY <3>3, <3>5, <4>1, <4>3 DEF Wrap
    <3> QED BY <3>5, <3>6, <3>7
  <2> QED BY <2>1, <2>2
<1> QED BY <1>1, TypeCorrect, QueueCorrect, ViewsInvariant, PTL DEF Spec, SizesAreReal

(* The items in the queue, as the abstract buffer has them: consecutive    *)
(* numbers.                                                                *)
Window(first, last) == [k \in 1 .. last - first |-> first + k]

(* A window is a sequence with one number for every item in the queue.     *)
LEMMA WindowIsSeq ==
    ASSUME NEW c \in Nat, NEW p \in Nat, c <= p
    PROVE  Window(c, p) \in Seq(Nat) /\ Len(Window(c, p)) = p - c
<1>1. PICK n \in Nat : n = p - c OBVIOUS
<1>2. Window(c, p) \in [1 .. n -> Nat] BY <1>1 DEF Window
<1>3. Window(c, p) \in Seq(Nat) BY <1>2, SeqDef
<1>4. DOMAIN Window(c, p) = 1 .. n BY <1>2
<1>5. Len(Window(c, p)) = n BY <1>3, <1>4
<1> QED BY <1>1, <1>3, <1>5

(* The buffer with one more item, and without its first.                   *)
LEMMA WindowGrows ==
    ASSUME NEW c \in Nat, NEW p \in Nat, c <= p
    PROVE  Window(c, p + 1) = Append(Window(c, p), p + 1)
<1> DEFINE s == Append(Window(c, p), p + 1)
           t == Window(c, p + 1)
<1>1. Window(c, p) \in Seq(Nat) /\ Len(Window(c, p)) = p - c BY WindowIsSeq
<1>2. t \in Seq(Nat) /\ Len(t) = p + 1 - c BY WindowIsSeq
<1>3. s \in Seq(Nat) /\ Len(s) = p + 1 - c BY <1>1
<1>4. ASSUME NEW i \in 1 .. Len(t) PROVE t[i] = s[i]
  <2>1. t[i] = c + i BY <1>2 DEF Window
  <2>2. s[i] = IF i = p - c + 1 THEN p + 1 ELSE Window(c, p)[i] BY <1>1, <1>2
  <2>3. i # p - c + 1 => Window(c, p)[i] = c + i BY <1>2 DEF Window
  <2>4. CASE i = p - c + 1
    <3>1. s[i] = p + 1 BY <2>2, <2>4
    <3>2. c + i = p + 1 BY <2>4
    <3> QED BY <2>1, <3>1, <3>2
  <2>5. CASE i # p - c + 1
    <3>1. s[i] = c + i BY <2>2, <2>3, <2>5
    <3> QED BY <2>1, <3>1
  <2> QED BY <2>4, <2>5
<1> HIDE DEF s, t
<1>5. t = s BY <1>2, <1>3, <1>4, SeqEqual
<1> QED BY <1>5 DEF s, t

(* Taking an item takes the head of the window.                            *)
LEMMA WindowShrinks ==
    ASSUME NEW c \in Nat, NEW p \in Nat, c < p
    PROVE  /\ Window(c, p) # <<>> /\ Head(Window(c, p)) = c + 1
           /\ Window(c + 1, p) = Tail(Window(c, p))
<1> DEFINE w == Window(c, p)
           s == Tail(w)
           t == Window(c + 1, p)
<1>1. w \in Seq(Nat) /\ Len(w) = p - c /\ w # <<>>
  <2>1. w \in Seq(Nat) /\ Len(w) = p - c BY WindowIsSeq
  <2> QED BY <2>1, EmptySeq
<1>2. t \in Seq(Nat) /\ Len(t) = p - (c + 1) BY WindowIsSeq
<1>3. /\ s \in Seq(Nat) /\ Len(s) = p - (c + 1)
      /\ \A i \in 1 .. Len(s) : s[i] = w[i + 1]
  <2> HIDE DEF w
  <2> QED BY <1>1, HeadTailProperties
<1>4. ASSUME NEW i \in 1 .. Len(t) PROVE t[i] = s[i]
  <2>1. t[i] = c + 1 + i BY <1>2 DEF Window
  <2>2. w[i + 1] = c + (i + 1) BY <1>2 DEF Window
  <2> QED BY <2>1, <2>2, <1>2, <1>3
<1>5. Head(w) = c + 1 BY <1>1 DEF Window
<1> HIDE DEF s, t, w
<1>6. t = s BY <1>2, <1>3, <1>4, SeqEqual
<1> QED BY <1>1, <1>5, <1>6 DEF s, t, w

(* The slots hold exactly the items produced and not yet consumed, in      *)
(* order.                                                                  *)
LEMMA ContentsAre ==
    ASSUME TypeOK, QueueInv
    PROVE  Contents = Window(consumed, produced)
<1>1. produced \in Nat /\ consumed \in Nat BY DEF TypeOK
<1>2. ASSUME NEW k \in 1 .. produced - consumed
      PROVE  (IF k = 1 /\ cpc = "clear_ready" THEN cdata ELSE value[SlotOf(consumed + k - 1)])
               = consumed + k
  <2>1. PICK n \in Live : n = consumed + k - 1 BY <1>1 DEF Live
  <2>2. (n = consumed /\ cpc = "clear_ready") \/ value[SlotOf(n)] = n + 1
    BY DEF QueueInv, LiveValues
  <2>3. cpc = "clear_ready" => cdata = consumed + 1 BY DEF QueueInv
  <2>4. n + 1 = consumed + k /\ (n = consumed <=> k = 1) BY <1>1, <2>1
  <2> QED BY <2>1, <2>2, <2>3, <2>4
<1> QED BY <1>2 DEF Contents, Window

(* Every step of the queue is a step of the buffer or leaves it as it is.  *)
LEMMA FifoStep ==
    ASSUME TypeOK, TypeOK', QueueInv, QueueInv', BoundInv, [Next]_vars
    PROVE  [Abstract!Next]_(Abstract!fifoVars)
<1>0. /\ produced \in Nat /\ consumed \in Nat /\ consumed <= produced /\ QueueSize \in Nat \ {0}
  BY RangeOfMod DEF TypeOK, QueueInv
<1>1. Contents = Window(consumed, produced) /\ Contents' = Window(consumed', produced')
  <2>1. TypeOK /\ QueueInv => Contents = Window(consumed, produced) BY ContentsAre
  <2>2. (TypeOK /\ QueueInv => Contents = Window(consumed, produced))' BY ContentsAre, PTL
  <2>3. Window(consumed, produced)' = Window(consumed', produced') BY DEF Window
  <2> QED BY <2>1, <2>2, <2>3
<1>2. CASE PStoreReady
  <2>1. produced' = produced + 1 /\ consumed' = consumed BY <1>2 DEF PStoreReady
  <2>2. produced < MaxProduced /\ produced < consumed + QueueSize
    BY <1>2 DEF PStoreReady, BoundInv, QueueInv
  <2>3. Contents' = Append(Contents, produced') BY <1>0, <1>1, <2>1, WindowGrows
  <2>4. Len(Contents) < QueueSize
    <3>1. Len(Contents) = produced - consumed BY <1>0, <1>1, WindowIsSeq
    <3> QED BY <3>1, <1>0, <2>2
  <2>5. Abstract!Put BY <2>1, <2>2, <2>3, <2>4 DEF Abstract!Put
  <2> QED BY <2>5 DEF Abstract!Next
<1>3. CASE CClearReady
  <2>1. consumed' = consumed + 1 /\ produced' = produced BY <1>3 DEF CClearReady
  <2>2. consumed < produced BY <1>3 DEF CClearReady, QueueInv
  <2>3. /\ Contents # <<>> /\ consumed' = Head(Contents) /\ Contents' = Tail(Contents)
    BY <1>0, <1>1, <2>1, <2>2, WindowShrinks
  <2>4. Abstract!Take BY <2>1, <2>3 DEF Abstract!Take
  <2> QED BY <2>4 DEF Abstract!Next
<1>4. ASSUME ~PStoreReady, ~CClearReady PROVE UNCHANGED <<Contents, produced, consumed>>
  <2>1. produced' = produced /\ consumed' = consumed
    BY <1>4 DEF Next, Producer, Consumer, PStep, CStep, PFindsRoom, PFindsFull, PStoreValue,
       PStoreReady, PStoreIdx, PSize, PStart, CClearTest, CFindsItem, CFindsNone, CMoveValue,
       CClearReady, CStoreIdx, CSize, CStart, vars
  <2> QED BY <2>1, <1>1
<1> QED BY <1>2, <1>3, <1>4 DEF Abstract!fifoVars

(* The queue implements the bounded FIFO buffer: an item enters when its   *)
(* ready flag is stored and leaves when the flag is cleared, whatever the  *)
(* indices say meanwhile, for every capacity and every width of an index.  *)
THEOREM ImplementsFifoHolds == Spec => ImplementsFifo
<1>1. Init => Abstract!Init
  <2> SUFFICES ASSUME Init PROVE Abstract!Init OBVIOUS
  <2>1. produced = 0 /\ consumed = 0 BY DEF Init
  <2>2. Contents = <<>> BY <2>1 DEF Contents
  <2> QED BY <2>1, <2>2 DEF Abstract!Init
<1>2. /\ TypeOK /\ TypeOK' /\ QueueInv /\ QueueInv' /\ BoundInv /\ [Next]_vars
      => [Abstract!Next]_(Abstract!fifoVars)
  BY FifoStep
<1> QED BY <1>1, <1>2, TypeCorrect, QueueCorrect, ViewsInvariant, PTL
    DEF Spec, ImplementsFifo, Abstract!Spec

-----------------------------------------------------------------------------
(* DbService: the inductive invariant, by who keeps which part.            *)

Last == kinds[Len(kinds)]

\* The message the client is producing is not in the queue yet.
InHand == ppc \in {"test", "store_value", "store_ready"}

\* The worker has an item that its handler was not given yet.
Taken == wpc = "visit" /\ cpc \in {"idle", "store_idx"}

(* The client uses the queue only inside its calls, and every call that    *)
(* produces has named its message before.                                  *)
ProducerInv ==
    /\ pop = "produce"
    /\ ppc # "idle" => dpc \in {"produce", "produce_last"}
    /\ Len(kinds) = IF InHand THEN produced + 1 ELSE produced

(* The worker waits for one item at a time and hands it to its handler     *)
(* before it looks for the next one.                                       *)
ConsumerInv ==
    /\ cop = "consume" /\ cpc # "clear_test"
    /\ cpc # "idle" => wpc = "visit"
    /\ Taken => consumed > 0 /\ cdata = consumed
    /\ Len(handled) = IF Taken THEN consumed - 1 ELSE consumed
    /\ \A n \in 1 .. Len(handled) : handled[n] = n

(* Sessions begin with Initialize and end with Finalize.                   *)
KindsInv ==
    \A n \in 1 .. Len(kinds) :
        kinds[n] = "Initialize" <=> (n = 1 \/ kinds[n - 1] = "Finalize")

(* Outside a session there is no worker and nothing is left to handle.     *)
OutsideInv ==
    dpc \in {"spawn", "destroyed"} \/ (dpc = "idle" /\ ~running) =>
        /\ wpc = "none" /\ ~joinable
        /\ Len(handled) = Len(kinds)
        /\ kinds = <<>> \/ Last = "Finalize"

(* Inside one the worker runs until the client has asked it to stop.       *)
InsideInv ==
    /\ dpc = "spawn" => running
    /\ dpc = "produce" \/ (dpc = "idle" /\ running) =>
        /\ running /\ wpc \in {"loop", "visit"} /\ joinable
        /\ kinds # <<>> /\ Last # "Finalize"
    /\ dpc \in {"produce_last", "join"} =>
        /\ wpc \in {"loop", "visit", "exited"} /\ joinable
        /\ kinds # <<>> /\ Last = "Finalize"

(* A Finalize not handled yet is the last message, and running_ is false   *)
(* for a worker that has handled it.                                       *)
FinalizeInv ==
    /\ \A n \in Len(handled) + 1 .. Len(kinds) - 1 : kinds[n] # "Finalize"
    /\ wpc = "exited" => ~running
    /\ wpc # "none" /\ ~running => Len(handled) = Len(kinds)

(* What is said of client and worker together holds until the program      *)
(* terminates.                                                             *)
ServiceInv ==
    /\ DbTypeOK /\ QueueInv
    /\ ProducerInv /\ ConsumerInv /\ KindsInv
    /\ ~crashed => OutsideInv /\ InsideInv /\ FinalizeInv

-----------------------------------------------------------------------------
(* The queue under the service.                                            *)

(* Whatever the service does is a step of the queue or leaves it alone, so *)
(* that what is proved of the queue holds under the service.               *)
LEMMA QueueSteps == ASSUME [DbNext]_dbVars PROVE [Next]_vars
<1> USE DEF ProducerOps, ConsumerOps
<1>1. ASSUME NEW kind, Send(kind) PROVE Next
  BY <1>1 DEF Send, Next, Producer
<1>2. CASE ClientCall
  BY <1>1, <1>2 DEF ClientCall, ClientInitialize, ClientRequest, ClientFinalize, ClientDestroyStopped
<1>3. CASE ClientStep
  BY <1>1, <1>3 DEF ClientStep, ClientSpawn, ClientProduced, ClientJoin, QueueStep, Next, Producer
<1>4. CASE WorkerStep
  BY <1>4 DEF WorkerStep, WorkerLoop, WorkerExit, WorkerHandle, QueueStep, Next, Consumer
<1>5. CASE UNCHANGED dbVars BY <1>5 DEF dbVars
<1> QED BY <1>2, <1>3, <1>4, <1>5 DEF DbNext

(* The service uses the queue as one producer and one consumer do, so that *)
(* what was proved of the queue holds of it here.                          *)
LEMMA QueueUnderService ==
    ASSUME ServiceInv, [DbNext]_dbVars
    PROVE  TypeOK' /\ QueueInv'
<1>1. TypeOK /\ QueueInv /\ [Next]_vars BY QueueSteps DEF ServiceInv, DbTypeOK
<1>2. TypeOK' BY <1>1, QueueTypeStep
<1> QED BY <1>1, <1>2, QueueInvStep

(* A message the client names becomes the last one, and the others stay.   *)
LEMMA SendAppends ==
    ASSUME DbTypeOK, NEW kind \in Kinds, Send(kind)
    PROVE  /\ kinds' \in Seq(Kinds) /\ Len(kinds') = Len(kinds) + 1 /\ Len(kinds) \in Nat
           /\ kinds'[Len(kinds) + 1] = kind
           /\ \A n \in 1 .. Len(kinds) : kinds'[n] = kinds[n]
BY DEF DbTypeOK, Send

(* The item a handler is given becomes the last one handled.               *)
LEMMA HandleAppends ==
    ASSUME DbTypeOK, WorkerHandle
    PROVE  /\ handled' \in Seq(Nat) /\ Len(handled') = Len(handled) + 1 /\ Len(handled) \in Nat
           /\ handled'[Len(handled) + 1] = cdata
           /\ \A n \in 1 .. Len(handled) : handled'[n] = handled[n]
BY DEF DbTypeOK, TypeOK, WorkerHandle

(* What the steps of the two threads inside the queue change.              *)
LEMMA ProducerSteps ==
    ASSUME DbTypeOK, ProducerInv, QueueStep(PStep)
    PROVE  /\ UNCHANGED <<serviceVars, cvars, pop, consumed>>
           /\ ppc # "idle"
           /\ \/ InHand' = InHand /\ produced' = produced
              \/ InHand /\ ~InHand' /\ produced' = produced + 1
<1>1. UNCHANGED serviceVars BY DEF QueueStep
<1> QED
  BY <1>1 DEF QueueStep, PStep, PFindsRoom, PFindsFull, PStoreValue, PStoreReady, PStoreIdx,
     InHand, ProducerInv

(* What a step of the queue inside get_data() does for the service thread. *)
LEMMA ConsumerSteps ==
    ASSUME DbTypeOK, QueueInv, ConsumerInv, QueueStep(CStep)
    PROVE  /\ UNCHANGED <<serviceVars, pvars, cop, produced>>
           /\ wpc = "visit" /\ cpc # "idle" /\ cpc' # "clear_test"
           /\ \/ ~Taken /\ ~Taken' /\ consumed' = consumed
              \/ ~Taken /\ Taken' /\ consumed' = consumed + 1 /\ cdata' = consumed'
              \/ Taken /\ Taken' /\ consumed' = consumed /\ cdata' = cdata
<1>1. UNCHANGED serviceVars BY DEF QueueStep
<1>2. wpc' = wpc BY <1>1 DEF serviceVars
<1>3. cop = "consume" BY DEF ConsumerInv
<1>4. CASE CClearTest \/ CFindsItem \/ CFindsNone
  BY <1>1, <1>2, <1>3, <1>4 DEF CClearTest, CFindsItem, CFindsNone, Taken, ConsumerInv
<1>5. CASE CMoveValue
  BY <1>1, <1>2, <1>3, <1>5 DEF CMoveValue, Taken, ConsumerInv
<1>6. CASE CClearReady
  <2>1. cdata = consumed + 1 BY <1>6 DEF CClearReady, QueueInv
  <2> QED BY <1>1, <1>2, <1>3, <1>6, <2>1 DEF CClearReady, Taken, ConsumerInv
<1>7. CASE CStoreIdx
  BY <1>1, <1>2, <1>3, <1>7 DEF CStoreIdx, Taken, ConsumerInv
<1> QED BY <1>4, <1>5, <1>6, <1>7 DEF QueueStep, CStep

-----------------------------------------------------------------------------
(* Each part of the invariant is kept.                                     *)

(* The client's calls that produce, by what they have in common.           *)
LEMMA SendingCalls ==
    ASSUME DbTypeOK,
           ClientSpawn \/ (\E kind \in {"Upgrade", "Cleanup"} : ClientRequest(kind)) \/ ClientFinalize
    PROVE  /\ \E kind \in Kinds : Send(kind)
           /\ dpc \in {"spawn", "idle"} /\ dpc' \in {"produce", "produce_last"}
           /\ handled' = handled
BY DEF ClientSpawn, ClientRequest, ClientFinalize, Kinds

(* The client knows which message it is sending.                           *)
LEMMA ProducerStep == ASSUME ServiceInv, [DbNext]_dbVars PROVE ProducerInv'
<1>0. DbTypeOK /\ ProducerInv BY DEF ServiceInv
<1> USE <1>0 DEF ProducerInv
<1>1. CASE ClientSpawn \/ (\E kind \in {"Upgrade", "Cleanup"} : ClientRequest(kind)) \/ ClientFinalize
  <2>1. PICK kind \in Kinds : Send(kind) BY <1>1, SendingCalls
  <2>2. ppc = "idle" /\ ppc' = "test" /\ pop' = "produce" /\ produced' = produced
    BY <2>1 DEF Send, PStart
  <2>3. Len(kinds') = produced + 1 BY <2>1, <2>2, SendAppends DEF InHand
  <2> QED BY <1>1, <2>2, <2>3, SendingCalls DEF InHand
<1>2. CASE ClientInitialize \/ ClientDestroyStopped
  BY <1>2 DEF ClientInitialize, ClientDestroyStopped, vars, pvars, InHand
<1>3. CASE ClientProduced
  BY <1>3 DEF ClientProduced, vars, pvars, InHand
<1>4. CASE ClientJoin
  BY <1>4 DEF ClientJoin, vars, pvars, InHand
<1>5. CASE QueueStep(PStep)
  <2>1. /\ kinds' = kinds /\ dpc' = dpc /\ pop' = pop /\ ppc # "idle"
        /\ \/ InHand' = InHand /\ produced' = produced
           \/ InHand /\ ~InHand' /\ produced' = produced + 1
    BY <1>5, ProducerSteps DEF serviceVars
  <2> QED BY <2>1
<1>6. CASE WorkerLoop \/ WorkerExit \/ WorkerHandle
  BY <1>6 DEF WorkerLoop, WorkerExit, WorkerHandle, CStart, vars, pvars, InHand
<1>7. CASE QueueStep(CStep)
  <2>1. UNCHANGED <<serviceVars, pvars, produced>>
    BY <1>7, ConsumerSteps DEF ServiceInv
  <2> QED BY <2>1 DEF serviceVars, pvars, InHand
<1>8. CASE UNCHANGED dbVars BY <1>8 DEF dbVars, serviceVars, vars, pvars, InHand
<1> QED BY <1>1, <1>2, <1>3, <1>4, <1>5, <1>6, <1>7, <1>8
    DEF DbNext, ClientCall, ClientStep, WorkerStep

(* The service thread knows which message it has in its hands.             *)
LEMMA ConsumerStep == ASSUME ServiceInv, [DbNext]_dbVars PROVE ConsumerInv'
<1>0. DbTypeOK /\ QueueInv /\ ConsumerInv BY DEF ServiceInv
<1> USE <1>0 DEF ConsumerInv
<1>1. CASE ClientSpawn
  <2>1. UNCHANGED <<cvars, consumed, handled>> /\ wpc' = "loop"
    BY <1>1 DEF ClientSpawn, Send, PStart
  <2>2. wpc = "none"
    BY <1>1 DEF ServiceInv, OutsideInv, ClientSpawn, DbNext, dbVars, serviceVars, DbTypeOK
  <2> QED BY <2>1, <2>2 DEF cvars, Taken
<1>2. CASE (\E kind \in {"Upgrade", "Cleanup"} : ClientRequest(kind)) \/ ClientFinalize
  BY <1>2 DEF ClientRequest, ClientFinalize, Send, PStart, cvars, Taken
<1>3. CASE ClientInitialize \/ ClientDestroyStopped \/ ClientProduced
  BY <1>3 DEF ClientInitialize, ClientDestroyStopped, ClientProduced, vars, cvars, Taken
<1>4. CASE ClientJoin
  BY <1>4 DEF ClientJoin, vars, cvars, Taken
<1>5. CASE QueueStep(PStep)
  <2>1. UNCHANGED <<serviceVars, cvars, consumed>> BY <1>5, ProducerSteps DEF ServiceInv
  <2> QED BY <2>1 DEF serviceVars, cvars, Taken
<1>6. CASE WorkerLoop
  BY <1>6 DEF WorkerLoop, CStart, Taken
<1>7. CASE WorkerExit
  BY <1>7 DEF WorkerExit, vars, cvars, Taken
<1>8. CASE WorkerHandle
  <2>1. Taken /\ ~Taken' /\ UNCHANGED <<cvars, consumed>> /\ cpc = "idle"
    BY <1>8 DEF WorkerHandle, vars, Taken
  <2>2. Len(handled) = consumed - 1 /\ cdata = consumed /\ consumed \in Nat
    BY <2>1 DEF DbTypeOK, TypeOK
  <2>3. Len(handled') = consumed /\ handled'[Len(handled) + 1] = Len(handled) + 1
    BY <1>8, <2>2, HandleAppends
  <2>4. \A n \in 1 .. Len(handled') : handled'[n] = n
    BY <1>8, <2>2, <2>3, HandleAppends
  <2> QED BY <2>1, <2>3, <2>4 DEF cvars
<1>9. CASE QueueStep(CStep)
  <2>1. UNCHANGED serviceVars /\ cop' = cop /\ wpc = "visit" /\ cpc' # "clear_test"
    BY <1>9, ConsumerSteps
  <2>2. \/ ~Taken /\ ~Taken' /\ consumed' = consumed
        \/ ~Taken /\ Taken' /\ consumed' = consumed + 1 /\ cdata' = consumed'
        \/ Taken /\ Taken' /\ consumed' = consumed /\ cdata' = cdata
    BY <1>9, ConsumerSteps
  <2>3. consumed \in Nat BY DEF DbTypeOK, TypeOK
  <2>4. handled' = handled /\ wpc' = wpc BY <2>1 DEF serviceVars
  <2> QED BY <2>1, <2>2, <2>3, <2>4
<1>10. CASE UNCHANGED dbVars BY <1>10 DEF dbVars, serviceVars, vars, cvars, Taken
<1> QED BY <1>1, <1>2, <1>3, <1>4, <1>5, <1>6, <1>7, <1>8, <1>9, <1>10
    DEF DbNext, ClientCall, ClientStep, WorkerStep

(* Messages are appended in the order a session allows.                    *)
LEMMA KindsStep == ASSUME ServiceInv, [DbNext]_dbVars PROVE KindsInv'
<1>0. DbTypeOK /\ KindsInv BY DEF ServiceInv
<1> USE <1>0 DEF KindsInv
<1>1. ASSUME NEW kind \in Kinds, Send(kind),
             kind = "Initialize" <=> (kinds = <<>> \/ Last = "Finalize")
      PROVE  KindsInv'
  <2> DEFINE L == Len(kinds)
  <2>1. /\ Len(kinds') = L + 1 /\ L \in Nat /\ kinds'[L + 1] = kind
        /\ \A n \in 1 .. L : kinds'[n] = kinds[n]
    BY <1>1, SendAppends
  <2>2. kinds = <<>> <=> L = 0 BY EmptySeq DEF DbTypeOK
  <2>3. ASSUME NEW n \in 1 .. L + 1
        PROVE  kinds'[n] = "Initialize" <=> (n = 1 \/ kinds'[n - 1] = "Finalize")
    <3>1. CASE n <= L
      <4>1. kinds'[n] = kinds[n] /\ (n # 1 => kinds'[n - 1] = kinds[n - 1]) BY <2>1, <3>1
      <4>2. n \in 1 .. L BY <2>1, <3>1
      <4> QED BY <4>1, <4>2
    <3>2. CASE n = L + 1
      <4>1. L # 0 => kinds'[n - 1] = Last BY <2>1, <3>2 DEF Last
      <4> QED BY <1>1, <2>1, <2>2, <3>2, <4>1
    <3> QED BY <2>1, <3>1, <3>2
  <2> QED BY <2>1, <2>3
<1>2. CASE ClientSpawn
  <2>1. Send("Initialize") /\ "Initialize" \in Kinds BY <1>2 DEF ClientSpawn, Kinds
  <2>2. kinds = <<>> \/ Last = "Finalize"
    BY <1>2 DEF ServiceInv, OutsideInv, ClientSpawn, DbNext, dbVars, serviceVars, DbTypeOK
  <2> QED BY <1>1, <2>1, <2>2
<1>3. ASSUME NEW kind \in {"Upgrade", "Cleanup", "Finalize"}, Send(kind), ~crashed,
             dpc = "idle", running
      PROVE  KindsInv'
  <2>1. kinds # <<>> /\ Last # "Finalize" BY <1>3 DEF ServiceInv, InsideInv
  <2>2. kind \in Kinds BY DEF Kinds
  <2> QED BY <1>1, <1>3, <2>1, <2>2
<1>4. CASE kinds' = kinds BY <1>4
<1>5. CASE DbNext /\ \E kind \in {"Upgrade", "Cleanup"} : ClientRequest(kind)
  BY <1>3, <1>5 DEF ClientRequest, DbNext
<1>6. CASE DbNext /\ ClientFinalize BY <1>3, <1>6 DEF ClientFinalize, DbNext
<1>7. CASE ClientInitialize \/ ClientDestroyStopped \/ ClientProduced \/ ClientJoin
  BY <1>4, <1>7 DEF ClientInitialize, ClientDestroyStopped, ClientProduced, ClientJoin
<1>8. CASE WorkerLoop \/ WorkerExit \/ WorkerHandle
  BY <1>4, <1>8 DEF WorkerLoop, WorkerExit, WorkerHandle
<1>9. CASE UNCHANGED serviceVars BY <1>4, <1>9 DEF serviceVars
<1> QED BY <1>2, <1>5, <1>6, <1>7, <1>8, <1>9
    DEF DbNext, ClientCall, ClientStep, WorkerStep, QueueStep, dbVars

(* The variables of the service keep their types.                          *)
LEMMA ServiceTypeStep == ASSUME ServiceInv, [DbNext]_dbVars PROVE DbTypeOK'
<1>0. DbTypeOK /\ TypeOK' /\ ProducerInv'
  BY QueueUnderService, ProducerStep DEF ServiceInv
<1>1. Len(kinds') <= produced' + 1
  <2>1. PICK p \in Nat : p = produced' BY <1>0 DEF TypeOK
  <2>2. PICK l : l = Len(kinds') /\ l = IF InHand' THEN p + 1 ELSE p
    BY <1>0, <2>1 DEF ProducerInv
  <2>3. l <= p + 1 BY <2>2
  <2> QED BY <2>1, <2>2, <2>3
<1>2. kinds' \in Seq(Kinds)
  <2>1. CASE ClientSpawn \/ (\E kind \in {"Upgrade", "Cleanup"} : ClientRequest(kind)) \/ ClientFinalize
    BY <1>0, <2>1, SendingCalls, SendAppends
  <2>2. CASE kinds' = kinds BY <1>0, <2>2 DEF DbTypeOK
  <2> QED
    BY <2>1, <2>2 DEF DbNext, ClientCall, ClientStep, WorkerStep, QueueStep, ClientInitialize,
       ClientDestroyStopped, ClientProduced, ClientJoin, WorkerLoop, WorkerExit, WorkerHandle,
       dbVars, serviceVars
<1>3. handled' \in Seq(Nat)
  <2>1. CASE WorkerHandle BY <1>0, <2>1, HandleAppends
  <2>2. CASE handled' = handled BY <1>0, <2>2 DEF DbTypeOK
  <2> QED
    BY <2>1, <2>2 DEF DbNext, ClientCall, ClientStep, WorkerStep, QueueStep, ClientInitialize,
       ClientSpawn, ClientRequest, ClientFinalize, ClientDestroyStopped, ClientProduced, ClientJoin,
       WorkerLoop, WorkerExit, dbVars, serviceVars
<1> USE <1>0, <1>1, <1>2, <1>3 DEF DbTypeOK, ClientStates
<1>4. CASE ClientInitialize \/ ClientDestroyStopped \/ ClientProduced \/ ClientJoin
  BY <1>4 DEF ClientInitialize, ClientDestroyStopped, ClientProduced, ClientJoin
<1>5. CASE ClientSpawn BY <1>5 DEF ClientSpawn
<1>6. CASE (\E kind \in {"Upgrade", "Cleanup"} : ClientRequest(kind)) \/ ClientFinalize
  BY <1>6 DEF ClientRequest, ClientFinalize
<1>7. CASE WorkerLoop \/ WorkerExit BY <1>7 DEF WorkerLoop, WorkerExit
<1>8. CASE WorkerHandle
  <2>1. running' \in BOOLEAN /\ crashed' \in BOOLEAN
    BY <1>8 DEF WorkerHandle, IsFinalize
  <2> QED BY <1>8, <2>1 DEF WorkerHandle
<1>9. CASE UNCHANGED serviceVars BY <1>9 DEF serviceVars
<1> QED BY <1>4, <1>5, <1>6, <1>7, <1>8, <1>9
    DEF DbNext, ClientCall, ClientStep, WorkerStep, QueueStep, dbVars

(* A handler is given the next message of the session, so that the first   *)
(* Finalize it meets is the last message there is.                         *)
LEMMA HandledIsNext ==
    ASSUME ServiceInv, ~crashed, WorkerHandle
    PROVE  /\ cdata = Len(handled) + 1 /\ cdata \in 1 .. Len(kinds)
           /\ running
           /\ dpc \in {"idle", "produce", "produce_last", "join"}
           /\ IsFinalize(cdata) <=> cdata = Len(kinds) /\ dpc \in {"produce_last", "join"}
<1>1. Taken /\ wpc = "visit" BY DEF WorkerHandle, Taken
<1>2. /\ cdata = consumed /\ consumed > 0 /\ Len(handled) = consumed - 1 /\ consumed \in Nat
      /\ consumed <= produced /\ produced \in Nat
  BY <1>1 DEF ServiceInv, ConsumerInv, QueueInv, DbTypeOK, TypeOK
<1>3. Len(kinds) >= produced /\ Len(kinds) \in Nat
  BY <1>2 DEF ServiceInv, ProducerInv, DbTypeOK
<1>4. cdata = Len(handled) + 1 /\ cdata \in 1 .. Len(kinds) BY <1>2, <1>3
<1>5. running BY <1>1, <1>4 DEF ServiceInv, FinalizeInv
<1>6. dpc \in {"idle", "produce", "produce_last", "join"}
  BY <1>1 DEF ServiceInv, OutsideInv, DbTypeOK, ClientStates
<1>7. cdata # Len(kinds) => kinds[cdata] # "Finalize"
  BY <1>3, <1>4 DEF ServiceInv, FinalizeInv
<1>8. Last = "Finalize" <=> dpc \in {"produce_last", "join"}
  BY <1>5, <1>6 DEF ServiceInv, InsideInv
<1>9. cdata # Null BY <1>2 DEF Null
<1> QED BY <1>4, <1>5, <1>6, <1>7, <1>8, <1>9 DEF IsFinalize, Last

(* A session begins, is left and ends only as the client and the worker    *)
(* agree.                                                                  *)
LEMMA SessionStep ==
    ASSUME ServiceInv, [DbNext]_dbVars, ~crashed'
    PROVE  OutsideInv' /\ InsideInv' /\ FinalizeInv'
<1>1. ~crashed
  BY DEF DbNext, dbVars, serviceVars
<1>2. DbTypeOK /\ OutsideInv /\ InsideInv /\ FinalizeInv BY <1>1 DEF ServiceInv
<1> USE <1>1, <1>2
<1>3. CASE ClientInitialize
  BY <1>3 DEF ClientInitialize, OutsideInv, InsideInv, FinalizeInv, Last
<1>4. CASE ClientSpawn
  <2>1. PICK kind \in Kinds : kind = "Initialize" /\ Send(kind) BY <1>4 DEF ClientSpawn, Kinds
  <2>2. /\ Len(kinds') = Len(kinds) + 1 /\ Len(kinds) \in Nat /\ kinds' \in Seq(Kinds)
        /\ kinds'[Len(kinds) + 1] = "Initialize" /\ \A n \in 1 .. Len(kinds) : kinds'[n] = kinds[n]
    BY <2>1, SendAppends
  <2>3. dpc = "spawn" /\ dpc' = "produce" /\ wpc' = "loop" /\ joinable' /\ handled' = handled
        /\ running' = running
    BY <1>4 DEF ClientSpawn
  <2>4. Last' = "Initialize" /\ kinds' # <<>> BY <2>2, EmptySeq DEF Last
  <2>5. Len(handled) = Len(kinds) /\ running BY <2>3 DEF OutsideInv, InsideInv
  <2>6. \A n \in Len(handled') + 1 .. Len(kinds') - 1 : kinds'[n] # "Finalize" BY <2>2, <2>3, <2>5
  <2> QED BY <2>3, <2>4, <2>5, <2>6 DEF OutsideInv, InsideInv, FinalizeInv
<1>5. ASSUME NEW kind \in {"Upgrade", "Cleanup", "Finalize"}, Send(kind), dpc = "idle", running,
             dpc' = IF kind = "Finalize" THEN "produce_last" ELSE "produce",
             UNCHANGED <<running, joinable, wpc, handled>>
      PROVE  OutsideInv' /\ InsideInv' /\ FinalizeInv'
  <2>1. kind \in Kinds BY DEF Kinds
  <2>2. /\ Len(kinds') = Len(kinds) + 1 /\ Len(kinds) \in Nat /\ kinds' \in Seq(Kinds)
        /\ kinds'[Len(kinds) + 1] = kind /\ \A n \in 1 .. Len(kinds) : kinds'[n] = kinds[n]
    BY <1>5, <2>1, SendAppends
  <2>3. Last' = kind /\ kinds' # <<>> BY <2>2, EmptySeq DEF Last
  <2>4. /\ wpc \in {"loop", "visit"} /\ joinable /\ Last # "Finalize"
    BY <1>5 DEF InsideInv
  <2>5. \A n \in Len(handled) + 1 .. Len(kinds) : kinds[n] # "Finalize"
    BY <2>2, <2>4 DEF FinalizeInv, Last, DbTypeOK
  <2>6. \A n \in Len(handled') + 1 .. Len(kinds') - 1 : kinds'[n] # "Finalize"
    BY <1>5, <2>2, <2>5 DEF DbTypeOK
  <2> QED BY <1>5, <2>3, <2>4, <2>6 DEF OutsideInv, InsideInv, FinalizeInv
<1>6. CASE \E kind \in {"Upgrade", "Cleanup"} : ClientRequest(kind)
  BY <1>5, <1>6 DEF ClientRequest
<1>7. CASE ClientFinalize BY <1>5, <1>7 DEF ClientFinalize
<1>8. CASE ClientDestroyStopped
  BY <1>8 DEF ClientDestroyStopped, OutsideInv, InsideInv, FinalizeInv, Last
<1>9. CASE ClientProduced
  BY <1>9 DEF ClientProduced, OutsideInv, InsideInv, FinalizeInv, Last
<1>10. CASE ClientJoin
  BY <1>10 DEF ClientJoin, OutsideInv, InsideInv, FinalizeInv, Last
<1>11. CASE WorkerLoop
  BY <1>11 DEF WorkerLoop, OutsideInv, InsideInv, FinalizeInv, Last
<1>12. CASE WorkerExit
  BY <1>12 DEF WorkerExit, OutsideInv, InsideInv, FinalizeInv, Last, DbTypeOK, ClientStates
<1>13. CASE WorkerHandle
  <2>1. /\ cdata = Len(handled) + 1 /\ cdata \in 1 .. Len(kinds) /\ running
        /\ dpc \in {"idle", "produce", "produce_last", "join"}
        /\ IsFinalize(cdata) <=> cdata = Len(kinds) /\ dpc \in {"produce_last", "join"}
    BY <1>13, HandledIsNext
  <2>2. /\ running' = (running /\ ~IsFinalize(cdata)) /\ wpc = "visit" /\ wpc' = "loop"
        /\ UNCHANGED <<joinable, dpc, kinds>>
    BY <1>13 DEF WorkerHandle
  <2>3. Len(handled') = Len(handled) + 1 /\ Len(handled) \in Nat BY <1>13, HandleAppends
  <2>4. Last' = Last BY <2>2 DEF Last
  <2>5. OutsideInv' /\ InsideInv'
    BY <2>1, <2>2, <2>4 DEF OutsideInv, InsideInv
  <2>6. running' \/ Len(handled') = Len(kinds') BY <2>1, <2>2, <2>3
  <2>7. \A n \in Len(handled') + 1 .. Len(kinds') - 1 : kinds'[n] # "Finalize"
    BY <2>2, <2>3 DEF FinalizeInv, DbTypeOK
  <2> QED BY <2>2, <2>5, <2>6, <2>7 DEF FinalizeInv
<1>14. CASE UNCHANGED serviceVars
  BY <1>14 DEF serviceVars, OutsideInv, InsideInv, FinalizeInv, Last
<1> QED BY <1>3, <1>4, <1>6, <1>7, <1>8, <1>9, <1>10, <1>11, <1>12, <1>13, <1>14
    DEF DbNext, ClientCall, ClientStep, WorkerStep, QueueStep, dbVars

-----------------------------------------------------------------------------
(* The invariant and what follows from it.                                 *)

(* Before init() nothing was sent and no session is open.                  *)
LEMMA ServiceStart == ASSUME DbInit PROVE ServiceInv
<1>1. TypeOK /\ QueueInv BY QueueTypeStart, QueueInvStart DEF DbInit
<1>2. kinds \in Seq(Kinds) /\ Len(kinds) = 0 /\ handled \in Seq(Nat) /\ Len(handled) = 0
  BY EmptySeq DEF DbInit
<1>3. produced = 0 /\ consumed = 0 BY DEF DbInit, Init
<1>4. DbTypeOK
  <2>1. PICK l \in Nat : l = Len(kinds) /\ l = 0 BY <1>2
  <2>2. l <= 0 + 1 BY <2>1
  <2>3. Len(kinds) <= produced + 1 BY <1>3, <2>1, <2>2
  <2> QED BY <1>1, <1>2, <2>3 DEF DbInit, DbTypeOK, ClientStates
<1>5. ProducerInv /\ ConsumerInv /\ KindsInv
  BY <1>2, <1>3 DEF DbInit, Init, ProducerInv, ConsumerInv, KindsInv, InHand, Taken
<1>6. OutsideInv /\ InsideInv /\ FinalizeInv
  BY <1>2 DEF DbInit, OutsideInv, InsideInv, FinalizeInv
<1> QED BY <1>1, <1>4, <1>5, <1>6 DEF ServiceInv

(* Everything above holds at every step.                                   *)
LEMMA ServiceInvariant == DbSpec => []ServiceInv
<1>1. DbInit => ServiceInv BY ServiceStart
<1>2. ServiceInv /\ [DbNext]_dbVars => ServiceInv'
  <2> SUFFICES ASSUME ServiceInv, [DbNext]_dbVars PROVE ServiceInv' OBVIOUS
  <2> QED BY QueueUnderService, ServiceTypeStep, ProducerStep, ConsumerStep, KindsStep, SessionStep
      DEF ServiceInv
<1> QED BY <1>1, <1>2, PTL DEF DbSpec

(* Messages are handled one by one in the order of the calls, across       *)
(* sessions that reuse the queue, and in every session Initialize first    *)
(* and nothing after Finalize.                                             *)
THEOREM SessionsInOrderHolds == DbSpec => []SessionsInOrder
<1>1. ServiceInv => SessionsInOrder
  <2> SUFFICES ASSUME ServiceInv PROVE SessionsInOrder OBVIOUS
  <2>1. DbTypeOK /\ ConsumerInv /\ KindsInv BY DEF ServiceInv
  <2>2. Len(handled) <= Len(kinds)
    <3>1. consumed \in Nat /\ produced \in Nat /\ consumed <= produced
      BY DEF ServiceInv, QueueInv, DbTypeOK, TypeOK
    <3>2. Len(handled) <= consumed /\ produced <= Len(kinds)
      BY <3>1 DEF ServiceInv, ConsumerInv, ProducerInv
    <3> QED BY <2>1, <3>1, <3>2 DEF DbTypeOK
  <2>3. \A n \in 1 .. Len(handled) : n \in 1 .. Len(kinds) BY <2>1, <2>2 DEF DbTypeOK
  <2> QED BY <2>1, <2>3 DEF SessionsInOrder, ConsumerInv, KindsInv
<1> QED BY <1>1, ServiceInvariant, PTL

(* asyncDatabaseFinalize() returns only when the worker has handled every  *)
(* message, the Finalize last.                                             *)
THEOREM FinalizeIsSynchronousHolds == DbSpec => FinalizeIsSynchronous
<1>1. ServiceInv /\ [DbNext]_dbVars
      => (dpc = "join" /\ dpc' = "idle" =>
            Len(handled) = Len(kinds) /\ kinds[Len(kinds)] = "Finalize" /\ ~running)
  <2> SUFFICES ASSUME ServiceInv, [DbNext]_dbVars, dpc = "join", dpc' = "idle"
               PROVE  Len(handled) = Len(kinds) /\ kinds[Len(kinds)] = "Finalize" /\ ~running
    OBVIOUS
  <2>1. ClientJoin /\ ~crashed
    BY DEF DbNext, ClientCall, ClientStep, WorkerStep, QueueStep, ClientInitialize, ClientSpawn,
       ClientRequest, ClientFinalize, ClientDestroyStopped, ClientProduced, ClientJoin,
       WorkerLoop, WorkerExit, WorkerHandle, dbVars, serviceVars
  <2>2. InsideInv /\ FinalizeInv BY <2>1 DEF ServiceInv
  <2>3. wpc = "exited" BY <2>1 DEF ClientJoin
  <2> QED BY <2>2, <2>3 DEF InsideInv, FinalizeInv, Last
<1> QED BY <1>1, ServiceInvariant, PTL DEF DbSpec, FinalizeIsSynchronous

(* A worker told to stop waits for a message that will not come only if it *)
(* looked at the queue after the store of ready and before the store of    *)
(* writer_idx_: at any other time empty() tells it the truth.              *)
THEOREM TrapsOnlyAtStoreHolds == DbSpec => TrapsOnlyAtStore
<1>1. ServiceInv /\ [DbNext]_dbVars
      => (wpc = "loop" /\ wpc' = "visit" /\ ~running => ppc = "store_idx")
  <2> SUFFICES ASSUME ServiceInv, [DbNext]_dbVars, wpc = "loop", wpc' = "visit", ~running,
                      ppc # "store_idx"
               PROVE  FALSE
    OBVIOUS
  <2>1. WorkerLoop /\ ~crashed
    BY DEF DbNext, ClientCall, ClientStep, WorkerStep, QueueStep, ClientInitialize, ClientSpawn,
       ClientRequest, ClientFinalize, ClientDestroyStopped, ClientProduced, ClientJoin,
       WorkerLoop, WorkerExit, WorkerHandle, dbVars, serviceVars
  <2>2. IndexDistance # 0 /\ cpc = "idle" BY <2>1 DEF WorkerLoop, CStart
  <2>3. /\ produced \in Nat /\ consumed \in Nat /\ consumed <= produced
        /\ TypeOK /\ QueueInv
    BY DEF ServiceInv, QueueInv, DbTypeOK, TypeOK
  <2>4. Len(handled) = Len(kinds) BY <2>1 DEF ServiceInv, FinalizeInv
  <2>5. Len(handled) = consumed BY DEF ServiceInv, ConsumerInv, Taken
  <2>6. Len(kinds) = produced \/ Len(kinds) = produced + 1 BY DEF ServiceInv, ProducerInv
  <2>7. produced = consumed BY <2>3, <2>4, <2>5, <2>6
  <2>8. WriterCount = produced /\ ReaderCount = consumed
    BY <2>2 DEF WriterCount, ReaderCount
  <2>9. IndexDistance = Wrap(0) BY <2>3, <2>7, <2>8, DistanceIs
  <2>10. Wrap(0) = 0
    <3>1. 0 = IndexMod * 0 + 0 /\ 0 \in 0 .. IndexMod - 1 BY RangeOfMod
    <3> QED BY <3>1, RangeOfMod, ModUnique DEF Wrap
  <2> QED BY <2>2, <2>9, <2>10
<1> QED BY <1>1, ServiceInvariant, PTL DEF DbSpec, TrapsOnlyAtStore
=============================================================================
