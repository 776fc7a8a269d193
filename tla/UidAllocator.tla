---------------------------- MODULE UidAllocator ----------------------------
(***************************************************************************)
(* BitmapUIDAllocator of uid_allocator/bitmap_uid_allocator.hpp.  The      *)
(* array of 64-bit words is the set of the positions whose bit is 1;       *)
(* position p is bit p % WordBits of word p \div WordBits.  Arithmetic is  *)
(* that of uint32_t.                                                       *)
(***************************************************************************)
EXTENDS Integers, FiniteSets

CONSTANTS
    MIN_UID, MAX_UID,           \* template parameters
    WordBits,                   \* bits of a bitmap word (64)
    UintMod                     \* 2^w for the width w of a uint32_t

\* static_assert(MIN_UID < MAX_UID), both of type uint32_t.
ASSUME RangeAssumption ==
    /\ MIN_UID \in Nat /\ MAX_UID \in Nat /\ UintMod \in Nat
    /\ MIN_UID < MAX_UID /\ MAX_UID < UintMod
ASSUME WordAssumption == WordBits \in Nat \ {0}

VARIABLES
    CYCLIC,   \* the third template parameter, the same throughout
    bitmap_,  \* positions whose bit is set
    bit_,     \* where the search in the current word goes on
    index_,   \* the current word
    count_,   \* ids allocated
    uid       \* what the last allocate() returned

uidVars == <<CYCLIC, bitmap_, bit_, index_, count_, uid>>

UID_COUNT == (MAX_UID - MIN_UID + 1) % UintMod
UID_SLOTS == ((UID_COUNT + WordBits - 1) % UintMod) \div WordBits

Failed == 0

Words == 0 .. UID_SLOTS - 1
WordStart(index) == index * WordBits
Word(index) == WordStart(index) .. WordStart(index) + WordBits - 1
Positions == 0 .. UID_SLOTS * WordBits - 1
Unset(index) == Word(index) \ bitmap_

\* get(index, bit): wraps around in 32 bits.
Get(position) == (position + MIN_UID) % UintMod

Least(S) == CHOOSE p \in S : \A q \in S : p <= q

-----------------------------------------------------------------------------
UidInit ==
    /\ CYCLIC \in BOOLEAN
    /\ bitmap_ = {}
    /\ bit_ = 0
    /\ index_ = 0
    /\ count_ = 0
    /\ uid = Failed

\* Defect: the rest of the word is offered without a look at its bits.
RestOfWordUntested ==
    {p \in Word(index_) : p >= WordStart(index_) + bit_ /\ Get(p) <= MAX_UID}

\* The rest of the current word: free positions the loop reaches before one
\* whose id is above MAX_UID ends it.
RestOfWord ==
    {p \in Unset(index_) :
        /\ p >= WordStart(index_) + bit_
        /\ \A q \in WordStart(index_) + bit_ .. p : Get(q) <= MAX_UID}

\* Words whose first clear bit (find) stands for an id of the range.
UsableWords == {w \in Words : Unset(w) # {} /\ Get(Least(Unset(w))) <= MAX_UID}

\* The second loop visits the words from "start" on, going round.
ScanStart == IF CYCLIC THEN (index_ + 1) % UID_SLOTS ELSE index_
ScanDistance(w) == (w - ScanStart) % UID_SLOTS
FirstUsable == CHOOSE w \in UsableWords :
                  \A v \in UsableWords : ScanDistance(w) <= ScanDistance(v)

Take(index, position) ==
    /\ bitmap_' = bitmap_ \cup {position}
    /\ bit_' = position - WordStart(index) + 1
    /\ index_' = index
    /\ count_' = count_ + 1
    /\ uid' = Get(position)
    /\ UNCHANGED CYCLIC

AllocateRefused ==
    /\ count_ >= UID_COUNT
    /\ uid' = Failed
    /\ UNCHANGED <<CYCLIC, bitmap_, bit_, index_, count_>>

AllocateInWord ==
    /\ count_ < UID_COUNT
    /\ CYCLIC /\ RestOfWord # {}
    /\ Take(index_, Least(RestOfWord))

AllocateByScan ==
    /\ count_ < UID_COUNT
    /\ ~CYCLIC \/ RestOfWord = {}
    /\ IF UsableWords # {}
       THEN Take(FirstUsable, Least(Unset(FirstUsable)))
       ELSE uid' = Failed /\ UNCHANGED <<CYCLIC, bitmap_, bit_, index_, count_>>

Allocate == AllocateRefused \/ AllocateInWord \/ AllocateByScan

\* Defect: an id that is not allocated is released all the same.
ReleaseTwice(id) ==
    /\ id >= MIN_UID /\ id <= MAX_UID
    /\ bitmap_' = bitmap_ \ {id - MIN_UID}
    /\ count_' = count_ - 1
    /\ UNCHANGED <<CYCLIC, bit_, index_, uid>>

\* release(): ids out of range and ids not allocated are ignored.
Release(id) ==
    /\ id >= MIN_UID /\ id <= MAX_UID
    /\ id - MIN_UID \in bitmap_
    /\ bitmap_' = bitmap_ \ {id - MIN_UID}
    /\ count_' = count_ - 1
    /\ UNCHANGED <<CYCLIC, bit_, index_, uid>>

UidClear ==
    /\ bitmap_' = {}
    /\ bit_' = 0
    /\ index_' = 0
    /\ count_' = 0
    /\ UNCHANGED <<CYCLIC, uid>>

UidNext == Allocate \/ (\E id \in 0 .. UintMod - 1 : Release(id)) \/ UidClear

UidSpec == UidInit /\ [][UidNext]_uidVars

-----------------------------------------------------------------------------
\* The ids the callers hold, as the bitmap tells them.
Held == {p + MIN_UID : p \in bitmap_}

\* The id the search goes on after: the last one handed out, MIN_UID - 1 at
\* the start.
Latest == MIN_UID + WordStart(index_) + bit_ - 1

UidTypeOK ==
    /\ CYCLIC \in BOOLEAN
    /\ bitmap_ \subseteq Positions
    /\ bit_ \in 0 .. WordBits
    /\ index_ \in Words
    /\ count_ \in 0 .. UID_COUNT
    /\ uid \in 0 .. UintMod - 1

(* size() is the number of ids held, whatever mix of allocate, release (of *)
(* ids held, not held or out of range) and clear came before, and no bit   *)
(* beyond the range is ever set: the unused bits of the last word are      *)
(* neither handed out nor counted.                                         *)
CountExact ==
    /\ UidTypeOK
    /\ count_ = Cardinality(bitmap_)
    /\ \A p \in bitmap_ : p + MIN_UID <= MAX_UID

Pool == INSTANCE UidPool WITH
    First <- MIN_UID, Last <- MAX_UID, Nothing <- Failed,
    cyclic <- CYCLIC, held <- Held, latest <- Latest, answer <- uid

(* The bitmap and its cursor implement the pool of ids: an id is never     *)
(* handed out twice and refused only when all are held, and in the cyclic  *)
(* mode the words and the two loops amount to "next free id, going round", *)
(* so that an id just released is the last to be used again.               *)
ImplementsPool == Pool!PoolSpec
=============================================================================
