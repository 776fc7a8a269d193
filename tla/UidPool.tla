------------------------------ MODULE UidPool ------------------------------
(***************************************************************************)
(* What an allocator of unique ids promises: it hands out an id of a range *)
(* that nobody holds, and nothing only when all are held.  If cyclic, it   *)
(* hands out the next free id after the one before, starting over at the   *)
(* end of the range, so that an id rests as long as possible.              *)
(***************************************************************************)
EXTENDS Integers

CONSTANTS First, Last, Nothing

VARIABLES
    cyclic,   \* whether ids go round; the same throughout
    held,     \* ids handed out and not given back
    latest,   \* the id handed out last, First - 1 if none since the start
    answer    \* what the last allocation returned

poolVars == <<cyclic, held, latest, answer>>

Ids == First .. Last
Free == Ids \ held

\* How far an id lies ahead of the latest one, going round the range.
Ahead(id) == IF id > latest THEN id - latest ELSE id - latest + (Last - First + 1)

PoolInit == cyclic \in BOOLEAN /\ held = {} /\ latest = First - 1 /\ answer = Nothing

PoolAllocate ==
    \/ \E id \in Free :
        /\ cyclic => \A other \in Free : Ahead(id) <= Ahead(other)
        /\ held' = held \cup {id}
        /\ latest' = id
        /\ answer' = id
    \/ /\ Free = {}
       /\ answer' = Nothing
       /\ UNCHANGED <<held, latest>>

PoolRelease ==
    /\ \E id \in held : held' = held \ {id}
    /\ UNCHANGED <<latest, answer>>

PoolClear ==
    /\ held' = {}
    /\ latest' = First - 1
    /\ UNCHANGED answer

PoolNext == (PoolAllocate \/ PoolRelease \/ PoolClear) /\ UNCHANGED cyclic

PoolSpec == PoolInit /\ [][PoolNext]_poolVars
=============================================================================
