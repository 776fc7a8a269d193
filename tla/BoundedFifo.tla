---------------------------- MODULE BoundedFifo ----------------------------
(***************************************************************************)
(* What the single-producer single-consumer queue promises: a FIFO buffer  *)
(* of bounded capacity to which items 1, 2, 3 ... are put in that order,   *)
(* and from which the oldest is taken.  "taken" is the item handed out     *)
(* last.                                                                   *)
(***************************************************************************)
EXTENDS Integers, Sequences

CONSTANTS Capacity, MaxPut

VARIABLES buffer, put, taken

fifoVars == <<buffer, put, taken>>

Init == buffer = <<>> /\ put = 0 /\ taken = 0

Put ==
    /\ Len(buffer) < Capacity
    /\ put < MaxPut
    /\ put' = put + 1
    /\ buffer' = Append(buffer, put')
    /\ UNCHANGED taken

Take ==
    /\ buffer # <<>>
    /\ taken' = Head(buffer)
    /\ buffer' = Tail(buffer)
    /\ UNCHANGED put

Next == Put \/ Take

Spec == Init /\ [][Next]_fifoVars
=============================================================================
