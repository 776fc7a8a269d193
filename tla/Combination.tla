---------------------------- MODULE Combination ----------------------------
(***************************************************************************)
(* combination() of algorithm/combination.cpp: a backtracking loop without *)
(* recursion that shows every choice of c of the numbers 0 .. s - 1.  The  *)
(* code fixes s = 6 and c = 4; here a call chooses them, with c at least   *)
(* 2, as the loop looks at pos[c - 2] after a choice.  One step is one     *)
(* turn of the loop.                                                       *)
(***************************************************************************)
EXTENDS Integers, Sequences, FiniteSets

CONSTANT MaxNumbers         \* bound on s

ASSUME MaxNumbersAssumption == MaxNumbers \in Nat

VARIABLES
    numbers, places,        \* s and c: how many there are, and are chosen
    pos, next, place,       \* pos, i and k of the code
    combining,              \* "no", "yes", or "done" when the loop is left
    shown                   \* the choices shown, in order

combVars == <<numbers, places, pos, next, place, combining, shown>>

CombInit ==
    /\ numbers = 0 /\ places = 0 /\ pos = <<>> /\ next = 0 /\ place = 0
    /\ combining = "no" /\ shown = <<>>

Combine ==
    /\ combining = "no"
    /\ numbers' \in 0 .. MaxNumbers /\ places' \in 2 .. MaxNumbers + 1
    /\ pos' = [n \in 0 .. places' - 1 |-> 0]
    /\ combining' = "yes"
    /\ UNCHANGED <<next, place, shown>>

Place ==
    /\ place < places /\ next < numbers
    /\ pos' = [pos EXCEPT ![place] = next]
    /\ place' = place + 1 /\ next' = next + 1
    /\ UNCHANGED <<combining, shown>>

StepBack ==
    /\ place < places /\ next >= numbers /\ place > 0
    /\ place' = place - 1 /\ next' = pos[place - 1] + 1
    /\ UNCHANGED <<pos, combining, shown>>

Leave ==
    /\ place < places /\ next >= numbers /\ place = 0
    /\ combining' = "done"
    /\ UNCHANGED <<pos, next, place, shown>>

\* Defect: the last place is tried again although no number is left.
ShowOneBack ==
    /\ place = places
    /\ shown' = Append(shown, pos)
    /\ place' = place - 1 /\ next' = IF numbers = next THEN pos[place - 1] ELSE next
    /\ UNCHANGED <<pos, combining>>

\* The last place takes the next number; if there is none, the one before does.
Show ==
    /\ place = places
    /\ shown' = Append(shown, pos)
    /\ IF numbers = next THEN place' = place - 2 /\ next' = pos[place - 2] + 1
                ELSE place' = place - 1 /\ next' = next
    /\ UNCHANGED <<pos, combining>>

CombStep ==
    /\ combining = "yes"
    /\ Place \/ StepBack \/ Leave \/ Show
    /\ UNCHANGED <<numbers, places>>

CombNext == Combine \/ CombStep

CombFairness == WF_combVars(CombStep)

CombSpec == CombInit /\ [][CombNext]_combVars /\ CombFairness
-----------------------------------------------------------------------------
(* Properties.                                                             *)

NumbersOf(p) == {p[n] : n \in DOMAIN p}
Ascending(p) == \A n, m \in DOMAIN p : n < m => p[n] < p[m]

\* The first place in which they differ decides.
Earlier(p, q) == \E n \in DOMAIN p : p[n] < q[n] /\ \A m \in 0 .. n - 1 : p[m] = q[m]

AllChoices == {S \in SUBSET (0 .. numbers - 1) : Cardinality(S) = places}

(* What was shown are choices with their numbers ascending, in             *)
(* lexicographic order, so each once; in the end, all of them.             *)
ShownInOrder ==
    /\ \A n \in DOMAIN shown : Ascending(shown[n])
    /\ \A n \in 2 .. Len(shown) : Earlier(shown[n - 1], shown[n])

ShownAtTheEnd ==
    combining = "done" => {NumbersOf(shown[n]) : n \in DOMAIN shown} = AllChoices

ChoicesInOrder == ShownInOrder /\ ShownAtTheEnd

(* Every call ends, having shown each choice of c numbers once, in         *)
(* lexicographic order.  (The loop tests i and k after it has moved them   *)
(* twice.)                                                                 *)
ShowsEveryChoice ==
    /\ combining = "yes" ~> combining = "done"
    /\ [](ShownInOrder /\ ShownAtTheEnd)
=============================================================================
