------------------------------ MODULE OneSlot ------------------------------
(***************************************************************************)
(* What a hand-off through one buffer promises: a value put into the empty *)
(* slot is the value taken out of it, once, and values are taken in the    *)
(* order they were put.  The taker may lose a value, never alter, repeat   *)
(* or reorder one.                                                         *)
(***************************************************************************)
EXTENDS Naturals, Sequences

VARIABLES slot,    \* the value waiting in the slot, 0 when it is empty
          taken    \* every value taken so far, in order

slotVars == <<slot, taken>>

Init == slot = 0 /\ taken = <<>>

\* Values are numbered as they are accepted, so the numbers put are increasing.
Put ==
  /\ slot = 0
  /\ slot' \in Nat \ {0}
  /\ \A i \in 1..Len(taken) : taken[i] < slot'
  /\ UNCHANGED taken

Take ==
  /\ slot # 0
  /\ taken' = Append(taken, slot)
  /\ slot' = 0

Lose ==
  /\ slot # 0
  /\ slot' = 0
  /\ UNCHANGED taken

Next == Put \/ Take \/ Lose

Spec == Init /\ [][Next]_slotVars
=============================================================================
