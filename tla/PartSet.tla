------------------------------- MODULE PartSet -------------------------------
(***************************************************************************)
(* What NextPart promises: a set of part numbers, taken out smallest first. *)
(***************************************************************************)
EXTENDS Naturals

CONSTANT MaxPart  \* the highest number of a part

VARIABLE parts

Part == 0..MaxPart
Smallest(S) == CHOOSE p \in S : \A q \in S : p <= q

Init == parts = {}
Add(p) == parts' = parts \cup {p}
AddWhole(n) == parts' = 0..n
Take == parts # {} /\ parts' = parts \ {Smallest(parts)}

Next == (\E p \in Part : Add(p) \/ AddWhole(p)) \/ Take
Spec == Init /\ [][Next]_parts

=============================================================================
