------------------------------ MODULE KeptLog -------------------------------
(***************************************************************************)
(* What the logs promise their reader: in the log of a day, what is written *)
(* comes last and what goes away goes from the front; nothing inside is     *)
(* reordered, doubled, changed or lost, and no other day is touched.        *)
(***************************************************************************)
EXTENDS SequencesExt

CONSTANT Day

VARIABLE log  \* [Day -> sequence]

Init == log = [d \in Day |-> <<>>]

Becomes(d, l) == l # log[d] /\ log' = [log EXCEPT ![d] = l]

Writes(d) == Becomes(d, log'[d]) /\ IsPrefix(log[d], log'[d])
Drops(d)  == Becomes(d, log'[d]) /\ IsSuffix(log'[d], log[d])

Spec == Init /\ [][\E d \in Day : Writes(d) \/ Drops(d)]_log
=============================================================================
