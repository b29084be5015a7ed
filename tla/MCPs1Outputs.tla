---------------------------- MODULE MCPs1Outputs ----------------------------
EXTENDS Ps1Outputs, TLC
CONSTANTS a, b, none, s1, one, two, again, copy
T(stem, disc) == [stem |-> stem, disc |-> disc]
R(group, title, index) == [group |-> group, title |-> title, index |-> index]
MCClean == [s \in Stems |-> s]
MCBoot == [i \in Items |-> IF i = 1 THEN s1 ELSE none]
MCEmberFiles == [i \in Items |-> IF i = 1 THEN <<"one.cue", "d.bin">> ELSE <<"two.cue", "d.bin">>]
\* Two discs in the other order than their ids, one of them without a disc
\* number of its own, beside a disc that is not grouped.
MCLibraries == {
    (1 :> R(1, T(a, 0), 2)) @@ (2 :> R(1, T(a, 0), 0)) @@ (3 :> R(none, T(a, 2), 0))}
MCEditTitles == {T(b, 0)}
\* Both discs of the set, one of them once more, and an Ember copy.
MCItem == one :> 1 @@ two :> 2 @@ again :> 1 @@ copy :> 2
MCKind == [j \in Jobs |-> IF j = copy THEN "ember" ELSE "convert"]
SameJobs == Permutations({one, again})
=============================================================================
