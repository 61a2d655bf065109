------------------------------- MODULE MCMatching -------------------------------
(* Instances of Matching for TLC.                                          *)
EXTENDS Matching, TLC

CONSTANTS f1, f2

AStar == <<"A", "*">>
AT == <<"A", "T">>
BT == <<"B", "T">>

\* Types that dominate each other in one way only.
NestedTypes == {StarStar, AStar, AT, BT}
NestedShapes == {<<StarStar>>, <<AStar>>, <<AT, BT>>}
NestedSubs == {{}, {AT}, {AStar, BT}}
Consumed == {AT, BT}
IdBounds == f1 :> 2 @@ f2 :> 1

\* Without wildcards inside a type.
PlainTypes == {StarStar, AT, BT}
PlainShapes == {<<StarStar>>, <<AT>>, <<BT>>}
NoSubs == {{}}
OneFilter == f1 :> 2

\* Bound: a behaviour is followed up to the first race.
BeforeRaces == raced = {}

\* The types and constraints of the instances are such that the theorems apply.
ASSUME MCAssumption == Nested /\ \A l \in Shapes : Ordered(l)

ThreadSymmetry == Permutations(Threads)
=============================================================================
