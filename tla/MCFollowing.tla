---------------------------- MODULE MCFollowing ----------------------------
(* Instances of Following: users and videos are numbers.                    *)
EXTENDS Following

CONSTANTS c1, c2

OneAuthor == [v \in Videos |-> 1]
OldAndNew == {<<3, 1>>}
NewOnly == {<<2, 1>>}

\* Both requests are of the new follower, or one is of the author.
AsksOfOne == [c \in Calls |-> NewOnly]
AsksOfBoth == [c \in Calls |-> IF c = c1 THEN NewOnly ELSE {<<1, 2>>}]

CallSymmetry == Permutations(Calls)
=============================================================================
