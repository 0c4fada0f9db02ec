---------------------------- MODULE MCChainSwitch ----------------------------
(***************************************************************************)
(* A tree of blocks for ChainSwitch: the chain g, c1, two branches from    *)
(* it, a2 to a6 and b2 to b5, and a branch from each of those: d4 and d5   *)
(* leave the first at a3, e3 to e5 the second at b2; f3 leaves the first   *)
(* at a2.  A run takes a part of the tree.                                 *)
(***************************************************************************)
EXTENDS ChainSwitch

CONSTANTS g, c1, a2, a3, a4, a5, a6, b2, b3, b4, b5, d4, d5, e3, e4, e5, f3, v1, v2

AllParents == [x \in {c1, a2, a3, a4, a5, a6, b2, b3, b4, b5, d4, d5, e3, e4, e5, f3} |->
  CASE x = c1 -> g
    [] x = a2 -> c1 [] x = a3 -> a2 [] x = a4 -> a3 [] x = a5 -> a4 [] x = a6 -> a5
    [] x = b2 -> c1 [] x = b3 -> b2 [] x = b4 -> b3 [] x = b5 -> b4
    [] x = d4 -> a3 [] x = d5 -> d4
    [] x = e3 -> b2 [] x = e4 -> e3 [] x = e5 -> e4
    [] x = f3 -> a2]

AllHeights == [x \in {g} \cup DOMAIN AllParents |->
  CASE x = g -> 0 [] x = c1 -> 1 [] x \in {a2, b2} -> 2 [] x \in {a3, b3, e3, f3} -> 3
    [] x \in {a4, b4, d4, e4} -> 4 [] x \in {a5, b5, d5, e5} -> 5 [] x = a6 -> 6]

\* Every block adds the same work but d4 and f3, which add that of two and three.
AllDifficulties == [x \in DOMAIN AllHeights |-> CASE x = d4 -> 2 [] x = f3 -> 3 [] OTHER -> 1]

StartChain == <<g, c1>>
NoCheckpoints == [h \in {} |-> g]
\* The genesis block and a later one, off the heights at which votes are cast ...
ProgramCheckpoints == [h \in {0, 3} |-> IF h = 0 THEN g ELSE a3]
\* ... or far enough above the first chain for a reorganisation below it.
LaterCheckpoints == [h \in {0, 4} |-> IF h = 0 THEN g ELSE a4]
=============================================================================
