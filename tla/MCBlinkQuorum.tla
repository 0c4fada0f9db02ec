--------------------------- MODULE MCBlinkQuorum ---------------------------
(* Instances of BlinkQuorum for TLC. *)
EXTENDS BlinkQuorum, TLC

CONSTANTS n1, n2, n3, n4, x, y

\* Every member connects to every other one.
MCMatrix == 3 :> <<{2, 3}, {1, 3}, {1, 2}>>

\* One quorum for both subquorums of both blinks, which conflict; n2 is the
\* member that has both.
MCQuorum == <<n1, n2, n3>>
MCBoth == 0 :> MCQuorum @@ 1 :> MCQuorum
MCValidators == x :> MCBoth @@ y :> MCBoth
MCConflicts == {<<x, y>>, <<y, x>>}
MCAll == [n \in Nodes |-> Blinks]
MCAgrees == (n1 :> {x} @@ n2 :> {x, y} @@ n3 :> {y})
MCDoubts == (n1 :> {} @@ n2 :> {} @@ n3 :> {y})
MCNoDoubts == [n \in Nodes |-> {}]
MCRemotes == (x :> {n1, n2} @@ y :> {n2})
MCThreads == (n1 :> 1 @@ n2 :> 2 @@ n3 :> 1)

\* The sizes get_matrix has a matrix for, and a full subquorum of frame_pix_rules.h
MCCodeMatrix == [N \in (7 .. 10) \cup (13 .. 20) |-> [i \in 1 .. N |-> (1 .. N) \ {i}]]
MCFull == [b \in Blinks |-> [q \in 0 .. 1 |-> <<n1, n2, n3, n4>>]]
MCTwoRemotes == [b \in Blinks |-> {n1, n2}]
MCOneThread == [n \in Nodes |-> 1]
=============================================================================
