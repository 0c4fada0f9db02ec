----------------------------- MODULE MCBlockSync -----------------------------
(* Two peers with the same chain, or one with a chain whose last block is    *)
(* another.                                                                  *)
EXTENDS BlockSync, TLC

CONSTANTS g, a1, a2, x2, c1, c2

MCSame == [c \in {c1, c2} |-> <<g, a1, a2>>]
MCFork == (c1 :> <<g, a1, a2>>) @@ (c2 :> <<g, a1, x2>>)
=============================================================================
