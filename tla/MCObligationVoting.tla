------------------------- MODULE MCObligationVoting -------------------------
(* Instances of ObligationVoting: two nodes, the first of them decommissioned. *)
EXTENDS ObligationVoting

SX == INSTANCE SequencesExt

CONSTANT v1

TxOf(kind, n, back) == [kind |-> kind, node |-> n, back |-> back, signed |-> 0]

MCFirstTxs == <<TxOf("register", 1, 0), TxOf("register", 2, 0), TxOf("decommission", 1, 1), NoTx, NoTx>>

\* The chain after these blocks, each paid to the winner of its time.
MCFirstChain ==
  LET After[i \in 0 .. Len(MCFirstTxs)] ==
        IF i = 0 THEN <<[change |-> NoChange, state |-> NullState]>>
        ELSE LET p == After[i - 1]
             IN  Append(p, [change |-> NoChange,
                   state |-> update_from_block(Last(p).state, {p[j].state : j \in DOMAIN p}, {},
                     [hash |-> 0, winner |-> get_block_winner(Infos(p)), tx |-> MCFirstTxs[i]])])
  IN  After[Len(MCFirstTxs)]

\* Blocks of even epochs list the workers in order, those of odd ones backwards.
MCShuffle ==
  [hash \in 0 .. MaxCuts |->
     [S \in SUBSET FramePix |-> SX!SetToSortSeq(S, LAMBDA m, n : IF hash % 2 = 0 THEN m < n ELSE m > n)]]

VoteOf(h, i, state, v) == [height |-> h, index |-> i, state |-> state, voter |-> v]

MCVotes == {VoteOf(5, 2, "decommission", v1), VoteOf(6, 2, "ip_change_penalty", v1)}
=============================================================================
