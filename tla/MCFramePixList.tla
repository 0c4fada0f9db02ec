-------------------------- MODULE MCFramePixList --------------------------
(* Instances of FramePixList: two nodes, registered by the first blocks. *)
EXTENDS FramePixList

TxOf(kind, n, back) == [kind |-> kind, node |-> n, back |-> back, signed |-> 0]

MCFirstTxs == <<TxOf("register", 1, 0), TxOf("contribute", 1, 0), TxOf("register", 2, 0),
                TxOf("contribute", 2, 0), TxOf("decommission", 1, 2), NoTx, NoTx, NoTx, NoTx, NoTx>>

MCTxs == {TxOf("recommission", 1, 2), TxOf("deregister", 2, 2), TxOf("unlock", 2, 0)}
=============================================================================
