------------------------------ MODULE MCTxPool -------------------------------
EXTENDS TxPool

\* "a" and "b" spend the same key image; "c" spends an output of "a".
MCFees == <<"a", "c", "b">>
MCInputs == [a |-> <<1>>, b |-> <<1>>, c |-> <<2>>]
MCNeeds == [a |-> {}, b |-> {}, c |-> {"a"}]
MCWeight == [a |-> 2, b |-> 2, c |-> 1]
MCBlink == {"b", "c"}
MCOld == {"b"}

\* Here "a" and "b" have two key images in common.
MCTwoFees == <<"a", "b">>
MCTwoInputs == [a |-> <<1, 2>>, b |-> <<1, 2>>]
MCTwoNeeds == [a |-> {}, b |-> {}]
MCTwoWeight == [a |-> 1, b |-> 1]
MCTwoBlink == {"b"}
=============================================================================
