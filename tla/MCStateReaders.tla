--------------------------- MODULE MCStateReaders ---------------------------
(* Instances of StateReaders: a few transfers from "a" to "b", one of them    *)
(* with a fee for the coinbase "z", one that "a" cannot afford.               *)
EXTENDS StateReaders

MCAddr == {"a", "b", "z"}
MCStart == [EmptyLedger EXCEPT !["a"] = [nonce |-> 0, balance |-> 5]]

Transfer(n, v, p) ==
    [from |-> "a", to |-> "b", nonce |-> n, value |-> v, gas |-> 2, price |-> p,
     used |-> 1, create |-> FALSE, fails |-> FALSE, signed |-> TRUE]

Free == Transfer(0, 1, 0)
Paid == Transfer(2, 1, 1)
TooMuch == Transfer(1, 9, 0)

MCTx == {Free, Paid, TooMuch}
\* Two blocks; the transaction of the second is valid only after the first, whose
\* TooMuch fails late, with its nonce used.
TwoBlocks == {<<Free, TooMuch>>, <<Paid>>}
OneBlock == {<<Free>>}

OneCall == {"w"}
NoCall == {}
=============================================================================
