----------------------------- MODULE MCEvmState -----------------------------
(* Instances of EvmState: two funded accounts and the coinbase, one          *)
(* transaction for each way applyTransaction can end, and blocks that        *)
(* combine them with a double spend, a nonce gap and an index clash.         *)
EXTENDS EvmState

MCAddr == {"a", "b", "z"}

\* A transfer of `value` from f to t with gas 2 at price 1, of which 1 is used.
Transfer(f, t, nonce, value) ==
    [from |-> f, to |-> t, nonce |-> nonce, value |-> value, gas |-> 2,
     price |-> 1, used |-> 1, create |-> FALSE, fails |-> FALSE,
     signed |-> TRUE]

Pay0 == Transfer("a", "b", 0, 1)
Pay1 == Transfer("a", "b", 1, 1)
DoubleSpend == Transfer("a", "z", 0, 2)          \* same nonce as Pay0
Overdraft == Transfer("b", "a", 0, 9)            \* rejected after paying gas
Reverts == [Transfer("b", "a", 0, 1) EXCEPT !.fails = TRUE, !.used = 2]
Deploy == [Transfer("b", "z", 0, 0) EXCEPT !.create = TRUE]
DeployOverdraft == [Overdraft EXCEPT !.create = TRUE]
LowGas == [Transfer("b", "a", 0, 0) EXCEPT !.gas = 0, !.used = 0]
Forged == [Pay1 EXCEPT !.signed = FALSE]
Free == [Transfer("a", "b", 0, 0) EXCEPT !.price = 0]   \* costs nothing

MCAlloc == [x \in {"a", "b"} |-> IF x = "a" THEN 6 ELSE 5]

Block(i, txs) == [index |-> i, txs |-> txs]

\* Delivery and crash run: a chain of two payments against a double spend.
ChainTx == {Pay0, Pay1, DoubleSpend}
ChainBlocks == {Block(1, <<Pay1, Pay0>>), Block(2, <<Pay0, Pay1>>),
                Block(2, <<DoubleSpend>>)}

\* Error-path run: every outcome of applyTransaction.
MixTx == {Pay0, Overdraft, Reverts, Deploy, DeployOverdraft, LowGas, Forged}
MixBlocks == {Block(1, <<DeployOverdraft, Overdraft, Pay0>>),   \* gas pool empty
              Block(2, <<Reverts, Pay0>>),
              Block(3, <<LowGas, Forged, Garbage, Deploy>>)}

\* One block with one payment.
OneTx == {Pay0}
OneBlock == {Block(1, <<Pay0>>)}

\* CheckTx is called by nobody.
NoTx == {}

\* A transaction that needs no balance.
FreeTx == {Free}
FreeBlock == {Block(1, <<Free>>)}
=============================================================================
