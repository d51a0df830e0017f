------------------------------ MODULE TxLedger ------------------------------
(***************************************************************************)
(* What a node promises about transactions, without blocks, write-ahead    *)
(* states or crashes: nonces only grow, a transaction is stored when its   *)
(* account's nonce has passed it and no other transaction took that nonce, *)
(* and a receipt belongs to a stored transaction and never changes.        *)
(***************************************************************************)
EXTENDS Integers

CONSTANTS Addr, Tx, Nothing

VARIABLES nonce,     \* the durable nonce of each account
          stored,    \* the transactions that can be looked up
          receipt    \* their receipts, or Nothing

ledgerVars == <<nonce, stored, receipt>>

Init ==
    /\ nonce = [a \in Addr |-> 0]
    /\ stored = {}
    /\ receipt = [t \in Tx |-> Nothing]

\* Some transactions take effect.
Advance ==
    /\ nonce' \in [Addr -> Nat]
    /\ \A a \in Addr : nonce[a] <= nonce'[a]
    /\ UNCHANGED <<stored, receipt>>

\* Transactions that took effect become known by their hash.
Store ==
    /\ stored \subseteq stored'
    /\ stored' \subseteq Tx
    /\ \A t \in stored' : t.nonce < nonce[t.from]
    /\ \A t, u \in stored' : t.from = u.from /\ t.nonce = u.nonce => t = u
    /\ UNCHANGED <<nonce, receipt>>

\* Receipts of stored transactions are published, once.
Publish ==
    /\ DOMAIN receipt' = Tx
    /\ \A t \in Tx : receipt'[t] # receipt[t] =>
                         receipt[t] = Nothing /\ t \in stored
    /\ UNCHANGED <<nonce, stored>>

Next == Advance \/ Store \/ Publish

Spec == Init /\ [][Next]_ledgerVars
=============================================================================
