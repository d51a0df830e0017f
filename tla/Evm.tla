-------------------------------- MODULE Evm --------------------------------
(***************************************************************************)
(* The data the EVM state works on, and the library operation the code    *)
(* applies to it.  Accounts, transactions and core.ApplyMessage belong to  *)
(* go-ethereum 1.8.22 and are modelled from how src/state uses them.       *)
(*                                                                         *)
(* A ledger (the content of a state trie) stands for its root hash, and a  *)
(* transaction record for its hash: two transactions with the same content *)
(* have the same hash.  Contract code and storage are abstracted away; what*)
(* running a transaction costs and whether the VM reports an error are     *)
(* fields of the transaction (used, fails).                                *)
(***************************************************************************)
EXTENDS Integers, FiniteSets

CONSTANTS Addr,          \* the accounts
          Coinbase,      \* the zero address: vm.Context leaves Coinbase unset
          Tx,            \* the transactions that RLP-decode
          Garbage,       \* transaction bytes that do not RLP-decode
          IntrinsicGas,  \* gas charged before the VM runs
          GasLimit       \* gas pool of one commit (gasLimit in state.go)

Account == [nonce : Nat, balance : Nat]
Ledger == [Addr -> Account]
EmptyLedger == [a \in Addr |-> [nonce |-> 0, balance |-> 0]]

\* signed: the signature verifies under the EIP155 signer of chain 1, so that
\* tx.AsMessage succeeds.  create: the recipient is nil (contract creation);
\* `to` is then the address the contract gets.
TxRecord == [from : Addr, to : Addr, nonce : Nat, value : Nat, gas : Nat,
             price : Nat, used : Nat, create : BOOLEAN, fails : BOOLEAN,
             signed : BOOLEAN]

ASSUME EvmAssumption ==
    /\ IsFiniteSet(Addr) /\ Coinbase \in Addr
    /\ Tx \subseteq TxRecord
    /\ \A t \in Tx : t.used <= t.gas
    /\ Garbage \notin Tx
    /\ IntrinsicGas \in Nat
    /\ GasLimit \in Nat

-----------------------------------------------------------------------------
Credit(l, a, v) == [l EXCEPT ![a].balance = @ + v]
Debit(l, a, v) == [l EXCEPT ![a].balance = @ - v]
BumpNonce(l, a) == [l EXCEPT ![a].nonce = @ + 1]

\* StateDB.Exist on a committed state: empty accounts are deleted by
\* StateDB.Commit(true), so an account exists exactly when it is not empty.
Exists(l, a) == l[a].nonce > 0 \/ l[a].balance > 0

\* preCheck and buyGas of core.ApplyMessage: when they refuse the message
\* nothing has been changed.
NonceOK(l, t) == l[t.from].nonce = t.nonce

\* Mutant: the balance is not compared with the price of the gas.
CanBuyGas_OnCredit(l, gp, t) == gp >= t.gas

CanBuyGas(l, gp, t) == l[t.from].balance >= t.gas * t.price /\ gp >= t.gas

\* The sender has paid for all of the gas.
Bought(l, t) == Debit(l, t.from, t.gas * t.price)

\* The ledger after a message that was executed: unused gas refunded, the fee
\* credited to the coinbase, and the value moved unless the VM failed.
Executed(l, t) ==
    LET paid == Credit(Credit(BumpNonce(Bought(l, t), t.from),
                              t.from, (t.gas - t.used) * t.price),
                       Coinbase, t.used * t.price)
    IN  IF t.fails THEN paid
        ELSE Credit(Debit(paid, t.from, t.value), t.to, t.value)

\* core.ApplyMessage.  The two late errors leave their traces in the state the
\* caller passed: the gas stays paid and out of the pool, and a call (not a
\* creation) has already incremented the sender's nonce.
ApplyMessage(l, gp, t) ==
    CASE ~NonceOK(l, t) \/ ~CanBuyGas(l, gp, t) ->
           [err |-> TRUE, ledger |-> l, gp |-> gp]
      [] NonceOK(l, t) /\ CanBuyGas(l, gp, t) /\ t.gas < IntrinsicGas ->
           [err |-> TRUE, ledger |-> Bought(l, t), gp |-> gp - t.gas]
      [] /\ NonceOK(l, t) /\ CanBuyGas(l, gp, t) /\ t.gas >= IntrinsicGas
         /\ Bought(l, t)[t.from].balance < t.value ->
           [err |-> TRUE,
            ledger |-> IF t.create THEN Bought(l, t)
                       ELSE BumpNonce(Bought(l, t), t.from),
            gp |-> gp - t.gas]
      [] OTHER ->
           [err |-> FALSE, ledger |-> Executed(l, t), gp |-> gp - t.used]
=============================================================================
