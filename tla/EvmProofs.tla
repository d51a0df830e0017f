----------------------------- MODULE EvmProofs -----------------------------
(***************************************************************************)
(* Lemmas about the operators of Evm, for every set of accounts and        *)
(* transactions; EvmStateProofs and StateReadersProofs cite them.          *)
(***************************************************************************)
EXTENDS Evm, TLAPS

-----------------------------------------------------------------------------
(* What core.ApplyMessage does to a ledger *)

\* A credit keeps a ledger a ledger and touches no nonce.
LEMMA CreditLemma ==
    ASSUME NEW l \in Ledger, NEW a \in Addr, NEW v \in Nat
    PROVE  /\ Credit(l, a, v) \in Ledger
           /\ \A x \in Addr : Credit(l, a, v)[x].nonce = l[x].nonce
           /\ \A x \in Addr : Credit(l, a, v)[x].balance >= l[x].balance
    BY DEF Credit, Ledger, Account

\* A covered debit keeps a ledger a ledger and touches no nonce.
LEMMA DebitLemma ==
    ASSUME NEW l \in Ledger, NEW a \in Addr, NEW v \in Nat, v <= l[a].balance
    PROVE  /\ Debit(l, a, v) \in Ledger
           /\ \A x \in Addr : Debit(l, a, v)[x].nonce = l[x].nonce
           /\ Debit(l, a, v)[a].balance = l[a].balance - v
    BY DEF Debit, Ledger, Account

\* Incrementing a nonce touches nothing else.
LEMMA BumpLemma ==
    ASSUME NEW l \in Ledger, NEW a \in Addr
    PROVE  /\ BumpNonce(l, a) \in Ledger
           /\ \A x \in Addr : BumpNonce(l, a)[x].nonce
                              = IF x = a THEN l[x].nonce + 1 ELSE l[x].nonce
           /\ \A x \in Addr : BumpNonce(l, a)[x].balance = l[x].balance
    BY DEF BumpNonce, Ledger, Account

\* The amounts of a transaction are natural numbers.
LEMMA AmountLemma ==
    ASSUME NEW t \in Tx
    PROVE  /\ t.from \in Addr /\ t.to \in Addr /\ t.nonce \in Nat
           /\ t.value \in Nat /\ t.gas \in Nat /\ t.used \in Nat
           /\ t.used <= t.gas
           /\ t.gas * t.price \in Nat
           /\ t.used * t.price \in Nat
           /\ (t.gas - t.used) * t.price \in Nat
           /\ t.fails \in BOOLEAN
<1>1. /\ t.from \in Addr /\ t.to \in Addr /\ t.nonce \in Nat
      /\ t.value \in Nat /\ t.gas \in Nat /\ t.used \in Nat /\ t.price \in Nat
      /\ t.used <= t.gas /\ t.fails \in BOOLEAN
  BY EvmAssumption DEF TxRecord
<1>2. \A m, n \in Nat : m * n \in Nat
  OBVIOUS
<1>3. t.gas - t.used \in Nat
  BY <1>1
<1> QED BY <1>1, <1>2, <1>3

\* Executing a transaction that the checks of ApplyMessage let through yields a
\* ledger in which only the sender's nonce has changed, by one.
LEMMA ExecutedLemma ==
    ASSUME NEW l \in Ledger, NEW gp \in Nat, NEW t \in Tx,
           CanBuyGas(l, gp, t), Bought(l, t)[t.from].balance >= t.value
    PROVE  /\ Executed(l, t) \in Ledger
           /\ \A x \in Addr : Executed(l, t)[x].nonce
                              = IF x = t.from THEN l[x].nonce + 1 ELSE l[x].nonce
<1> DEFINE b == Bought(l, t)
           n == BumpNonce(b, t.from)
           r == Credit(n, t.from, (t.gas - t.used) * t.price)
           p == Credit(r, Coinbase, t.used * t.price)
           d == Debit(p, t.from, t.value)
           c == Credit(d, t.to, t.value)
<1> USE AmountLemma
<1>0. Coinbase \in Addr
  BY EvmAssumption
<1>1. b \in Ledger /\ \A x \in Addr : b[x].nonce = l[x].nonce
  BY DebitLemma DEF CanBuyGas, Bought
<1> HIDE DEF b
<1>2. /\ n \in Ledger
      /\ \A x \in Addr : n[x].nonce = IF x = t.from THEN b[x].nonce + 1
                                                    ELSE b[x].nonce
      /\ n[t.from].balance = b[t.from].balance
  BY <1>1, BumpLemma
<1> HIDE DEF n
<1>3. /\ r \in Ledger /\ \A x \in Addr : r[x].nonce = n[x].nonce
      /\ r[t.from].balance >= n[t.from].balance
  BY <1>2, CreditLemma
<1> HIDE DEF r
<1>4. /\ p \in Ledger /\ \A x \in Addr : p[x].nonce = r[x].nonce
      /\ p[t.from].balance >= r[t.from].balance
  BY <1>0, <1>3, CreditLemma
<1> HIDE DEF p
<1>5. t.value <= p[t.from].balance
  <2>1. /\ b[t.from].balance \in Nat /\ n[t.from].balance \in Nat
        /\ r[t.from].balance \in Nat /\ p[t.from].balance \in Nat
    BY <1>1, <1>2, <1>3, <1>4 DEF Ledger, Account
  <2>2. b[t.from].balance >= t.value
    BY DEF b
  <2> QED BY <1>2, <1>3, <1>4, <2>1, <2>2
<1>6. d \in Ledger /\ \A x \in Addr : d[x].nonce = p[x].nonce
  BY <1>4, <1>5, DebitLemma
<1> HIDE DEF d
<1>7. c \in Ledger /\ \A x \in Addr : c[x].nonce = d[x].nonce
  BY <1>6, CreditLemma
<1> HIDE DEF c
<1>8. Executed(l, t) = IF t.fails THEN p ELSE c
  BY DEF Executed, b, n, r, p, d, c
<1> QED BY <1>1, <1>2, <1>3, <1>4, <1>6, <1>7, <1>8

\* ApplyMessage on a ledger: the result is a ledger and a gas pool, no nonce
\* goes down, and on success the message had the sender's nonce, which is one
\* higher afterwards.
LEMMA ApplyMessageLemma ==
    ASSUME NEW l \in Ledger, NEW gp \in Nat, NEW t \in Tx
    PROVE  LET r == ApplyMessage(l, gp, t)
           IN  /\ r.ledger \in Ledger /\ r.gp \in Nat /\ r.err \in BOOLEAN
               /\ \A a \in Addr : l[a].nonce <= r.ledger[a].nonce
               /\ ~r.err => /\ l[t.from].nonce = t.nonce
                            /\ r.ledger[t.from].nonce = t.nonce + 1
<1> DEFINE r == ApplyMessage(l, gp, t)
<1> USE AmountLemma
<1>0. \A a \in Addr : l[a].nonce \in Nat /\ l[a].balance \in Nat
  BY DEF Ledger, Account
<1>1. CASE ~NonceOK(l, t) \/ ~CanBuyGas(l, gp, t)
  <2>1. r = [err |-> TRUE, ledger |-> l, gp |-> gp]
    BY <1>1 DEF ApplyMessage
  <2> QED BY <1>0, <2>1
<1>2. ASSUME NonceOK(l, t), CanBuyGas(l, gp, t)
      PROVE  /\ Bought(l, t) \in Ledger
             /\ \A x \in Addr : Bought(l, t)[x].nonce = l[x].nonce
             /\ gp - t.gas \in Nat
             /\ gp - t.used \in Nat
             /\ l[t.from].nonce = t.nonce
  BY <1>2, DebitLemma DEF NonceOK, CanBuyGas, Bought
<1>3. CASE NonceOK(l, t) /\ CanBuyGas(l, gp, t) /\ t.gas < IntrinsicGas
  <2>1. r = [err |-> TRUE, ledger |-> Bought(l, t), gp |-> gp - t.gas]
    BY <1>3, EvmAssumption DEF ApplyMessage
  <2> QED BY <1>0, <1>2, <1>3, <2>1
<1>4. CASE /\ NonceOK(l, t) /\ CanBuyGas(l, gp, t) /\ ~(t.gas < IntrinsicGas)
           /\ Bought(l, t)[t.from].balance < t.value
  <2>1. r = [err |-> TRUE,
             ledger |-> IF t.create THEN Bought(l, t)
                        ELSE BumpNonce(Bought(l, t), t.from),
             gp |-> gp - t.gas]
    <3>1. t.gas >= IntrinsicGas
      BY <1>4, EvmAssumption
    <3> QED BY <1>4, <3>1 DEF ApplyMessage
  <2>2. /\ BumpNonce(Bought(l, t), t.from) \in Ledger
        /\ \A x \in Addr : l[x].nonce <= BumpNonce(Bought(l, t), t.from)[x].nonce
    BY <1>0, <1>2, <1>4, BumpLemma
  <2>3. CASE t.create
    <3>1. r = [err |-> TRUE, ledger |-> Bought(l, t), gp |-> gp - t.gas]
      BY <2>1, <2>3
    <3> QED BY <1>0, <1>2, <1>4, <3>1
  <2>4. CASE ~t.create
    <3>1. r = [err |-> TRUE, ledger |-> BumpNonce(Bought(l, t), t.from),
               gp |-> gp - t.gas]
      BY <2>1, <2>4
    <3> QED BY <1>2, <1>4, <2>2, <3>1
  <2> QED BY <2>3, <2>4
<1>5. CASE /\ NonceOK(l, t) /\ CanBuyGas(l, gp, t) /\ ~(t.gas < IntrinsicGas)
           /\ ~(Bought(l, t)[t.from].balance < t.value)
  <2>1. r = [err |-> FALSE, ledger |-> Executed(l, t), gp |-> gp - t.used]
    BY <1>5 DEF ApplyMessage
  <2>2. Bought(l, t)[t.from].balance >= t.value
    BY <1>2, <1>5 DEF Ledger, Account
  <2>3. /\ Executed(l, t) \in Ledger
        /\ \A x \in Addr : Executed(l, t)[x].nonce
                           = IF x = t.from THEN l[x].nonce + 1 ELSE l[x].nonce
    BY <1>5, <2>2, ExecutedLemma
  <2> QED BY <1>0, <1>2, <1>5, <2>1, <2>3
<1> QED BY <1>1, <1>3, <1>4, <1>5
=============================================================================
