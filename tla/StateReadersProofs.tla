------------------------- MODULE StateReadersProofs -------------------------
(***************************************************************************)
(* StateReaders, for any accounts, blocks and number of readers: a reader  *)
(* shows only balances that have been committed, and the one interleaving  *)
(* of readers and engine that harms the database is a store of an object   *)
(* that is no longer current into the map of the write-ahead state.        *)
(***************************************************************************)
EXTENDS StateReaders, EvmProofs

\* A reader that is about to store an object has one.
Held == \A r \in Readers : phase[r] \in {"storeEth", "storeWas"} => got[r] # Unset

\* Whatever can be reached through s.ethState has been committed, account by
\* account: its trie, its map, and the objects that readers have in hand for it.
CommittedCopies ==
    /\ db \in committed /\ ethState.trie \in committed
    /\ \A a \in Addr : ethState.objects[a] # Unset =>
          \E l \in committed : ethState.objects[a] = l[a]
    /\ \A r \in Readers : phase[r] = "storeEth" =>
          \E l \in committed : got[r] = l[addr[r]]

\* One access of a transaction to a ledger, and the ledger before the k-th one.
One(l, c) == [l EXCEPT ![c.to] = [nonce |-> @.nonce + c.nonce,
                                  balance |-> @.balance + c.balance]]
Before(l, t, k) ==
    LET c == Accesses(t)
        l2 == One(l, c[1])
        l3 == One(l2, c[2])
        l4 == One(l3, c[3])
        l5 == One(l4, c[4])
        l6 == One(l5, c[5])
        l7 == One(l6, c[6])
    IN  <<l, l2, l3, l4, l5, l6, l7>>[k]

\* The checks that a transaction has passed before its k-th access.
Passed(l, t, k) ==
    /\ k > 1 => NonceOK(l, t) /\ CanBuyGas(l, t.gas, t)
    /\ k > 3 => Before(l, t, 3)[t.from].balance >= t.value

\* What getStateObject finds of each account in a StateDB.
Read(s) == [a \in Addr |-> Object(s, a)]

\* An object that differs from the trie's will be written.
Known(s) ==
    \A a \in Addr :
        s.objects[a] \notin {Unset, s.trie[a]} => a \in s.journal \cup s.dirty

\* Until a reader stores something stale, the engine reads what it has written: the
\* ledger expected before the transaction it executes, with the accesses it has
\* made so far.
Serial ==
    /\ pc = "select" => Read(was) = expected /\ Known(was)
    /\ pc = "execute" =>
          /\ Known(was)
          /\ block = <<>> => Read(was) = expected
          /\ block # <<>> => /\ Read(was) = Before(expected, Head(block), step)
                             /\ Passed(expected, Head(block), step)
    /\ pc # "execute" => db = expected

RInv ==
    /\ TypeOK /\ step \in 1..7 /\ Held
    /\ CommittedCopies /\ ShownWasCommitted
    /\ raced \/ Serial

-----------------------------------------------------------------------------
(* Accesses *)

\* The six accesses of a transfer: all but the first and the third add to a balance,
\* and those take from the sender what Allowed has looked for.
LEMMA AccessLemma ==
    ASSUME NEW t \in Tx
    PROVE  /\ Len(Accesses(t)) = 6
           /\ \A k \in 1..6 : /\ Accesses(t)[k].to \in Addr
                              /\ Accesses(t)[k].nonce \in Nat
                              /\ Accesses(t)[k].balance \in Int
                              /\ k \notin {1, 3} => Accesses(t)[k].balance >= 0
           /\ Accesses(t)[1].to = t.from /\ Accesses(t)[3].to = t.from
           /\ Accesses(t)[1].balance = -(t.gas * t.price)
           /\ Accesses(t)[3].balance = -t.value
<1> DEFINE g == t.gas * t.price
           b == (t.gas - t.used) * t.price
           f == t.used * t.price
<1>1. /\ t.from \in Addr /\ t.to \in Addr /\ Coinbase \in Addr
      /\ g \in Nat /\ b \in Nat /\ f \in Nat /\ t.value \in Nat
  BY AmountLemma, EvmAssumption
<1> HIDE DEF g, b, f
<1>2. Accesses(t) =
        <<[to |-> t.from, nonce |-> 0, balance |-> -g],
          [to |-> t.from, nonce |-> 1, balance |-> 0],
          [to |-> t.from, nonce |-> 0, balance |-> -t.value],
          [to |-> t.to, nonce |-> 0, balance |-> t.value],
          [to |-> t.from, nonce |-> 0, balance |-> b],
          [to |-> Coinbase, nonce |-> 0, balance |-> f]>>
  BY DEF Accesses, g, b, f
<1>3. 1..6 = {1, 2, 3, 4, 5, 6} OBVIOUS
<1>4. -g = -(t.gas * t.price) BY DEF g
<1> QED BY <1>1, <1>2, <1>3, <1>4

\* The ledger before the next access is the one before this access, with it.
LEMMA BeforeStep ==
    ASSUME NEW l, NEW t, NEW k \in 1..6
    PROVE  Before(l, t, k + 1) = One(Before(l, t, k), Accesses(t)[k])
<1>1. 1..6 = {1, 2, 3, 4, 5, 6} OBVIOUS
<1> QED BY <1>1 DEF Before

\* Before its first access a transaction has changed nothing.
LEMMA BeforeFirst == ASSUME NEW l, NEW t PROVE Before(l, t, 1) = l
BY DEF Before

\* Ledgers whose balances may be negative for a while, as they are when the parts of
\* a transaction are reordered.
IntLedger == [Addr -> [nonce : Int, balance : Int]]

\* Two of them with the same nonces and balances are the same.
LEMMA SameLedger ==
    ASSUME NEW l \in IntLedger, NEW m \in IntLedger,
           \A x \in Addr : l[x].nonce = m[x].nonce /\ l[x].balance = m[x].balance
    PROVE  l = m
<1>1. ASSUME NEW x \in Addr PROVE l[x] = m[x]
  <2>1. l[x] \in [nonce : Int, balance : Int] /\ m[x] \in [nonce : Int, balance : Int]
    BY DEF IntLedger
  <2> QED BY <2>1
<1> QED BY <1>1 DEF IntLedger

\* What an access, a credit, a debit and the increment of a nonce do to an account.
LEMMA OneAt ==
    ASSUME NEW l \in IntLedger, NEW a \in Addr, NEW n \in Int, NEW v \in Int
    PROVE  LET m == One(l, [to |-> a, nonce |-> n, balance |-> v])
           IN  /\ m \in IntLedger
               /\ \A x \in Addr :
                    /\ m[x].nonce = l[x].nonce + (IF x = a THEN n ELSE 0)
                    /\ m[x].balance = l[x].balance + (IF x = a THEN v ELSE 0)
BY DEF One, IntLedger

LEMMA CreditAt ==
    ASSUME NEW l \in IntLedger, NEW a \in Addr, NEW v \in Int
    PROVE  /\ Credit(l, a, v) \in IntLedger
           /\ \A x \in Addr :
                /\ Credit(l, a, v)[x].nonce = l[x].nonce
                /\ Credit(l, a, v)[x].balance
                      = l[x].balance + (IF x = a THEN v ELSE 0)
BY DEF Credit, IntLedger

LEMMA DebitAt ==
    ASSUME NEW l \in IntLedger, NEW a \in Addr, NEW v \in Int
    PROVE  /\ Debit(l, a, v) \in IntLedger
           /\ \A x \in Addr :
                /\ Debit(l, a, v)[x].nonce = l[x].nonce
                /\ Debit(l, a, v)[x].balance
                      = l[x].balance - (IF x = a THEN v ELSE 0)
BY DEF Debit, IntLedger

LEMMA BumpAt ==
    ASSUME NEW l \in IntLedger, NEW a \in Addr
    PROVE  /\ BumpNonce(l, a) \in IntLedger
           /\ \A x \in Addr :
                /\ BumpNonce(l, a)[x].nonce = l[x].nonce + (IF x = a THEN 1 ELSE 0)
                /\ BumpNonce(l, a)[x].balance = l[x].balance
BY DEF BumpNonce, IntLedger

\* Sender s pays g for gas and v to r, gets b back, and the fee f goes to k: the order
\* in which the accounts are touched does not matter.
LEMMA Reordered ==
    ASSUME NEW l \in IntLedger, NEW s \in Addr, NEW r \in Addr, NEW k \in Addr,
           NEW g \in Int, NEW b \in Int, NEW f \in Int, NEW v \in Int
    PROVE  LET l2 == One(l, [to |-> s, nonce |-> 0, balance |-> -g])
               l3 == One(l2, [to |-> s, nonce |-> 1, balance |-> 0])
               l4 == One(l3, [to |-> s, nonce |-> 0, balance |-> -v])
               l5 == One(l4, [to |-> r, nonce |-> 0, balance |-> v])
               l6 == One(l5, [to |-> s, nonce |-> 0, balance |-> b])
               l7 == One(l6, [to |-> k, nonce |-> 0, balance |-> f])
               e3 == BumpNonce(Debit(l, s, g), s)
               e5 == Credit(Credit(e3, s, b), k, f)
           IN  /\ l3 = e3
               /\ l7 = Credit(Debit(e5, s, v), r, v)
<1> DEFINE l2 == One(l, [to |-> s, nonce |-> 0, balance |-> -g])
           l3 == One(l2, [to |-> s, nonce |-> 1, balance |-> 0])
           l4 == One(l3, [to |-> s, nonce |-> 0, balance |-> -v])
           l5 == One(l4, [to |-> r, nonce |-> 0, balance |-> v])
           l6 == One(l5, [to |-> s, nonce |-> 0, balance |-> b])
           l7 == One(l6, [to |-> k, nonce |-> 0, balance |-> f])
           e2 == Debit(l, s, g)
           e3 == BumpNonce(e2, s)
           e4 == Credit(e3, s, b)
           e5 == Credit(e4, k, f)
           e6 == Debit(e5, s, v)
           e7 == Credit(e6, r, v)
<1> SUFFICES l3 = e3 /\ l7 = e7 OBVIOUS
<1> HIDE DEF l2, l3, l4, l5, l6, l7, e2, e3, e4, e5, e6, e7
<1>0. -g \in Int /\ -v \in Int OBVIOUS
<1>1. /\ l2 \in IntLedger
      /\ \A x \in Addr : /\ l2[x].nonce = l[x].nonce + (IF x = s THEN 0 ELSE 0)
                         /\ l2[x].balance = l[x].balance + (IF x = s THEN -g ELSE 0)
  <2> DEFINE h == -g
  <2>1. h \in Int BY <1>0
  <2>2. l2 = One(l, [to |-> s, nonce |-> 0, balance |-> h]) BY DEF l2
  <2> HIDE DEF h
  <2>3. /\ l2 \in IntLedger
        /\ \A x \in Addr : /\ l2[x].nonce = l[x].nonce + (IF x = s THEN 0 ELSE 0)
                           /\ l2[x].balance = l[x].balance + (IF x = s THEN h ELSE 0)
    BY <2>1, <2>2, OneAt
  <2> QED BY <2>3 DEF h
<1>2. /\ l3 \in IntLedger
      /\ \A x \in Addr : /\ l3[x].nonce = l2[x].nonce + (IF x = s THEN 1 ELSE 0)
                         /\ l3[x].balance = l2[x].balance + (IF x = s THEN 0 ELSE 0)
  BY <1>1, OneAt DEF l3
<1>3. /\ l4 \in IntLedger
      /\ \A x \in Addr : /\ l4[x].nonce = l3[x].nonce + (IF x = s THEN 0 ELSE 0)
                         /\ l4[x].balance = l3[x].balance + (IF x = s THEN -v ELSE 0)
  BY <1>0, <1>2, OneAt DEF l4
<1>4. /\ l5 \in IntLedger
      /\ \A x \in Addr : /\ l5[x].nonce = l4[x].nonce + (IF x = r THEN 0 ELSE 0)
                         /\ l5[x].balance = l4[x].balance + (IF x = r THEN v ELSE 0)
  BY <1>3, OneAt DEF l5
<1>5. /\ l6 \in IntLedger
      /\ \A x \in Addr : /\ l6[x].nonce = l5[x].nonce + (IF x = s THEN 0 ELSE 0)
                         /\ l6[x].balance = l5[x].balance + (IF x = s THEN b ELSE 0)
  BY <1>4, OneAt DEF l6
<1>6. /\ l7 \in IntLedger
      /\ \A x \in Addr : /\ l7[x].nonce = l6[x].nonce + (IF x = k THEN 0 ELSE 0)
                         /\ l7[x].balance = l6[x].balance + (IF x = k THEN f ELSE 0)
  BY <1>5, OneAt DEF l7
<1>7. /\ e2 \in IntLedger
      /\ \A x \in Addr : /\ e2[x].nonce = l[x].nonce
                         /\ e2[x].balance = l[x].balance - (IF x = s THEN g ELSE 0)
  BY DebitAt DEF e2
<1>8. /\ e3 \in IntLedger
      /\ \A x \in Addr : /\ e3[x].nonce = e2[x].nonce + (IF x = s THEN 1 ELSE 0)
                         /\ e3[x].balance = e2[x].balance
  BY <1>7, BumpAt DEF e3
<1>9. /\ e4 \in IntLedger
      /\ \A x \in Addr : /\ e4[x].nonce = e3[x].nonce
                         /\ e4[x].balance = e3[x].balance + (IF x = s THEN b ELSE 0)
  BY <1>8, CreditAt DEF e4
<1>10. /\ e5 \in IntLedger
       /\ \A x \in Addr : /\ e5[x].nonce = e4[x].nonce
                          /\ e5[x].balance = e4[x].balance + (IF x = k THEN f ELSE 0)
  BY <1>9, CreditAt DEF e5
<1>11. /\ e6 \in IntLedger
       /\ \A x \in Addr : /\ e6[x].nonce = e5[x].nonce
                          /\ e6[x].balance = e5[x].balance - (IF x = s THEN v ELSE 0)
  BY <1>10, DebitAt DEF e6
<1>12. /\ e7 \in IntLedger
       /\ \A x \in Addr : /\ e7[x].nonce = e6[x].nonce
                          /\ e7[x].balance = e6[x].balance + (IF x = r THEN v ELSE 0)
  BY <1>11, CreditAt DEF e7
<1>13. ASSUME NEW x \in Addr
       PROVE  /\ l3[x].nonce = e3[x].nonce /\ l3[x].balance = e3[x].balance
              /\ l7[x].nonce = e7[x].nonce /\ l7[x].balance = e7[x].balance
  <2>1. l[x].nonce \in Int /\ l[x].balance \in Int BY DEF IntLedger
  <2>2. l3[x].nonce = e3[x].nonce /\ l3[x].balance = e3[x].balance
    BY <1>1, <1>2, <1>7, <1>8, <2>1
  <2>3. l3[x].nonce \in Int /\ l3[x].balance \in Int BY <1>2 DEF IntLedger
  <2>4. l7[x].nonce = e7[x].nonce
    BY <1>3, <1>4, <1>5, <1>6, <1>9, <1>10, <1>11, <1>12, <2>2, <2>3
  <2>5. l7[x].balance = e7[x].balance
    BY <1>3, <1>4, <1>5, <1>6, <1>9, <1>10, <1>11, <1>12, <2>2, <2>3
  <2> QED BY <2>2, <2>4, <2>5
<1>14. l3 = e3 BY <1>2, <1>8, <1>13, SameLedger
<1>15. l7 = e7 BY <1>6, <1>12, <1>13, SameLedger
<1> QED BY <1>14, <1>15

\* The two accesses before CanTransfer are what ApplyMessage leaves of a transfer
\* that cannot be made, and all six are what it does to one that is.
LEMMA AccessesExecute ==
    ASSUME NEW l \in Ledger, NEW t \in Tx
    PROVE  /\ Before(l, t, 3) = BumpNonce(Bought(l, t), t.from)
           /\ Before(l, t, 7) = Executed(l, t)
<1> DEFINE g == t.gas * t.price
           b == (t.gas - t.used) * t.price
           f == t.used * t.price
<1>1. /\ t.from \in Addr /\ t.to \in Addr /\ Coinbase \in Addr
      /\ g \in Int /\ b \in Int /\ f \in Int /\ t.value \in Int
  BY AmountLemma, EvmAssumption
<1>2. l \in IntLedger BY DEF Ledger, Account, IntLedger
<1>3. ~t.fails BY ReadersAssumption
<1> DEFINE l2 == One(l, [to |-> t.from, nonce |-> 0, balance |-> -g])
           l3 == One(l2, [to |-> t.from, nonce |-> 1, balance |-> 0])
           l4 == One(l3, [to |-> t.from, nonce |-> 0, balance |-> -t.value])
           l5 == One(l4, [to |-> t.to, nonce |-> 0, balance |-> t.value])
           l6 == One(l5, [to |-> t.from, nonce |-> 0, balance |-> b])
           l7 == One(l6, [to |-> Coinbase, nonce |-> 0, balance |-> f])
           e3 == BumpNonce(Debit(l, t.from, g), t.from)
           e5 == Credit(Credit(e3, t.from, b), Coinbase, f)
           e7 == Credit(Debit(e5, t.from, t.value), t.to, t.value)
<1>4. Before(l, t, 3) = l3 /\ Before(l, t, 7) = l7 BY DEF Before, Accesses
<1>5. BumpNonce(Bought(l, t), t.from) = e3 BY DEF Bought
<1>6. Executed(l, t) = e7 BY <1>3 DEF Executed, Bought
<1> HIDE DEF g, b, f
<1>7. l3 = e3 /\ l7 = e7 BY <1>1, <1>2, Reordered
<1> QED BY <1>4, <1>5, <1>6, <1>7

-----------------------------------------------------------------------------
(* StateDB *)

\* A StateDB is its four parts.
LEMMA RecordLemma ==
    ASSUME NEW s \in StateDB
    PROVE  s = [trie |-> s.trie, objects |-> s.objects, journal |-> s.journal,
                dirty |-> s.dirty]
BY DEF StateDB

\* What is found of an account is an account.
LEMMA ObjectLemma ==
    ASSUME NEW s \in StateDB, NEW a \in Addr
    PROVE  Object(s, a) \in Account /\ Read(s)[a] = Object(s, a)
BY ReadersAssumption DEF StateDB, Object, Ledger, Read

LEMMA ReadLemma == ASSUME NEW s \in StateDB PROVE Read(s) \in Ledger
BY ObjectLemma DEF Read, Ledger

\* A new StateDB has what its root has.
LEMMA FreshLemma ==
    ASSUME NEW l \in Ledger
    PROVE  Fresh(l) \in StateDB /\ Read(Fresh(l)) = l /\ Known(Fresh(l))
<1>1. Fresh(l) \in StateDB BY DEF Fresh, StateDB
<1>2. Read(Fresh(l)) = l BY DEF Read, Object, Fresh, Ledger
<1>3. Known(Fresh(l)) BY DEF Known, Fresh
<1> QED BY <1>1, <1>2, <1>3

\* To store what is current changes nothing that can be read.
LEMMA StoreLemma ==
    ASSUME NEW s \in StateDB, NEW a \in Addr, NEW o \in Account
    PROVE  /\ Store(s, a, o) \in StateDB
           /\ o = Object(s, a) => Read(Store(s, a, o)) = Read(s)
           /\ o = Object(s, a) /\ Known(s) => Known(Store(s, a, o))
<1>0. o # Unset BY ReadersAssumption
<1>1. Store(s, a, o) \in StateDB BY DEF Store, StateDB
<1>2. ASSUME o = Object(s, a), NEW x \in Addr
      PROVE  Object(Store(s, a, o), x) = Object(s, x)
  BY <1>0, <1>2 DEF Object, Store, StateDB
<1>3. ASSUME o = Object(s, a), Known(s) PROVE Known(Store(s, a, o))
  BY <1>0, <1>3 DEF Known, Store, StateDB, Object
<1> QED BY <1>1, <1>2, <1>3 DEF Read

\* A change changes what is read of that account, and a changed object will be
\* written.
LEMMA ChangeLemma ==
    ASSUME NEW s \in StateDB, NEW a \in Addr, NEW o \in Account
    PROVE  /\ Change(s, a, o) \in StateDB
           /\ \A x \in Addr : Read(Change(s, a, o))[x] = IF x = a THEN o ELSE Read(s)[x]
           /\ Known(s) => Known(Change(s, a, o))
<1> DEFINE j == IF o = Object(s, a) THEN s.journal ELSE s.journal \cup {a}
           n == [trie |-> s.trie, objects |-> [s.objects EXCEPT ![a] = o],
                 journal |-> j, dirty |-> s.dirty]
<1>0. o # Unset BY ReadersAssumption
<1>1. Change(s, a, o) = n
  <2> DEFINE m == [s EXCEPT !.objects[a] = o]
  <2>1. /\ m = [trie |-> s.trie, objects |-> [s.objects EXCEPT ![a] = o],
                journal |-> s.journal, dirty |-> s.dirty]
        /\ Store(s, a, o) = m
    BY RecordLemma DEF Store
  <2> HIDE DEF m
  <2>2. Change(s, a, o) = [m EXCEPT !.journal = j] BY <2>1 DEF Change
  <2> HIDE DEF j
  <2> QED BY <2>1, <2>2
<1>2. j \subseteq Addr
  <2>1. s.journal \subseteq Addr BY DEF StateDB
  <2> QED BY <2>1
<1>3. s.journal \subseteq j /\ (o # Object(s, a) => a \in j) OBVIOUS
<1> HIDE DEF j
<1>4. n \in StateDB BY <1>2 DEF StateDB
<1>5. ASSUME NEW x \in Addr PROVE Read(n)[x] = IF x = a THEN o ELSE Read(s)[x]
  BY <1>0 DEF Read, Object, StateDB
<1>6. ASSUME Known(s) PROVE Known(n)
  BY <1>0, <1>3, <1>6 DEF Known, StateDB, Object
<1> HIDE DEF n
<1> QED BY <1>1, <1>4, <1>5, <1>6

\* The trie with some of the objects written to it is a ledger.
LEMMA WrittenLemma ==
    ASSUME NEW s \in StateDB, NEW D
    PROVE  Written(s, D) \in Ledger
BY DEF Written, StateDB, Ledger

\* IntermediateRoot changes nothing that can be read.
LEMMA FinaliseLemma ==
    ASSUME NEW s \in StateDB
    PROVE  /\ Finalise(s) \in StateDB
           /\ Read(Finalise(s)) = Read(s)
           /\ Known(s) => Known(Finalise(s))
<1> DEFINE n == [trie |-> Written(s, s.journal), objects |-> s.objects,
                 journal |-> {}, dirty |-> s.dirty \cup s.journal]
<1>1. Finalise(s) = n
  <2> DEFINE w == Written(s, s.journal)
             d == s.dirty \cup s.journal
  <2>1. Finalise(s) = [s EXCEPT !.trie = w, !.dirty = d, !.journal = {}]
    BY DEF Finalise
  <2>2. n = [trie |-> w, objects |-> s.objects, journal |-> {}, dirty |-> d] OBVIOUS
  <2> HIDE DEF w, d, n
  <2> QED BY <2>1, <2>2, RecordLemma
<1>2. n \in StateDB
  <2>1. Written(s, s.journal) \in Ledger BY WrittenLemma
  <2>2. /\ s.objects \in [Addr -> Account \cup {Unset}]
        /\ s.dirty \cup s.journal \subseteq Addr
    BY DEF StateDB
  <2> QED BY <2>1, <2>2 DEF StateDB
<1>3. ASSUME NEW x \in Addr PROVE Object(n, x) = Object(s, x)
  BY DEF Object, Written
<1>4. ASSUME Known(s) PROVE Known(n) BY <1>4 DEF Known, Written
<1> HIDE DEF n
<1> QED BY <1>1, <1>2, <1>3, <1>4 DEF Read

\* StateDB.Commit writes all that can be read.
LEMMA CommitLemma ==
    ASSUME NEW s \in StateDB, Known(s)
    PROVE  Written(s, s.journal \cup s.dirty) = Read(s)
<1>1. ASSUME NEW x \in Addr
      PROVE  Written(s, s.journal \cup s.dirty)[x] = Object(s, x)
  BY DEF Written, Object, Known
<1> QED BY <1>1 DEF Written, Read

-----------------------------------------------------------------------------
(* Transactions: what their accesses amount to *)

\* A transaction that preCheck or buyGas refuses leaves the ledger.
LEMMA RefusedLemma ==
    ASSUME NEW l \in Ledger, NEW t \in Tx,
           ~(NonceOK(l, t) /\ l[t.from].balance >= t.gas * t.price)
    PROVE  ApplyMessage(l, t.gas, t).ledger = l
<1>1. ~NonceOK(l, t) \/ ~CanBuyGas(l, t.gas, t) BY DEF CanBuyGas
<1>2. ApplyMessage(l, t.gas, t) = [err |-> TRUE, ledger |-> l, gp |-> t.gas]
  BY <1>1 DEF ApplyMessage
<1> QED BY <1>2

\* Before CanTransfer the sender's balance is what buying the gas has left of it.
LEMMA BeforeTransfer ==
    ASSUME NEW l \in Ledger, NEW t \in Tx, CanBuyGas(l, t.gas, t)
    PROVE  /\ Before(l, t, 3) \in Ledger
           /\ Before(l, t, 3)[t.from].balance = Bought(l, t)[t.from].balance
<1>1. t.from \in Addr /\ t.gas * t.price \in Nat BY AmountLemma
<1>2. Bought(l, t) \in Ledger BY <1>1, DebitLemma DEF CanBuyGas, Bought
<1> QED BY <1>1, <1>2, AccessesExecute, BumpLemma

\* One that cannot transfer its value leaves the first two accesses.
LEMMA TooPoorLemma ==
    ASSUME NEW l \in Ledger, NEW t \in Tx, Passed(l, t, 3),
           ~(Before(l, t, 3)[t.from].balance >= t.value)
    PROVE  ApplyMessage(l, t.gas, t).ledger = Before(l, t, 3)
<1>1. NonceOK(l, t) /\ CanBuyGas(l, t.gas, t) BY DEF Passed
<1>2. Bought(l, t)[t.from].balance < t.value
  <2>1. /\ t.value \in Nat /\ t.from \in Addr
        /\ Before(l, t, 3)[t.from].balance \in Nat
    BY <1>1, AmountLemma, BeforeTransfer DEF Ledger, Account
  <2> QED BY <1>1, <2>1, BeforeTransfer
<1>3. t.gas >= IntrinsicGas /\ ~t.create BY ReadersAssumption
<1>4. ~(t.gas < IntrinsicGas) BY <1>3, AmountLemma, EvmAssumption
<1>5. ApplyMessage(l, t.gas, t)
        = [err |-> TRUE, ledger |-> BumpNonce(Bought(l, t), t.from), gp |-> t.gas - t.gas]
  BY <1>1, <1>2, <1>3, <1>4 DEF ApplyMessage
<1> QED BY <1>5, AccessesExecute

\* One that passes all checks has been executed when its accesses have been made.
LEMMA DoneLemma ==
    ASSUME NEW l \in Ledger, NEW t \in Tx, Passed(l, t, 7)
    PROVE  ApplyMessage(l, t.gas, t).ledger = Before(l, t, 7)
<1>1. /\ NonceOK(l, t) /\ CanBuyGas(l, t.gas, t)
      /\ Before(l, t, 3)[t.from].balance >= t.value
  BY DEF Passed
<1>2. ~(Bought(l, t)[t.from].balance < t.value)
  <2>1. /\ t.value \in Nat /\ t.from \in Addr
        /\ Before(l, t, 3)[t.from].balance \in Nat
    BY <1>1, AmountLemma, BeforeTransfer DEF Ledger, Account
  <2> QED BY <1>1, <2>1, BeforeTransfer
<1>3. ~(t.gas < IntrinsicGas) BY ReadersAssumption, AmountLemma, EvmAssumption
<1>4. ApplyMessage(l, t.gas, t)
        = [err |-> FALSE, ledger |-> Executed(l, t), gp |-> t.gas - t.used]
  BY <1>1, <1>2, <1>3 DEF ApplyMessage
<1> QED BY <1>4, AccessesExecute

-----------------------------------------------------------------------------
(* The engine keeps the invariant *)

\* Steps that leave the database, s.ethState and the readers alone.
LEMMA Beside ==
    ASSUME Held, CommittedCopies, ShownWasCommitted,
           UNCHANGED <<db, ethState, readers, committed>>
    PROVE  Held' /\ CommittedCopies' /\ ShownWasCommitted'
BY DEF Held, CommittedCopies, ShownWasCommitted, readers

\* A transaction that has not begun.
LEMMA Begins ==
    ASSUME NEW l, NEW t
    PROVE  Before(l, t, 1) = l /\ Passed(l, t, 1)
BY BeforeFirst DEF Passed

\* The transactions of a block that are left.
LEMMA BlockLemma ==
    ASSUME NEW b \in Seq(Tx), b # <<>>
    PROVE  Head(b) \in Tx /\ Tail(b) \in Seq(Tx)
OBVIOUS

LEMMA ProcessBlockKeeps ==
    ASSUME RInv, ProcessBlock PROVE RInv'
<1>1. PICK b \in todo : block' = b /\ todo' = todo \ {b} BY DEF ProcessBlock
<1>2. /\ pc = "select" /\ pc' = "execute" /\ step' = 1
      /\ UNCHANGED <<db, ethState, was, readers, history>>
  BY DEF ProcessBlock
<1>3. TypeOK' /\ step' \in 1..7
  <2>1. block' \in Seq(Tx) /\ todo' \subseteq Blocks
    BY <1>1, ReadersAssumption DEF RInv, TypeOK
  <2> QED BY <1>2, <2>1 DEF RInv, TypeOK, readers, history
<1>4. Held' /\ CommittedCopies' /\ ShownWasCommitted'
  BY <1>2, Beside DEF RInv, history
<1>5. ASSUME ~raced' PROVE Serial'
  <2>1. Read(was) = expected /\ Known(was) BY <1>2, <1>5 DEF RInv, Serial, history
  <2>2. was' = was /\ expected' = expected BY <1>2 DEF history
  <2> QED BY <1>2, <2>1, <2>2, Begins DEF Serial
<1> QED BY <1>3, <1>4, <1>5 DEF RInv

LEMMA RejectTxKeeps ==
    ASSUME RInv, RejectTx PROVE RInv'
<1> DEFINE t == Head(block)
<1>1. /\ pc = "execute" /\ block # <<>> /\ ~Allowed(t)
      /\ block' = Tail(block) /\ step' = 1
      /\ expected' = ApplyMessage(expected, t.gas, t).ledger
      /\ UNCHANGED <<db, ethState, was, todo, pc, readers, committed, raced>>
  BY DEF RejectTx
<1>2. /\ t \in Tx /\ Tail(block) \in Seq(Tx)
      /\ expected \in Ledger /\ was \in StateDB /\ step \in 1..7
  BY <1>1, BlockLemma DEF RInv, TypeOK
<1> HIDE DEF t
<1>3. TypeOK' /\ step' \in 1..7
  <2>1. expected' \in Ledger BY <1>1, <1>2, AmountLemma, ApplyMessageLemma
  <2> QED BY <1>1, <1>2, <2>1 DEF RInv, TypeOK, readers
<1>4. Held' /\ CommittedCopies' /\ ShownWasCommitted' BY <1>1, Beside DEF RInv
<1>5. ASSUME ~raced' PROVE Serial'
  <2>1. /\ Known(was) /\ Read(was) = Before(expected, t, step)
        /\ Passed(expected, t, step)
    BY <1>1, <1>5 DEF RInv, Serial, t
  <2>2. t.from \in Addr BY <1>2, AmountLemma
  <2>3. Object(was, t.from) = Before(expected, t, step)[t.from]
    BY <1>2, <2>1, <2>2, ObjectLemma
  <2>4. expected' = Read(was)
    <3>1. CASE step = 1
      <4>1. Read(was) = expected BY <2>1, <3>1, Begins
      <4>2. ~(NonceOK(expected, t) /\ expected[t.from].balance >= t.gas * t.price)
        BY <1>1, <2>3, <3>1, Begins DEF Allowed, NonceOK
      <4> QED BY <1>1, <1>2, <4>1, <4>2, RefusedLemma
    <3>2. CASE step = 3
      <4>1. ~(Before(expected, t, 3)[t.from].balance >= t.value)
        BY <1>1, <2>3, <3>2 DEF Allowed
      <4> QED BY <1>1, <1>2, <2>1, <3>2, <4>1, TooPoorLemma
    <3>3. CASE step # 1 /\ step # 3 BY <1>1, <3>3 DEF Allowed
    <3> QED BY <3>1, <3>2, <3>3
  <2>5. Read(was') = expected' /\ Known(was') BY <1>1, <2>1, <2>4
  <2>6. pc' = "execute" BY <1>1
  <2> QED BY <1>1, <2>5, <2>6, Begins DEF Serial
<1> QED BY <1>3, <1>4, <1>5 DEF RInv

\* An access: it leaves no account in debt, whatever the readers have stored.
LEMMA AccessKeeps ==
    ASSUME RInv, Access PROVE RInv'
<1> DEFINE t == Head(block)
           c == Accesses(t)[step]
           old == Object(was, c.to)
           new == [nonce |-> old.nonce + c.nonce, balance |-> old.balance + c.balance]
<1>1. /\ pc = "execute" /\ block # <<>> /\ step <= Len(Accesses(t)) /\ Allowed(t)
      /\ was' = Change(was, c.to, new)
      /\ step' = step + 1
      /\ UNCHANGED <<db, ethState, todo, pc, block, readers, history>>
  BY DEF Access
<1>2. t \in Tx /\ expected \in Ledger /\ was \in StateDB /\ step \in 1..7
  BY <1>1, BlockLemma DEF RInv, TypeOK
<1> HIDE DEF t
<1>3. /\ step \in 1..6 /\ c.to \in Addr /\ c.nonce \in Nat /\ c.balance \in Int
      /\ step \notin {1, 3} => c.balance >= 0
      /\ step = 1 => c.to = t.from /\ c.balance = -(t.gas * t.price)
      /\ step = 3 => c.to = t.from /\ c.balance = -t.value
  <2>0. Len(Accesses(t)) = 6 BY <1>2, AccessLemma
  <2>1. step \in 1..6 BY <1>1, <1>2, <2>0
  <2>2. /\ c.to \in Addr /\ c.nonce \in Nat /\ c.balance \in Int
        /\ step \notin {1, 3} => c.balance >= 0
    BY <1>2, <2>1, AccessLemma
  <2>3. step = 1 => c.to = t.from /\ c.balance = -(t.gas * t.price)
    BY <1>2, AccessLemma
  <2>4. step = 3 => c.to = t.from /\ c.balance = -t.value
    BY <1>2, AccessLemma
  <2> QED BY <2>1, <2>2, <2>3, <2>4
<1> HIDE DEF c
<1>4. old \in Account BY <1>2, <1>3, ObjectLemma
<1>5. new \in Account
  <2>1. old.nonce \in Nat /\ old.balance \in Nat BY <1>4 DEF Account
  <2>2. t.value \in Nat /\ t.gas * t.price \in Nat BY <1>2, AmountLemma
  <2>3. /\ step = 1 => old.balance >= t.gas * t.price
        /\ step = 3 => old.balance >= t.value
    BY <1>1, <1>3 DEF Allowed
  <2> DEFINE g == t.gas * t.price
  <2> HIDE DEF old, g
  <2>4. old.balance + c.balance \in Nat
    <3>1. CASE step = 1
      <4>1. c.balance = -g /\ old.balance >= g /\ g \in Nat
        BY <1>3, <2>2, <2>3, <3>1 DEF g
      <4> QED BY <2>1, <4>1
    <3>2. CASE step = 3 BY <1>3, <2>1, <2>2, <2>3, <3>2
    <3>3. CASE step \notin {1, 3} BY <1>3, <2>1, <3>3
    <3> QED BY <3>1, <3>2, <3>3
  <2>5. old.nonce + c.nonce \in Nat BY <1>3, <2>1
  <2> QED BY <2>4, <2>5 DEF Account
<1>6. TypeOK' /\ step' \in 1..7
  <2>1. was' \in StateDB BY <1>1, <1>2, <1>3, <1>5, ChangeLemma
  <2>2. step' \in 1..7 /\ step' \in Nat BY <1>1, <1>3
  <2> QED BY <1>1, <2>1, <2>2 DEF RInv, TypeOK, readers, history
<1>7. Held' /\ CommittedCopies' /\ ShownWasCommitted'
  BY <1>1, Beside DEF RInv, history
<1>8. ASSUME ~raced' PROVE Serial'
  <2>1. /\ Known(was) /\ Read(was) = Before(expected, t, step)
        /\ Passed(expected, t, step)
    BY <1>1, <1>8 DEF RInv, Serial, t, history
  <2>2. Known(was') BY <1>1, <1>2, <1>3, <1>5, <2>1, ChangeLemma
  <2>3. Read(was') = Before(expected, t, step + 1)
    <3>1. ASSUME NEW x \in Addr PROVE Read(was')[x] = One(Read(was), c)[x]
      <4>1. Read(was')[x] = IF x = c.to THEN new ELSE Read(was)[x]
        BY <1>1, <1>2, <1>3, <1>5, ChangeLemma
      <4>2. Read(was) \in Ledger BY <1>2, ReadLemma
      <4>3. Read(was)[c.to] = old BY <1>2, <1>3, ObjectLemma
      <4>4. One(Read(was), c)[x] = IF x = c.to THEN new ELSE Read(was)[x]
        BY <1>3, <4>2, <4>3 DEF One, Ledger
      <4> QED BY <4>1, <4>4
    <3>2. Read(was') = One(Read(was), c) BY <3>1 DEF Read, One
    <3>3. One(Read(was), c) = Before(expected, t, step + 1)
      BY <1>3, <2>1, BeforeStep DEF c
    <3> QED BY <3>2, <3>3
  <2>4. Passed(expected, t, step + 1)
    <3>0. t.from \in Addr /\ t.gas \in Nat BY <1>2, AmountLemma
    <3>1. Object(was, t.from) = Before(expected, t, step)[t.from]
      BY <1>2, <2>1, <3>0, ObjectLemma
    <3>2. CASE step = 1
      BY <1>1, <3>0, <3>1, <3>2, Begins DEF Passed, Allowed, NonceOK, CanBuyGas
    <3>3. CASE step = 3
      <4>1. Before(expected, t, 3)[t.from].balance >= t.value
        BY <1>1, <3>1, <3>3 DEF Allowed
      <4>2. NonceOK(expected, t) /\ CanBuyGas(expected, t.gas, t)
        BY <2>1, <3>3 DEF Passed
      <4> QED BY <4>1, <4>2 DEF Passed
    <3>4. CASE step \notin {1, 3}
      <4>1. step + 1 > 1 => step > 1 BY <1>3, <3>4
      <4>2. step + 1 > 3 => step > 3 BY <1>3, <3>4
      <4> QED BY <2>1, <4>1, <4>2 DEF Passed
    <3> QED BY <3>2, <3>3, <3>4
  <2>5. UNCHANGED <<pc, block, expected, db>> BY <1>1 DEF history
  <2> QED BY <1>1, <2>2, <2>3, <2>4, <2>5 DEF Serial, t
<1> QED BY <1>6, <1>7, <1>8 DEF RInv

LEMMA EndTxKeeps ==
    ASSUME RInv, EndTx PROVE RInv'
<1> DEFINE t == Head(block)
<1>1. /\ pc = "execute" /\ block # <<>> /\ step > Len(Accesses(t))
      /\ was' = Finalise(was)
      /\ block' = Tail(block) /\ step' = 1
      /\ expected' = ApplyMessage(expected, t.gas, t).ledger
      /\ UNCHANGED <<db, ethState, todo, pc, readers, committed, raced>>
  BY DEF EndTx
<1>2. /\ t \in Tx /\ Tail(block) \in Seq(Tx)
      /\ expected \in Ledger /\ was \in StateDB /\ step \in 1..7
  BY <1>1, BlockLemma DEF RInv, TypeOK
<1> HIDE DEF t
<1>3. TypeOK' /\ step' \in 1..7
  <2>1. expected' \in Ledger BY <1>1, <1>2, AmountLemma, ApplyMessageLemma
  <2>2. was' \in StateDB BY <1>1, <1>2, FinaliseLemma
  <2> QED BY <1>1, <1>2, <2>1, <2>2 DEF RInv, TypeOK, readers
<1>4. Held' /\ CommittedCopies' /\ ShownWasCommitted' BY <1>1, Beside DEF RInv
<1>5. ASSUME ~raced' PROVE Serial'
  <2>1. step = 7 BY <1>1, <1>2, AccessLemma
  <2>2. /\ Known(was) /\ Read(was) = Before(expected, t, 7)
        /\ Passed(expected, t, 7)
    BY <1>1, <1>5, <2>1 DEF RInv, Serial, t
  <2>3. Read(was') = expected' /\ Known(was')
    BY <1>1, <1>2, <2>2, DoneLemma, FinaliseLemma
  <2>4. pc' = "execute" BY <1>1
  <2> QED BY <1>1, <2>3, <2>4, Begins DEF Serial
<1> QED BY <1>3, <1>4, <1>5 DEF RInv

LEMMA CommitKeeps ==
    ASSUME RInv, Commit PROVE RInv'
<1> DEFINE root == Written(was, was.journal \cup was.dirty)
<1>1. /\ pc = "execute" /\ block = <<>> /\ db' = root
      /\ committed' = committed \cup {root}
      /\ was' = [was EXCEPT !.trie = root, !.journal = {}, !.dirty = {}]
      /\ pc' = "resetEth"
      /\ UNCHANGED <<ethState, todo, block, step, readers, expected, raced>>
  BY DEF Commit
<1>2. was \in StateDB BY DEF RInv, TypeOK
<1>3. root \in Ledger BY <1>2, WrittenLemma
<1>4. ASSUME ~raced PROVE root = expected
  BY <1>1, <1>2, <1>4, CommitLemma DEF RInv, Serial
<1> HIDE DEF root
<1>5. TypeOK' /\ step' \in 1..7
  <2>1. was' \in StateDB BY <1>1, <1>2, <1>3 DEF StateDB
  <2> QED BY <1>1, <1>3, <2>1 DEF RInv, TypeOK, readers
<1>6. Held' BY <1>1 DEF RInv, Held, readers
<1>7. CommittedCopies' BY <1>1 DEF RInv, CommittedCopies, readers
<1>8. ShownWasCommitted' BY <1>1 DEF RInv, ShownWasCommitted, readers
<1>9. ASSUME ~raced' PROVE Serial' BY <1>1, <1>4, <1>9 DEF Serial
<1> QED BY <1>5, <1>6, <1>7, <1>8, <1>9 DEF RInv

LEMMA ResetEthStateKeeps ==
    ASSUME RInv, ResetEthState PROVE RInv'
<1>1. /\ pc = "resetEth" /\ ethState' = Fresh(db) /\ pc' = "resetWas"
      /\ UNCHANGED <<db, was, todo, block, step, readers, history>>
  BY DEF ResetEthState
<1>2. TypeOK' /\ step' \in 1..7
  <2>1. ethState' \in StateDB BY <1>1, FreshLemma DEF RInv, TypeOK
  <2> QED BY <1>1, <2>1 DEF RInv, TypeOK, readers, history
<1>3. Held' BY <1>1 DEF RInv, Held, readers
<1>4. CommittedCopies'
  BY <1>1 DEF RInv, CommittedCopies, readers, history, Fresh
<1>5. ShownWasCommitted' BY <1>1 DEF RInv, ShownWasCommitted, readers, history
<1>6. ASSUME ~raced' PROVE Serial' BY <1>1, <1>6 DEF RInv, Serial, history
<1> QED BY <1>2, <1>3, <1>4, <1>5, <1>6 DEF RInv

LEMMA ResetWASKeeps ==
    ASSUME RInv, ResetWAS PROVE RInv'
<1>1. /\ pc = "resetWas" /\ was' = Fresh(db) /\ pc' = "select"
      /\ UNCHANGED <<db, ethState, todo, block, step, readers, history>>
  BY DEF ResetWAS
<1>2. /\ was' \in StateDB /\ Read(was') = db /\ Known(was')
  BY <1>1, FreshLemma DEF RInv, TypeOK
<1>3. TypeOK' /\ step' \in 1..7 BY <1>1, <1>2 DEF RInv, TypeOK, readers, history
<1>4. Held' /\ CommittedCopies' /\ ShownWasCommitted'
  BY <1>1, Beside DEF RInv, history
<1>5. ASSUME ~raced' PROVE Serial'
  <2>1. db = expected BY <1>1, <1>5 DEF RInv, Serial, history
  <2> QED BY <1>1, <1>2, <2>1 DEF Serial, history
<1> QED BY <1>3, <1>4, <1>5 DEF RInv

-----------------------------------------------------------------------------
(* The readers keep the invariant *)

\* Whatever is found in s.ethState has been committed.
LEMMA EthObject ==
    ASSUME RInv, NEW a \in Addr
    PROVE  \E l \in committed : Object(ethState, a) = l[a]
BY DEF RInv, CommittedCopies, Object

\* Reader steps that leave the engine and the write-ahead state alone.
LEMMA EngineBeside ==
    ASSUME RInv, UNCHANGED <<db, was, engine, history>>
    PROVE  step' \in 1..7 /\ (raced' \/ Serial')
BY DEF RInv, Serial, engine, history

LEMMA AskKeeps ==
    ASSUME RInv, NEW r \in Readers, NEW a \in Addr, Ask(r, a) PROVE RInv'
<1> USE DEF Ask
<1>1. TypeOK' BY DEF RInv, TypeOK, engine, history, Phases
<1>2. Held' BY DEF RInv, Held, TypeOK
<1>3. CommittedCopies' BY DEF RInv, CommittedCopies, TypeOK, history
<1>4. ShownWasCommitted' BY DEF RInv, ShownWasCommitted, TypeOK, history
<1>5. step' \in 1..7 /\ (raced' \/ Serial') BY EngineBeside
<1> QED BY <1>1, <1>2, <1>3, <1>4, <1>5 DEF RInv

\* Showing the balance of an account that has been committed.
LEMMA ShowLemma ==
    ASSUME RInv, NEW r \in Readers, NEW b \in Nat, Show(r, b),
           \E l \in committed : l[addr[r]].balance = b,
           UNCHANGED <<addr, committed>>
    PROVE  /\ phase' \in [Readers -> Phases] /\ shown' \in [Readers -> Nat \cup {Unset}]
           /\ phase'[r] \notin {"storeEth", "storeWas"}
           /\ \A q \in Readers : q # r => phase'[q] = phase[q]
           /\ ShownWasCommitted'
<1>1. phase' \in [Readers -> Phases] /\ shown' \in [Readers -> Nat \cup {Unset}]
  BY DEF RInv, TypeOK, Show, Phases
<1>2. /\ phase'[r] \notin {"storeEth", "storeWas"}
      /\ \A q \in Readers : q # r => phase'[q] = phase[q]
  BY DEF RInv, TypeOK, Show
<1>3. ASSUME NEW q \in Readers, shown'[q] # Unset
      PROVE  \E l \in committed' : l[addr'[q]].balance = shown'[q]
  <2>1. CASE q = r
    <3>1. shown'[q] = b BY <2>1 DEF RInv, TypeOK, Show
    <3> QED BY <2>1, <3>1
  <2>2. CASE q # r
    <3>1. shown'[q] = shown[q] BY <2>2 DEF RInv, TypeOK, Show
    <3> QED BY <1>3, <3>1 DEF RInv, ShownWasCommitted
  <2> QED BY <2>1, <2>2
<1>4. ShownWasCommitted' BY <1>3 DEF ShownWasCommitted
<1> QED BY <1>1, <1>2, <1>4

LEMMA GetBalanceKeeps ==
    ASSUME RInv, NEW r \in Readers, GetBalance(r) PROVE RInv'
<1>1. /\ phase[r] = "balance"
      /\ UNCHANGED <<db, ethState, was, engine, addr, history>>
  BY DEF GetBalance
<1>2. step' \in 1..7 /\ (raced' \/ Serial') BY <1>1, EngineBeside
<1>3. addr[r] \in Addr BY DEF RInv, TypeOK
<1>4. CASE /\ got' = [got EXCEPT ![r] = ethState.trie[addr[r]]]
           /\ phase' = [phase EXCEPT ![r] = "storeEth"]
           /\ UNCHANGED shown
  <2>1. ethState.trie[addr[r]] \in Account BY <1>3 DEF RInv, TypeOK, StateDB, Ledger
  <2>2. TypeOK' BY <1>1, <1>4, <2>1 DEF RInv, TypeOK, engine, history, Phases
  <2>3. Held' BY <1>4, <2>1, ReadersAssumption DEF RInv, Held, TypeOK
  <2>4. CommittedCopies' BY <1>1, <1>4 DEF RInv, CommittedCopies, TypeOK, history
  <2>5. ShownWasCommitted' BY <1>1, <1>4 DEF RInv, ShownWasCommitted, history
  <2> QED BY <1>2, <2>2, <2>3, <2>4, <2>5 DEF RInv
<1>5. CASE Show(r, Object(ethState, addr[r]).balance) /\ UNCHANGED got
  <2>1. Object(ethState, addr[r]).balance \in Nat
    BY <1>3, ObjectLemma DEF RInv, TypeOK, Account
  <2>2. \E l \in committed : l[addr[r]].balance = Object(ethState, addr[r]).balance
    BY <1>3, EthObject
  <2>3. UNCHANGED <<addr, committed>> BY <1>1 DEF history
  <2>4. /\ phase' \in [Readers -> Phases] /\ shown' \in [Readers -> Nat \cup {Unset}]
        /\ phase'[r] \notin {"storeEth", "storeWas"}
        /\ \A q \in Readers : q # r => phase'[q] = phase[q]
        /\ ShownWasCommitted'
    BY <1>5, <2>1, <2>2, <2>3, ShowLemma
  <2>5. TypeOK' BY <1>1, <1>5, <2>4 DEF RInv, TypeOK, engine, history
  <2>6. Held' BY <1>5, <2>4 DEF RInv, Held
  <2>7. CommittedCopies' BY <1>1, <1>5, <2>4 DEF RInv, CommittedCopies, history
  <2> QED BY <1>2, <2>4, <2>5, <2>6, <2>7 DEF RInv
<1> QED BY <1>4, <1>5 DEF GetBalance

LEMMA StoreEthKeeps ==
    ASSUME RInv, NEW r \in Readers, StoreEth(r) PROVE RInv'
<1>1. /\ phase[r] = "storeEth"
      /\ ethState' = Store(ethState, addr[r], got[r])
      /\ got' = [got EXCEPT ![r] = Unset]
      /\ Show(r, got[r].balance)
      /\ UNCHANGED <<db, was, engine, addr, history>>
  BY DEF StoreEth
<1>2. step' \in 1..7 /\ (raced' \/ Serial') BY <1>1, EngineBeside
<1>3. addr[r] \in Addr /\ got[r] \in Account BY <1>1 DEF RInv, TypeOK, Held
<1>4. PICK l \in committed : got[r] = l[addr[r]] BY <1>1 DEF RInv, CommittedCopies
<1>5. UNCHANGED <<addr, committed>> BY <1>1 DEF history
<1>6. got[r].balance \in Nat BY <1>3 DEF Account
<1>7. /\ phase' \in [Readers -> Phases] /\ shown' \in [Readers -> Nat \cup {Unset}]
      /\ phase'[r] \notin {"storeEth", "storeWas"}
      /\ \A q \in Readers : q # r => phase'[q] = phase[q]
      /\ ShownWasCommitted'
  BY <1>1, <1>4, <1>5, <1>6, ShowLemma
<1>8. TypeOK'
  <2>1. ethState' \in StateDB BY <1>1, <1>3, StoreLemma DEF RInv, TypeOK
  <2> QED BY <1>1, <1>7, <2>1 DEF RInv, TypeOK, engine, history
<1>9. Held' BY <1>1, <1>7 DEF RInv, Held, TypeOK
<1>10. CommittedCopies'
  <2>1. /\ ethState'.trie = ethState.trie
        /\ \A a \in Addr : ethState'.objects[a]
                            = IF a = addr[r] THEN got[r] ELSE ethState.objects[a]
    BY <1>1 DEF RInv, TypeOK, Store, StateDB
  <2>2. \A q \in Readers : q # r => got'[q] = got[q] BY <1>1 DEF RInv, TypeOK
  <2> QED BY <1>1, <1>4, <1>5, <1>7, <2>1, <2>2 DEF RInv, CommittedCopies
<1> QED BY <1>2, <1>7, <1>8, <1>9, <1>10 DEF RInv

LEMMA GetNonceKeeps ==
    ASSUME RInv, NEW r \in Readers, GetNonce(r) PROVE RInv'
<1>1. /\ phase[r] = "nonce"
      /\ UNCHANGED <<db, ethState, was, engine, addr, shown, history>>
  BY DEF GetNonce
<1>2. step' \in 1..7 /\ (raced' \/ Serial') BY <1>1, EngineBeside
<1>3. /\ phase' \in [Readers -> Phases]
      /\ phase'[r] # "storeEth" /\ \A q \in Readers : q # r => phase'[q] = phase[q]
  BY DEF RInv, TypeOK, GetNonce, Phases
<1>4. was.trie[addr[r]] \in Account BY DEF RInv, TypeOK, StateDB, Ledger
<1>5. got' \in [Readers -> Account \cup {Unset}]
      /\ \A q \in Readers : q # r => got'[q] = got[q]
  BY <1>4 DEF RInv, TypeOK, GetNonce
<1>6. phase'[r] = "storeWas" => got'[r] # Unset
  BY <1>4, ReadersAssumption DEF RInv, TypeOK, GetNonce
<1>7. TypeOK' BY <1>1, <1>3, <1>5 DEF RInv, TypeOK, engine, history
<1>8. Held' BY <1>3, <1>5, <1>6 DEF RInv, Held
<1>9. CommittedCopies' BY <1>1, <1>3, <1>5 DEF RInv, CommittedCopies, history
<1>10. ShownWasCommitted' BY <1>1 DEF RInv, ShownWasCommitted, history
<1> QED BY <1>2, <1>7, <1>8, <1>9, <1>10 DEF RInv

\* The store on the write-ahead state: what is stored is current, or raced is set.
LEMMA StoreWasKeeps ==
    ASSUME RInv, NEW r \in Readers, StoreWas(r) PROVE RInv'
<1>1. /\ phase[r] = "storeWas"
      /\ was' = Store(was, addr[r], got[r])
      /\ raced' = (raced \/ got[r] # Object(was, addr[r]))
      /\ got' = [got EXCEPT ![r] = Unset]
      /\ phase' = [phase EXCEPT ![r] = "idle"]
      /\ UNCHANGED <<db, ethState, engine, addr, shown, expected, committed>>
  BY DEF StoreWas
<1>2. /\ addr[r] \in Addr /\ got[r] \in Account /\ was \in StateDB /\ raced \in BOOLEAN
  BY <1>1 DEF RInv, TypeOK, Held
<1>3. TypeOK' /\ step' \in 1..7
  <2>1. was' \in StateDB BY <1>1, <1>2, StoreLemma
  <2>2. raced' \in BOOLEAN BY <1>1
  <2> QED BY <1>1, <2>1, <2>2 DEF RInv, TypeOK, engine, Phases
<1>4. Held' BY <1>1 DEF RInv, Held, TypeOK
<1>5. CommittedCopies' BY <1>1 DEF RInv, CommittedCopies, TypeOK
<1>6. ShownWasCommitted' BY <1>1 DEF RInv, ShownWasCommitted
<1>7. ASSUME ~raced' PROVE Serial'
  <2>1. ~raced /\ got[r] = Object(was, addr[r]) BY <1>1, <1>7
  <2>2. Read(was') = Read(was) /\ (Known(was) => Known(was'))
    BY <1>1, <1>2, <2>1, StoreLemma
  <2>3. UNCHANGED <<db, pc, block, step, expected>> BY <1>1 DEF engine
  <2>4. Serial BY <2>1 DEF RInv
  <2> QED BY <2>2, <2>3, <2>4 DEF Serial
<1> QED BY <1>3, <1>4, <1>5, <1>6, <1>7 DEF RInv

-----------------------------------------------------------------------------
(* Theorems *)

\* RInv holds in every reachable state, with any number of readers.
THEOREM ReadersInvariance == Spec => []RInv
<1>1. Init => RInv
  <2> SUFFICES ASSUME Init PROVE RInv OBVIOUS
  <2>0. Start \in Ledger BY ReadersAssumption
  <2>1. Fresh(Start) \in StateDB /\ Read(Fresh(Start)) = Start /\ Known(Fresh(Start))
    BY <2>0, FreshLemma
  <2>2. TypeOK /\ step \in 1..7
    <3>1. block \in Seq(Tx) /\ step \in Nat /\ step \in 1..7 BY DEF Init
    <3>2. db \in Ledger /\ ethState \in StateDB /\ was \in StateDB
      BY <2>0, <2>1 DEF Init
    <3>3. expected \in Ledger /\ committed \subseteq Ledger /\ raced \in BOOLEAN
      BY <2>0 DEF Init
    <3>4. phase \in [Readers -> Phases] /\ addr \in [Readers -> Addr]
      BY EvmAssumption DEF Init, Phases
    <3>5. got \in [Readers -> Account \cup {Unset}] BY DEF Init
    <3>6. shown \in [Readers -> Nat \cup {Unset}] BY DEF Init
    <3> QED BY <3>1, <3>2, <3>3, <3>4, <3>5, <3>6 DEF Init, TypeOK
  <2>3. Held BY DEF Init, Held
  <2>4. CommittedCopies BY DEF Init, CommittedCopies, Fresh
  <2>5. ShownWasCommitted BY DEF Init, ShownWasCommitted
  <2>6. Serial BY <2>1 DEF Init, Serial
  <2> QED BY <2>2, <2>3, <2>4, <2>5, <2>6 DEF RInv
<1>2. RInv /\ [Next]_vars => RInv'
  <2> SUFFICES ASSUME RInv, [Next]_vars PROVE RInv' OBVIOUS
  <2>1. CASE ProcessBlock BY <2>1, ProcessBlockKeeps
  <2>2. CASE RejectTx BY <2>2, RejectTxKeeps
  <2>3. CASE Access BY <2>3, AccessKeeps
  <2>4. CASE EndTx BY <2>4, EndTxKeeps
  <2>5. CASE Commit BY <2>5, CommitKeeps
  <2>6. CASE ResetEthState BY <2>6, ResetEthStateKeeps
  <2>7. CASE ResetWAS BY <2>7, ResetWASKeeps
  <2>8. ASSUME NEW r \in Readers, NEW a \in Addr, Ask(r, a) PROVE RInv'
    BY <2>8, AskKeeps
  <2>9. ASSUME NEW r \in Readers, GetBalance(r) PROVE RInv' BY <2>9, GetBalanceKeeps
  <2>10. ASSUME NEW r \in Readers, StoreEth(r) PROVE RInv' BY <2>10, StoreEthKeeps
  <2>11. ASSUME NEW r \in Readers, GetNonce(r) PROVE RInv' BY <2>11, GetNonceKeeps
  <2>12. ASSUME NEW r \in Readers, StoreWas(r) PROVE RInv' BY <2>12, StoreWasKeeps
  <2>13. CASE UNCHANGED vars
    <3>1. UNCHANGED <<db, ethState, was, engine, readers, history>> BY <2>13 DEF vars
    <3>2. TypeOK' BY <3>1 DEF RInv, TypeOK, engine, readers, history
    <3>3. Held' /\ CommittedCopies' /\ ShownWasCommitted'
      BY <3>1, Beside DEF RInv, history
    <3>4. step' \in 1..7 /\ (raced' \/ Serial') BY <3>1, EngineBeside
    <3> QED BY <3>2, <3>3, <3>4 DEF RInv
  <2> QED BY <2>1, <2>2, <2>3, <2>4, <2>5, <2>6, <2>7, <2>8, <2>9, <2>10, <2>11, <2>12,
             <2>13 DEF Next, Engine, Reader
<1> QED BY <1>1, <1>2, PTL DEF Spec

\* Types: above all that no interleaving of readers and engine makes an account
\* that no check of ApplyMessage would allow, a negative balance.
THEOREM ReadersTypeCorrect == Spec => []TypeOK
<1>1. RInv => TypeOK BY DEF RInv
<1> QED BY <1>1, ReadersInvariance, PTL

\* A balance that the account endpoints or eth_getBalance show has been committed.
THEOREM ReadersShowCommitted == Spec => []ShownWasCommitted
<1>1. RInv => ShownWasCommitted BY DEF RInv
<1> QED BY <1>1, ReadersInvariance, PTL

\* Without a stale store, reads beside the engine do no harm: between blocks the
\* database is what executing the transactions one after the other gives.
THEOREM OnlyStaleStoresHarm == Spec => []OnlyStoresHarm
<1>1. RInv => OnlyStoresHarm BY DEF RInv, Serial, OnlyStoresHarm
<1> QED BY <1>1, ReadersInvariance, PTL
=============================================================================
