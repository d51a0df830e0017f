--------------------------- MODULE EvmStateProofs ---------------------------
(***************************************************************************)
(* Proofs about EvmState for every set of accounts, transactions and       *)
(* blocks and every bound: the inductive invariant IInv, the safety        *)
(* properties it implies, and the refinement of TxLedger.                  *)
(***************************************************************************)
EXTENDS EvmState, EvmProofs

-----------------------------------------------------------------------------
(* Types *)

\* The transactions of a block are transactions or garbage.
LEMMA BlockLemma ==
    ASSUME NEW b \in Blocks
    PROVE  /\ b.index \in Nat /\ b.index \in Indices
           /\ b.txs \in Seq(Tx \cup {Garbage})
           /\ Len(b.txs) \in Nat
           /\ DOMAIN b.txs = 1..Len(b.txs)
           /\ \A i \in DOMAIN b.txs : ~Malformed(b.txs[i]) => b.txs[i] \in Tx
<1>1. b \in [index : Nat, txs : Seq(Tx \cup {Garbage})]
  BY EvmStateAssumption
<1> QED BY <1>1 DEF Indices, Malformed

\* The state NewState starts from, an empty database, has the right types.
LEMMA TypeInit == Init => TypeOK
<1> SUFFICES ASSUME Init PROVE TypeOK
  OBVIOUS
<1>1. EmptyLedger \in Ledger
  BY DEF EmptyLedger, Ledger, Account
<1> QED BY <1>1, EvmAssumption, EvmStateAssumption DEF Init, TypeOK, Steps

\* A batch with one receipt for each of its transactions puts exactly those
\* and keeps the others as they were.
LEMMA PutReceiptsLemma ==
    ASSUME NEW old \in [Tx -> Receipt \cup {Nothing}], NEW rs \in Seq(Receipt),
           \A i, j \in DOMAIN rs : rs[i].tx = rs[j].tx => i = j
    PROVE  /\ PutReceipts(old, rs) \in [Tx -> Receipt \cup {Nothing}]
           /\ \A i \in DOMAIN rs : PutReceipts(old, rs)[rs[i].tx] = rs[i]
           /\ \A t \in Tx : (\A i \in DOMAIN rs : rs[i].tx # t) =>
                              PutReceipts(old, rs)[t] = old[t]
<1>0. \A i \in DOMAIN rs : rs[i] \in Receipt
  OBVIOUS
<1>1. \A i \in DOMAIN rs : rs[i] \in Receipt /\ rs[i].tx \in Tx
  BY <1>0 DEF Receipt
<1>2. DOMAIN rs \subseteq Nat
  OBVIOUS
<1>3. ASSUME NEW i \in DOMAIN rs
      PROVE  PutReceipts(old, rs)[rs[i].tx] = rs[i]
  <2> DEFINE t == rs[i].tx
             Last(k) == rs[k].tx = t /\ \A j \in DOMAIN rs : rs[j].tx = t => j <= k
  <2>1. Last(i) /\ \A k \in DOMAIN rs : Last(k) => k = i
    BY <1>2
  <2>2. (CHOOSE k \in DOMAIN rs : Last(k)) = i
    BY <2>1
  <2>3. PutReceipts(old, rs)[t] = rs[CHOOSE k \in DOMAIN rs : Last(k)]
    BY <1>1 DEF PutReceipts
  <2> QED BY <2>2, <2>3
<1>4. ASSUME NEW t \in Tx, \A i \in DOMAIN rs : rs[i].tx # t
      PROVE  PutReceipts(old, rs)[t] = old[t]
  BY <1>4 DEF PutReceipts
<1>5. \A t \in Tx : PutReceipts(old, rs)[t] \in Receipt \cup {Nothing}
  BY <1>1, <1>3, <1>4
<1>6. PutReceipts(old, rs) \in [Tx -> Receipt \cup {Nothing}]
  BY <1>5 DEF PutReceipts
<1> QED BY <1>3, <1>4, <1>6

\* The pending receipts are for distinct transactions.
LEMMA PendingReceipts ==
    ASSUME Pending, pc # "down"
    PROVE  \A i, j \in DOMAIN wasReceipts :
              wasReceipts[i].tx = wasReceipts[j].tx => i = j
    BY DEF Pending, SameSlot

\* writeReceipts stores the receipt of every pending transaction.
LEMMA ReceiptsWritten ==
    ASSUME TypeOK, Pending, writeReceipts
    PROVE  \A i \in DOMAIN wasTxs : dbReceipts'[wasTxs[i]] = wasReceipts[i]
<1>1. pc # "down" /\ dbReceipts' = PutReceipts(dbReceipts, wasReceipts)
  BY DEF writeReceipts
<1>2. \A i \in DOMAIN wasReceipts : dbReceipts'[wasReceipts[i].tx] = wasReceipts[i]
  BY <1>1, PutReceiptsLemma, PendingReceipts DEF TypeOK
<1> QED BY <1>1, <1>2 DEF Pending

\* The set of pending transactions is a set of transactions.
LEMMA RangeLemma ==
    ASSUME NEW S, NEW s \in Seq(S)
    PROVE  Range(s) \subseteq S
    BY DEF Range

\* Every step keeps the types.
LEMMA TypeStep == IInv /\ [Next]_vars => TypeOK'
<1> SUFFICES ASSUME TypeOK, Control, Progress, Pending, [Next]_vars PROVE TypeOK'
  BY DEF IInv
<1> USE EvmAssumption, EvmStateAssumption
        DEF db, was, pool, mem, env, history, TypeOK, Steps
<1>1. CASE NewState
  BY <1>1 DEF NewState, SetCleanWAS
<1>2. CASE CreateAccounts
  <2>1. \A a \in Addr : wasState[a] \in Account
    BY DEF Ledger
  <2>2. \A a \in Addr : wasState'[a] \in Account
    <3> SUFFICES ASSUME NEW a \in Addr PROVE wasState'[a] \in Account
      OBVIOUS
    <3>1. CASE a \in DOMAIN Alloc /\ ~Exists(ethState, a)
      BY <1>2, <2>1, <3>1 DEF CreateAccounts, Account
    <3>2. CASE ~(a \in DOMAIN Alloc /\ ~Exists(ethState, a))
      BY <1>2, <2>1, <3>2 DEF CreateAccounts
    <3> QED BY <3>1, <3>2
  <2>3. wasState' \in Ledger
    BY <1>2, <2>2 DEF CreateAccounts, Ledger
  <2> QED BY <1>2, <2>3 DEF CreateAccounts
<1>3. ASSUME NEW b \in Blocks, ProcessBlock(b) PROVE TypeOK'
  BY <1>3, BlockLemma DEF ProcessBlock
<1>4. CASE PutBlockByHash
  <2>1. cur \in Blocks
    BY <1>4 DEF PutBlockByHash, Control, Progress
  <2> QED BY <1>4, <2>1 DEF PutBlockByHash
<1>5. CASE PutBlockById
  <2>1. cur \in Blocks /\ cur.index \in Indices
    BY <1>5, BlockLemma DEF PutBlockById, Control, Progress
  <2> QED BY <1>5, <2>1 DEF PutBlockById
<1>6. CASE applyTransaction
  <2>1. cur \in Blocks
    BY <1>6 DEF applyTransaction, Control, Progress
  <2> DEFINE t == cur.txs[next]
             r == ApplyMessage(wasState, wasGp, t)
  <2>2. CASE SkipTx(t)
    BY <1>6, <2>2 DEF applyTransaction, SkipTx
  <2>3. ASSUME ~Malformed(t)
        PROVE  t \in Tx /\ r.ledger \in Ledger /\ r.gp \in Nat
    <3>1. t \in Tx
      <4>1. next \in DOMAIN cur.txs
        BY <1>6, <2>1, BlockLemma DEF applyTransaction, Control, Progress
      <4> QED BY <2>1, <2>3, <4>1, BlockLemma
    <3> QED BY <3>1, ApplyMessageLemma
  <2>4. CASE RejectTx(t)
    <3>1. t \in Tx /\ r.ledger \in Ledger /\ r.gp \in Nat
      BY <2>3, <2>4 DEF RejectTx
    <3> HIDE DEF t
    <3> QED BY <1>6, <2>4, <3>1 DEF applyTransaction, RejectTx
  <2>5. CASE ExecuteTx(t)
    <3>1. t \in Tx /\ r.ledger \in Ledger /\ r.gp \in Nat
      BY <2>3, <2>5 DEF ExecuteTx
    <3>2. t.used \in Nat /\ t.fails \in BOOLEAN
      BY <3>1, AmountLemma
    <3> HIDE DEF t
    <3>3. [tx |-> t, root |-> r.ledger, failed |-> t.fails,
           cum |-> wasGas + t.used] \in Receipt
      BY <3>1, <3>2 DEF Receipt
    <3>4. wasTxs' \in Seq(Tx) /\ wasReceipts' \in Seq(Receipt)
      BY <2>5, <3>1, <3>3 DEF ExecuteTx
    <3>5. wasState' \in Ledger /\ wasGp' \in Nat /\ wasGas' \in Nat
      BY <2>5, <3>1, <3>2 DEF ExecuteTx
    <3>6. UNCHANGED <<db, faults, history>>
      BY <2>5 DEF ExecuteTx
    <3>7. /\ next' = next + 1
          /\ UNCHANGED <<ethState, pool, blockIndex, genesis, pc, job, cur,
                         deliveries, crashes>>
      BY <1>6 DEF applyTransaction
    <3> QED BY <3>4, <3>5, <3>6, <3>7
  <2> QED BY <1>6, <2>2, <2>4, <2>5 DEF applyTransaction
<1>7. CASE EndOfBlock
  BY <1>7 DEF EndOfBlock
<1>8. CASE CommitTrie
  BY <1>8 DEF CommitTrie
<1>9. CASE writeRoot
  BY <1>9, RangeLemma DEF writeRoot
<1>10. CASE writeHead
  BY <1>10 DEF writeHead
<1>11. CASE writeTransactions
  BY <1>11, RangeLemma DEF writeTransactions
<1>12. CASE writeReceipts
  BY <1>12, PutReceiptsLemma, PendingReceipts DEF writeReceipts
<1>13. CASE ResetEthState
  BY <1>13 DEF ResetEthState
<1>14. CASE ResetWAS
  BY <1>14 DEF ResetWAS, SetCleanWAS
<1>15. CASE ResetTxPool
  BY <1>15 DEF ResetTxPool, Control, Progress
<1>16. CASE WriteFails
  BY <1>16 DEF WriteFails
<1>17. CASE Crash
  BY <1>17 DEF Crash
<1>18. ASSUME NEW t \in PoolTxs, CheckTx(t) PROVE TypeOK'
  <2> DEFINE r == ApplyMessage(poolState, poolGp, t)
  <2>1. t \in Tx /\ poolGp \in Nat
    BY <1>18 DEF CheckTx
  <2>2. r.ledger \in Ledger /\ r.gp \in Nat
    BY <2>1, ApplyMessageLemma
  <2> HIDE DEF r
  <2> QED BY <1>18, <2>2 DEF CheckTx, r
<1>19. CASE UNCHANGED vars
  BY <1>19 DEF vars
<1> QED
  BY <1>1, <1>2, <1>3, <1>4, <1>5, <1>6, <1>7, <1>8, <1>9, <1>10, <1>11, <1>12,
     <1>13, <1>14, <1>15, <1>16, <1>17, <1>18, <1>19 DEF Next, CommitStep

-----------------------------------------------------------------------------
(* The invariant, part by part *)

\* The three ways through applyTransaction, as the invariant sees them: the
\* bytes are skipped; or the transaction is rejected, which moves no nonce back
\* and leaves its error (or the failure to record it) behind; or it is executed
\* at its sender's nonce and appended with its receipt.
LEMMA ApplyCases ==
    ASSUME IInv, applyTransaction
    PROVE  LET t == cur.txs[next]
           IN  /\ cur \in Blocks /\ next \in DOMAIN cur.txs /\ pc = "apply"
               /\ next' = next + 1
               /\ UNCHANGED <<ethState, pool, blockIndex, genesis, pc, job, cur,
                              deliveries, crashes>>
               /\ UNCHANGED <<dbRoot, dbTries, dbHead, dbTxs, dbReceipts,
                              dbByHash, dbById, durable, completed>>
               /\ dbErrors \subseteq dbErrors' /\ dropped \subseteq dropped'
               /\ \A a \in Addr : wasState[a].nonce <= wasState'[a].nonce
               /\ \/ /\ Malformed(t)
                     /\ UNCHANGED was
                  \/ /\ t \in dropped' \cup dbErrors'
                     /\ UNCHANGED <<wasTxs, wasReceipts>>
                  \/ /\ t \in Tx
                     /\ wasState[t.from].nonce = t.nonce
                     /\ wasState'[t.from].nonce = t.nonce + 1
                     /\ wasTxs' = Append(wasTxs, t)
                     /\ \E r \in Receipt : /\ r.tx = t
                                           /\ wasReceipts' = Append(wasReceipts, r)
<1> USE DEF db, was, pool, mem, env, history
<1> DEFINE t == cur.txs[next]
           r == ApplyMessage(wasState, wasGp, t)
<1>0. /\ wasState \in Ledger /\ wasGp \in Nat /\ wasGas \in Nat
      /\ \A a \in Addr : wasState[a].nonce <= wasState[a].nonce
  BY DEF IInv, TypeOK, Ledger, Account
<1>1. cur \in Blocks /\ next \in DOMAIN cur.txs /\ pc = "apply"
  BY BlockLemma DEF IInv, TypeOK, applyTransaction, Control, Progress
<1>2. /\ next' = next + 1
      /\ UNCHANGED <<ethState, pool, blockIndex, genesis, pc, job, cur,
                     deliveries, crashes>>
      /\ SkipTx(t) \/ RejectTx(t) \/ ExecuteTx(t)
  BY DEF applyTransaction
<1>3. ASSUME ~Malformed(t)
      PROVE  /\ t \in Tx /\ r.ledger \in Ledger
             /\ \A a \in Addr : wasState[a].nonce <= r.ledger[a].nonce
             /\ ~r.err => /\ wasState[t.from].nonce = t.nonce
                          /\ r.ledger[t.from].nonce = t.nonce + 1
  BY <1>0, <1>1, <1>3, BlockLemma, ApplyMessageLemma
<1>4. CASE SkipTx(t)
  BY <1>0, <1>1, <1>2, <1>4 DEF SkipTx
<1>5. CASE RejectTx(t)
  <2>1. /\ ~Malformed(t) /\ wasState' = r.ledger
        /\ UNCHANGED <<dbRoot, dbTries, dbHead, dbTxs, dbReceipts, dbByHash,
                       dbById, wasTxs, wasReceipts, durable, completed>>
        /\ dbErrors \subseteq dbErrors' /\ dropped \subseteq dropped'
        /\ t \in dropped' \cup dbErrors'
    BY <1>5 DEF RejectTx
  <2> QED BY <1>1, <1>2, <1>3, <2>1
<1>6. CASE ExecuteTx(t)
  <2> DEFINE rec == [tx |-> t, root |-> r.ledger, failed |-> t.fails,
                     cum |-> wasGas + t.used]
  <2>1. /\ ~Malformed(t) /\ ~r.err /\ wasState' = r.ledger
        /\ wasTxs' = Append(wasTxs, t)
        /\ wasReceipts' = Append(wasReceipts, rec)
        /\ UNCHANGED <<db, faults, history>>
    BY <1>6 DEF ExecuteTx
  <2>2. rec \in Receipt /\ rec.tx = t
    BY <1>0, <1>3, <2>1, AmountLemma DEF Receipt
  <2> HIDE DEF rec
  <2>3. \E q \in Receipt : q.tx = t /\ wasReceipts' = Append(wasReceipts, q)
    BY <2>1, <2>2
  <2> QED BY <1>1, <1>2, <1>3, <2>1, <2>3
<1> QED BY <1>2, <1>4, <1>5, <1>6

\* Every step keeps Control.
LEMMA ControlStep == IInv /\ [Next]_vars => Control'
<1> SUFFICES ASSUME IInv, Control, [Next]_vars PROVE Control'
  BY DEF IInv
<1> USE DEF db, was, pool, mem, env, history, Control
<1>1. CASE NewState
  BY <1>1 DEF NewState, SetCleanWAS
<1>2. CASE CreateAccounts
  BY <1>2 DEF CreateAccounts
<1>3. ASSUME NEW b \in Blocks, ProcessBlock(b) PROVE Control'
  BY <1>3 DEF ProcessBlock
<1>4. CASE PutBlockByHash
  BY <1>4 DEF PutBlockByHash
<1>5. CASE PutBlockById
  BY <1>5 DEF PutBlockById
<1>6. CASE applyTransaction
  BY <1>6, ApplyCases
<1>7. CASE EndOfBlock
  BY <1>7 DEF EndOfBlock
<1>8. CASE CommitTrie
  BY <1>8 DEF CommitTrie
<1>9. CASE writeRoot
  BY <1>9 DEF writeRoot
<1>10. CASE writeHead
  BY <1>10 DEF writeHead
<1>11. CASE writeTransactions
  BY <1>11 DEF writeTransactions
<1>12. CASE writeReceipts
  BY <1>12 DEF writeReceipts
<1>13. CASE ResetEthState
  BY <1>13 DEF ResetEthState
<1>14. CASE ResetWAS
  BY <1>14 DEF ResetWAS, SetCleanWAS
<1>15. CASE ResetTxPool
  BY <1>15 DEF ResetTxPool
<1>16. CASE WriteFails
  BY <1>16 DEF WriteFails
<1>17. CASE Crash
  BY <1>17 DEF Crash
<1>18. ASSUME NEW t \in PoolTxs, CheckTx(t) PROVE Control'
  BY <1>18 DEF CheckTx
<1>19. CASE UNCHANGED vars
  BY <1>19 DEF vars
<1> QED
  BY <1>1, <1>2, <1>3, <1>4, <1>5, <1>6, <1>7, <1>8, <1>9, <1>10, <1>11, <1>12,
     <1>13, <1>14, <1>15, <1>16, <1>17, <1>18, <1>19 DEF Next, CommitStep

\* Every step keeps the tries on disk ahead of the root key.
LEMMA TrieStep == IInv /\ [Next]_vars => TrieFirst'
<1> SUFFICES ASSUME IInv, TrieFirst, [Next]_vars PROVE TrieFirst'
  BY DEF IInv
<1> USE DEF db, was, pool, mem, env, history, TrieFirst, RootLoadable
<1>1. CASE NewState
  BY <1>1 DEF NewState, SetCleanWAS
<1>2. CASE CreateAccounts
  BY <1>2 DEF CreateAccounts
<1>3. ASSUME NEW b \in Blocks, ProcessBlock(b) PROVE TrieFirst'
  BY <1>3 DEF ProcessBlock
<1>4. CASE PutBlockByHash
  BY <1>4 DEF PutBlockByHash
<1>5. CASE PutBlockById
  BY <1>5 DEF PutBlockById
<1>6. CASE applyTransaction
  BY <1>6, ApplyCases
<1>7. CASE EndOfBlock
  BY <1>7 DEF EndOfBlock
<1>8. CASE CommitTrie
  BY <1>8 DEF CommitTrie
<1>9. CASE writeRoot
  BY <1>9 DEF writeRoot
<1>10. CASE writeHead
  BY <1>10 DEF writeHead
<1>11. CASE writeTransactions
  BY <1>11 DEF writeTransactions
<1>12. CASE writeReceipts
  BY <1>12 DEF writeReceipts
<1>13. CASE ResetEthState
  BY <1>13 DEF ResetEthState
<1>14. CASE ResetWAS
  BY <1>14 DEF ResetWAS, SetCleanWAS
<1>15. CASE ResetTxPool
  BY <1>15 DEF ResetTxPool
<1>16. CASE WriteFails
  BY <1>16 DEF WriteFails
<1>17. CASE Crash
  BY <1>17 DEF Crash
<1>18. ASSUME NEW t \in PoolTxs, CheckTx(t) PROVE TrieFirst'
  BY <1>18 DEF CheckTx
<1>19. CASE UNCHANGED vars
  BY <1>19 DEF vars
<1> QED
  BY <1>1, <1>2, <1>3, <1>4, <1>5, <1>6, <1>7, <1>8, <1>9, <1>10, <1>11, <1>12,
     <1>13, <1>14, <1>15, <1>16, <1>17, <1>18, <1>19 DEF Next, CommitStep

\* Every step keeps the order of the nonces.
LEMMA LevelsStep == IInv /\ [Next]_vars => Levels'
<1> SUFFICES ASSUME IInv, TypeOK, Levels, [Next]_vars PROVE Levels'
  BY DEF IInv
<1> USE DEF db, was, pool, mem, env, history, Levels, AfterRoot
<1>1. CASE NewState
  <2>1. \A a \in Addr : dbRoot[a].nonce <= dbRoot[a].nonce
    BY DEF TypeOK, Ledger, Account
  <2> QED BY <1>1, <2>1 DEF NewState, SetCleanWAS
<1>2. CASE CreateAccounts
  <2>1. \A a \in Addr : wasState'[a].nonce = wasState[a].nonce
    BY <1>2 DEF CreateAccounts, TypeOK, Ledger, Account
  <2> QED BY <1>2, <2>1 DEF CreateAccounts
<1>3. ASSUME NEW b \in Blocks, ProcessBlock(b) PROVE Levels'
  BY <1>3 DEF ProcessBlock
<1>4. CASE PutBlockByHash
  BY <1>4 DEF PutBlockByHash
<1>5. CASE PutBlockById
  BY <1>5 DEF PutBlockById
<1>6. CASE applyTransaction
  <2>1. \A a \in Addr : /\ dbRoot[a].nonce \in Nat /\ wasState[a].nonce \in Nat
                         /\ wasState'[a].nonce \in Nat
    BY TypeStep DEF TypeOK, Ledger, Account
  <2> QED BY <1>6, <2>1, ApplyCases
<1>7. CASE EndOfBlock
  BY <1>7 DEF EndOfBlock
<1>8. CASE CommitTrie
  BY <1>8 DEF CommitTrie
<1>9. CASE writeRoot
  <2>1. \A a \in Addr : /\ dbRoot[a].nonce \in Nat /\ wasState[a].nonce \in Nat
                         /\ ethState[a].nonce \in Nat
    BY DEF TypeOK, Ledger, Account
  <2> QED BY <1>9, <2>1 DEF writeRoot
<1>10. CASE writeHead
  BY <1>10 DEF writeHead
<1>11. CASE writeTransactions
  BY <1>11 DEF writeTransactions
<1>12. CASE writeReceipts
  BY <1>12 DEF writeReceipts
<1>13. CASE ResetEthState
  <2>1. \A a \in Addr : dbRoot[a].nonce <= dbRoot[a].nonce
    BY DEF TypeOK, Ledger, Account
  <2> QED BY <1>13, <2>1 DEF ResetEthState
<1>14. CASE ResetWAS
  BY <1>14 DEF ResetWAS, SetCleanWAS
<1>15. CASE ResetTxPool
  BY <1>15 DEF ResetTxPool
<1>16. CASE WriteFails
  BY <1>16 DEF WriteFails
<1>17. CASE Crash
  BY <1>17 DEF Crash
<1>18. ASSUME NEW t \in PoolTxs, CheckTx(t) PROVE Levels'
  BY <1>18 DEF CheckTx
<1>19. CASE UNCHANGED vars
  BY <1>19 DEF vars
<1> QED
  BY <1>1, <1>2, <1>3, <1>4, <1>5, <1>6, <1>7, <1>8, <1>9, <1>10, <1>11, <1>12,
     <1>13, <1>14, <1>15, <1>16, <1>17, <1>18, <1>19 DEF Next, CommitStep

\* Every step keeps the pending transactions behind the nonces of the WAS and
\* in distinct slots: an executed transaction has a nonce no other one has.
LEMMA PendingStep == IInv /\ [Next]_vars => Pending'
<1> SUFFICES ASSUME IInv, TypeOK, Pending, [Next]_vars PROVE Pending'
  BY DEF IInv
<1> USE DEF db, was, pool, mem, env, history, Pending
<1>1. CASE NewState
  BY <1>1 DEF NewState, SetCleanWAS
<1>2. CASE CreateAccounts
  <2>1. \A a \in Addr : wasState'[a].nonce = wasState[a].nonce
    BY <1>2 DEF CreateAccounts, TypeOK, Ledger, Account
  <2>2. \A i \in DOMAIN wasTxs : wasTxs[i].from \in Addr
    BY AmountLemma DEF TypeOK
  <2> QED BY <1>2, <2>1, <2>2 DEF CreateAccounts, SameSlot
<1>3. ASSUME NEW b \in Blocks, ProcessBlock(b) PROVE Pending'
  BY <1>3 DEF ProcessBlock
<1>4. CASE PutBlockByHash
  BY <1>4 DEF PutBlockByHash
<1>5. CASE PutBlockById
  BY <1>5 DEF PutBlockById
<1>6. CASE applyTransaction
  <2> DEFINE t == cur.txs[next]
  <2>0. /\ wasTxs \in Seq(Tx) /\ wasReceipts \in Seq(Receipt) /\ pc = "apply"
        /\ \A i \in DOMAIN wasTxs : wasTxs[i] \in Tx
    BY <1>6, ApplyCases DEF TypeOK
  <2>1. \A a \in Addr : /\ wasState[a].nonce \in Nat /\ wasState'[a].nonce \in Nat
                         /\ wasState[a].nonce <= wasState'[a].nonce
                         /\ dbRoot[a].nonce \in Nat
    BY <1>6, ApplyCases, TypeStep DEF TypeOK, Ledger, Account
  <2>2. /\ UNCHANGED <<pc, dbTxs, dbReceipts, dbRoot>>
        /\ \A i \in DOMAIN wasTxs : wasTxs[i].from \in Addr /\ wasTxs[i].nonce \in Nat
    BY <1>6, <2>0, ApplyCases, AmountLemma
  <2>3. CASE UNCHANGED <<wasTxs, wasReceipts>>
    BY <2>0, <2>1, <2>2, <2>3 DEF SameSlot
  <2>4. CASE /\ t \in Tx
             /\ wasState[t.from].nonce = t.nonce
             /\ wasState'[t.from].nonce = t.nonce + 1
             /\ wasTxs' = Append(wasTxs, t)
             /\ \E r \in Receipt : r.tx = t /\ wasReceipts' = Append(wasReceipts, r)
    <3>1. PICK r \in Receipt : r.tx = t /\ wasReceipts' = Append(wasReceipts, r)
      BY <2>4
    <3>2. t.from \in Addr /\ t.nonce \in Nat
      BY <2>4, AmountLemma
    <3> HIDE DEF t
    <3>3. /\ DOMAIN wasReceipts = DOMAIN wasTxs
          /\ \A i \in DOMAIN wasTxs :
                /\ wasTxs[i].nonce < wasState[wasTxs[i].from].nonce
                /\ wasReceipts[i].tx = wasTxs[i]
          /\ \A i, j \in DOMAIN wasTxs : SameSlot(wasTxs[i], wasTxs[j]) => i = j
      BY <2>0
    <3>4. Len(wasReceipts) = Len(wasTxs)
      BY <2>0, <3>3
    <3>5. DOMAIN wasReceipts' = DOMAIN wasTxs'
      BY <2>0, <2>4, <3>1, <3>4
    <3>6. \A i \in DOMAIN wasTxs' :
             \/ i \in DOMAIN wasTxs /\ wasTxs'[i] = wasTxs[i]
                /\ wasReceipts'[i] = wasReceipts[i]
             \/ i = Len(wasTxs) + 1 /\ wasTxs'[i] = t /\ wasReceipts'[i] = r
      BY <2>0, <2>4, <3>1, <3>4
    <3>7. \A i \in DOMAIN wasTxs' :
             /\ wasTxs'[i].nonce < wasState'[wasTxs'[i].from].nonce
             /\ wasReceipts'[i].tx = wasTxs'[i]
      <4> SUFFICES ASSUME NEW i \in DOMAIN wasTxs'
                   PROVE  /\ wasTxs'[i].nonce < wasState'[wasTxs'[i].from].nonce
                          /\ wasReceipts'[i].tx = wasTxs'[i]
        OBVIOUS
      <4>1. CASE i \in DOMAIN wasTxs /\ wasTxs'[i] = wasTxs[i]
                 /\ wasReceipts'[i] = wasReceipts[i]
        BY <2>1, <2>2, <3>3, <4>1
      <4>2. CASE wasTxs'[i] = t /\ wasReceipts'[i] = r
        BY <2>4, <3>1, <3>2, <4>2
      <4> QED BY <3>6, <4>1, <4>2
    <3>8. \A i \in DOMAIN wasTxs : ~SameSlot(wasTxs[i], t)
      BY <2>1, <2>2, <2>4, <3>2, <3>3 DEF SameSlot
    <3>9. \A i, j \in DOMAIN wasTxs' : SameSlot(wasTxs'[i], wasTxs'[j]) => i = j
      BY <3>3, <3>6, <3>8 DEF SameSlot
    <3> QED BY <3>5, <3>7, <3>9 DEF SameSlot
  <2> QED BY <1>6, <2>3, <2>4, ApplyCases
<1>7. CASE EndOfBlock
  BY <1>7 DEF EndOfBlock
<1>8. CASE CommitTrie
  BY <1>8 DEF CommitTrie
<1>9. CASE writeRoot
  BY <1>9 DEF writeRoot
<1>10. CASE writeHead
  BY <1>10 DEF writeHead
<1>11. CASE writeTransactions
  BY <1>11 DEF writeTransactions
<1>12. CASE writeReceipts
  BY <1>12 DEF writeReceipts
<1>13. CASE ResetEthState
  BY <1>13 DEF ResetEthState
<1>14. CASE ResetWAS
  BY <1>14 DEF ResetWAS, SetCleanWAS
<1>15. CASE ResetTxPool
  BY <1>15 DEF ResetTxPool
<1>16. CASE WriteFails
  BY <1>16 DEF WriteFails
<1>17. CASE Crash
  BY <1>17 DEF Crash
<1>18. ASSUME NEW t \in PoolTxs, CheckTx(t) PROVE Pending'
  BY <1>18 DEF CheckTx
<1>19. CASE UNCHANGED vars
  BY <1>19 DEF vars
<1> QED
  BY <1>1, <1>2, <1>3, <1>4, <1>5, <1>6, <1>7, <1>8, <1>9, <1>10, <1>11, <1>12,
     <1>13, <1>14, <1>15, <1>16, <1>17, <1>18, <1>19 DEF Next, CommitStep

\* Every step keeps the database and the pending transactions in agreement: a
\* newly executed transaction is in neither, because the nonces have not passed it.
LEMMA AgreesStep == IInv /\ [Next]_vars => PendingAgrees'
<1> SUFFICES ASSUME IInv, TypeOK, Pending, Levels, AppliedAtMostOnce,
                    PendingAgrees, [Next]_vars PROVE PendingAgrees'
  BY DEF IInv
<1> USE DEF db, was, pool, mem, env, history, PendingAgrees
<1>1. CASE NewState
  BY <1>1 DEF NewState, SetCleanWAS
<1>2. CASE CreateAccounts
  BY <1>2 DEF CreateAccounts
<1>3. ASSUME NEW b \in Blocks, ProcessBlock(b) PROVE PendingAgrees'
  BY <1>3 DEF ProcessBlock
<1>4. CASE PutBlockByHash
  BY <1>4 DEF PutBlockByHash
<1>5. CASE PutBlockById
  BY <1>5 DEF PutBlockById
<1>6. CASE applyTransaction
  <2> DEFINE t == cur.txs[next]
  <2>0. /\ wasTxs \in Seq(Tx) /\ wasReceipts \in Seq(Receipt) /\ pc = "apply"
        /\ \A i \in DOMAIN wasTxs : wasTxs[i] \in Tx
    BY <1>6, ApplyCases DEF TypeOK
  <2>1. \A a \in Addr : /\ wasState[a].nonce \in Nat /\ wasState'[a].nonce \in Nat
                         /\ wasState[a].nonce <= wasState'[a].nonce
                         /\ dbRoot[a].nonce \in Nat
    BY <1>6, ApplyCases, TypeStep DEF TypeOK, Ledger, Account
  <2>2. /\ UNCHANGED <<pc, dbTxs, dbReceipts, dbRoot>>
        /\ \A i \in DOMAIN wasTxs : wasTxs[i].from \in Addr /\ wasTxs[i].nonce \in Nat
    BY <1>6, <2>0, ApplyCases, AmountLemma
  <2>3. CASE UNCHANGED <<wasTxs, wasReceipts>>
    BY <2>0, <2>2, <2>3 DEF SameSlot
  <2>4. CASE /\ t \in Tx
             /\ wasState[t.from].nonce = t.nonce
             /\ wasTxs' = Append(wasTxs, t)
             /\ \E r \in Receipt : r.tx = t /\ wasReceipts' = Append(wasReceipts, r)
    <3>1. PICK r \in Receipt : r.tx = t /\ wasReceipts' = Append(wasReceipts, r)
      BY <2>4
    <3>2. t.from \in Addr /\ t.nonce \in Nat
      BY <2>4, AmountLemma
    <3> HIDE DEF t
    <3>3. Len(wasReceipts) = Len(wasTxs)
      BY <2>0 DEF Pending
    <3>4. \A i \in DOMAIN wasTxs' :
             \/ i \in DOMAIN wasTxs /\ wasTxs'[i] = wasTxs[i]
                /\ wasReceipts'[i] = wasReceipts[i]
             \/ wasTxs'[i] = t
      BY <2>0, <2>4, <3>1, <3>3
    <3>5. \A u \in dbTxs : ~SameSlot(u, t)
      <4>1. \A u \in dbTxs : u.from \in Addr /\ u.nonce \in Nat
                              /\ u.nonce < dbRoot[u.from].nonce
        BY AmountLemma DEF TypeOK, AppliedAtMostOnce
      <4>2. dbRoot[t.from].nonce <= t.nonce
        BY <2>0, <2>4, <3>2 DEF Levels
      <4> QED BY <2>1, <3>2, <4>1, <4>2 DEF SameSlot
    <3>6. dbReceipts[t] = Nothing
      <4>1. t \notin dbTxs
        BY <3>5 DEF SameSlot
      <4> QED BY <2>4, <4>1 DEF AppliedAtMostOnce
    <3> QED BY <2>0, <2>2, <3>4, <3>5, <3>6 DEF SameSlot
  <2> QED BY <1>6, <2>3, <2>4, ApplyCases
<1>7. CASE EndOfBlock
  BY <1>7 DEF EndOfBlock
<1>8. CASE CommitTrie
  BY <1>8 DEF CommitTrie
<1>9. CASE writeRoot
  BY <1>9 DEF writeRoot
<1>10. CASE writeHead
  BY <1>10 DEF writeHead
<1>11. CASE writeTransactions
  <2>1. \A i \in DOMAIN wasTxs : wasTxs[i] \in Range(wasTxs)
    BY DEF Range
  <2>2. \A u \in Range(wasTxs) : \E j \in DOMAIN wasTxs : u = wasTxs[j]
    BY DEF Range
  <2>3. \A i \in DOMAIN wasTxs : \A u \in Range(wasTxs) :
           SameSlot(u, wasTxs[i]) => u = wasTxs[i]
    BY <1>11, <2>2 DEF writeTransactions, Pending
  <2> QED BY <1>11, <2>1, <2>3 DEF writeTransactions, SameSlot
<1>12. CASE writeReceipts
  <2>1. \A i \in DOMAIN wasTxs : dbReceipts'[wasTxs[i]] = wasReceipts[i]
    BY <1>12, ReceiptsWritten
  <2> QED BY <1>12, <2>1 DEF writeReceipts, SameSlot
<1>13. CASE ResetEthState
  BY <1>13 DEF ResetEthState
<1>14. CASE ResetWAS
  BY <1>14 DEF ResetWAS, SetCleanWAS
<1>15. CASE ResetTxPool
  BY <1>15 DEF ResetTxPool
<1>16. CASE WriteFails
  BY <1>16 DEF WriteFails
<1>17. CASE Crash
  BY <1>17 DEF Crash
<1>18. ASSUME NEW t \in PoolTxs, CheckTx(t) PROVE PendingAgrees'
  BY <1>18 DEF CheckTx
<1>19. CASE UNCHANGED vars
  BY <1>19 DEF vars, SameSlot
<1> QED
  BY <1>1, <1>2, <1>3, <1>4, <1>5, <1>6, <1>7, <1>8, <1>9, <1>10, <1>11, <1>12,
     <1>13, <1>14, <1>15, <1>16, <1>17, <1>18, <1>19 DEF Next, CommitStep

\* Every step keeps the stored transactions behind the durable nonces, in
\* distinct slots, and the receipts with their transactions.
LEMMA OnceStep == IInv /\ [Next]_vars => AppliedAtMostOnce'
<1> SUFFICES ASSUME IInv, TypeOK, Pending, Levels, AppliedAtMostOnce,
                    PendingAgrees, [Next]_vars PROVE AppliedAtMostOnce'
  BY DEF IInv
<1> USE DEF db, was, pool, mem, env, history, AppliedAtMostOnce
<1>1. CASE NewState
  BY <1>1 DEF NewState, SetCleanWAS
<1>2. CASE CreateAccounts
  BY <1>2 DEF CreateAccounts
<1>3. ASSUME NEW b \in Blocks, ProcessBlock(b) PROVE AppliedAtMostOnce'
  BY <1>3 DEF ProcessBlock
<1>4. CASE PutBlockByHash
  BY <1>4 DEF PutBlockByHash
<1>5. CASE PutBlockById
  BY <1>5 DEF PutBlockById
<1>6. CASE applyTransaction
  BY <1>6, ApplyCases
<1>7. CASE EndOfBlock
  BY <1>7 DEF EndOfBlock
<1>8. CASE CommitTrie
  BY <1>8 DEF CommitTrie
<1>9. CASE writeRoot
  <2>1. \A a \in Addr : dbRoot[a].nonce \in Nat /\ wasState[a].nonce \in Nat
    BY DEF TypeOK, Ledger, Account
  <2>2. \A t \in dbTxs : t.from \in Addr /\ t.nonce \in Nat
    BY AmountLemma DEF TypeOK
  <2>3. \A a \in Addr : dbRoot[a].nonce <= dbRoot'[a].nonce
    BY <1>9 DEF writeRoot, Levels
  <2>4. \A t \in dbTxs : t.nonce < dbRoot'[t.from].nonce
    BY <1>9, <2>1, <2>2, <2>3 DEF writeRoot
  <2> QED BY <1>9, <2>4 DEF writeRoot
<1>10. CASE writeHead
  BY <1>10 DEF writeHead
<1>11. CASE writeTransactions
  <2>1. \A u \in Range(wasTxs) : \E j \in DOMAIN wasTxs : u = wasTxs[j]
    BY DEF Range
  <2>2. wasState = dbRoot
    BY <1>11 DEF writeTransactions, Levels, AfterRoot
  <2>3. \A u \in Range(wasTxs) : u.nonce < dbRoot[u.from].nonce
    BY <1>11, <2>1, <2>2 DEF writeTransactions, Pending
  <2>4. \A u, v \in Range(wasTxs) : SameSlot(u, v) => u = v
    BY <1>11, <2>1 DEF writeTransactions, Pending
  <2>5. \A u \in dbTxs, v \in Range(wasTxs) : SameSlot(u, v) => u = v
    BY <1>11, <2>1 DEF writeTransactions, PendingAgrees
  <2> QED BY <1>11, <2>3, <2>4, <2>5 DEF writeTransactions, SameSlot
<1>12. CASE writeReceipts
  <2>1. \A i \in DOMAIN wasReceipts : wasReceipts[i].tx \in dbTxs
    BY <1>12 DEF writeReceipts, Pending, PendingAgrees
  <2>2. \A t \in Tx : (\A i \in DOMAIN wasReceipts : wasReceipts[i].tx # t) =>
                        dbReceipts'[t] = dbReceipts[t]
    BY <1>12, PutReceiptsLemma, PendingReceipts DEF writeReceipts, TypeOK
  <2>3. \A t \in Tx : dbReceipts'[t] # Nothing => t \in dbTxs
    BY <2>1, <2>2
  <2> QED BY <1>12, <2>3 DEF writeReceipts
<1>13. CASE ResetEthState
  BY <1>13 DEF ResetEthState
<1>14. CASE ResetWAS
  BY <1>14 DEF ResetWAS, SetCleanWAS
<1>15. CASE ResetTxPool
  BY <1>15 DEF ResetTxPool
<1>16. CASE WriteFails
  BY <1>16 DEF WriteFails
<1>17. CASE Crash
  BY <1>17 DEF Crash
<1>18. ASSUME NEW t \in PoolTxs, CheckTx(t) PROVE AppliedAtMostOnce'
  BY <1>18 DEF CheckTx
<1>19. CASE UNCHANGED vars
  BY <1>19 DEF vars
<1> QED
  BY <1>1, <1>2, <1>3, <1>4, <1>5, <1>6, <1>7, <1>8, <1>9, <1>10, <1>11, <1>12,
     <1>13, <1>14, <1>15, <1>16, <1>17, <1>18, <1>19 DEF Next, CommitStep

\* No step changes or removes a stored receipt: a batch can only repeat it.
LEMMA ReceiptsKept ==
    ASSUME IInv, [Next]_vars
    PROVE  \A t \in Tx : dbReceipts[t] # Nothing => dbReceipts'[t] = dbReceipts[t]
<1>1. CASE writeReceipts
  <2>1. \A i \in DOMAIN wasReceipts : dbReceipts'[wasReceipts[i].tx] = wasReceipts[i]
    BY <1>1, PutReceiptsLemma, PendingReceipts DEF writeReceipts, TypeOK, IInv
  <2>2. \A t \in Tx : (\A i \in DOMAIN wasReceipts : wasReceipts[i].tx # t) =>
                        dbReceipts'[t] = dbReceipts[t]
    BY <1>1, PutReceiptsLemma, PendingReceipts DEF writeReceipts, TypeOK, IInv
  <2>3. \A i \in DOMAIN wasReceipts :
           dbReceipts[wasReceipts[i].tx] \in {Nothing, wasReceipts[i]}
    BY <1>1 DEF writeReceipts, IInv, Pending, PendingAgrees
  <2> QED BY <2>1, <2>2, <2>3
<1>2. CASE applyTransaction
  BY <1>2, ApplyCases
<1>3. CASE ~writeReceipts /\ ~applyTransaction
  <2>1. UNCHANGED dbReceipts
    BY <1>3 DEF Next, CommitStep, vars, db, NewState, CreateAccounts, ProcessBlock,
       PutBlockByHash, PutBlockById, EndOfBlock, CommitTrie, writeRoot, writeHead,
       writeTransactions, ResetEthState, ResetWAS, ResetTxPool, WriteFails, Crash,
       CheckTx
  <2> QED BY <2>1
<1> QED BY <1>1, <1>2, <1>3

\* Every step keeps the account of what ProcessBlock has done so far.
LEMMA ProgressStep == IInv /\ [Next]_vars => Progress'
<1> SUFFICES ASSUME IInv, TypeOK, Pending, Control, Progress, [Next]_vars PROVE Progress'
  BY DEF IInv
<1> USE DEF db, was, pool, mem, env, history, Progress, InBlock
<1>1. CASE NewState
  BY <1>1 DEF NewState, SetCleanWAS
<1>2. CASE CreateAccounts
  BY <1>2 DEF CreateAccounts
<1>3. ASSUME NEW b \in Blocks, ProcessBlock(b) PROVE Progress'
  <2>1. b.txs \in Seq(Tx \cup {Garbage}) /\ DOMAIN b.txs \subseteq Nat \ {0}
    BY BlockLemma
  <2> QED BY <1>3, <2>1 DEF ProcessBlock
<1>4. CASE PutBlockByHash
  BY <1>4 DEF PutBlockByHash
<1>5. CASE PutBlockById
  BY <1>5 DEF PutBlockById
<1>6. CASE applyTransaction
  <2> DEFINE t == cur.txs[next]
             Done(k, n) == \/ Malformed(cur.txs[k])
                           \/ cur.txs[k] \in dropped' \cup dbErrors'
                           \/ dbReceipts[cur.txs[k]] # Nothing
                           \/ \E i \in DOMAIN wasTxs' : wasTxs'[i] = cur.txs[k]
  <2>0. /\ cur \in Blocks /\ next \in DOMAIN cur.txs /\ pc = "apply"
        /\ UNCHANGED <<pc, job, cur, dbReceipts>> /\ next' = next + 1
        /\ dbErrors \subseteq dbErrors' /\ dropped \subseteq dropped'
        /\ wasTxs \in Seq(Tx) /\ next \in Nat /\ job = "block" /\ next >= 1
    BY <1>6, ApplyCases DEF TypeOK, Control
  <2>1. /\ Malformed(t) \/ t \in dropped' \cup dbErrors'
           \/ \E i \in DOMAIN wasTxs' : wasTxs'[i] = t
        /\ \A i \in DOMAIN wasTxs : i \in DOMAIN wasTxs' /\ wasTxs'[i] = wasTxs[i]
    <3>1. CASE UNCHANGED wasTxs /\ (Malformed(t) \/ t \in dropped' \cup dbErrors')
      BY <3>1
    <3>2. CASE t \in Tx /\ wasTxs' = Append(wasTxs, t)
      <4>1. Len(wasTxs) + 1 \in DOMAIN wasTxs' /\ wasTxs'[Len(wasTxs) + 1] = t
        BY <2>0, <3>2
      <4>2. \A i \in DOMAIN wasTxs : i \in DOMAIN wasTxs' /\ wasTxs'[i] = wasTxs[i]
        BY <2>0, <3>2
      <4> QED BY <4>1, <4>2
    <3> QED BY <1>6, <3>1, <3>2, ApplyCases
  <2>2. ASSUME NEW k \in DOMAIN cur.txs, k < next + 1 PROVE Done(k, next)
    <3>1. CASE k = next
      BY <2>1, <3>1
    <3>2. CASE k < next
      <4>1. \/ Malformed(cur.txs[k])
            \/ cur.txs[k] \in dropped \cup dbErrors
            \/ dbReceipts[cur.txs[k]] # Nothing
            \/ \E i \in DOMAIN wasTxs : wasTxs[i] = cur.txs[k]
        BY <2>0, <3>2
      <4> QED BY <2>0, <2>1, <4>1
    <3>3. k \in Nat
      BY <2>0, BlockLemma
    <3> QED BY <2>0, <2>2, <3>1, <3>2, <3>3
  <2> QED BY <2>0, <2>2 DEF Malformed
<1>7. CASE EndOfBlock
  BY <1>7 DEF EndOfBlock, Malformed
<1>8. CASE CommitTrie
  BY <1>8 DEF CommitTrie
<1>9. CASE writeRoot
  BY <1>9 DEF writeRoot
<1>10. CASE writeHead
  BY <1>10 DEF writeHead
<1>11. CASE writeTransactions
  BY <1>11 DEF writeTransactions
<1>12. CASE writeReceipts
  <2>1. CASE job = "block"
    <3>1. \A i \in DOMAIN wasTxs : dbReceipts'[wasTxs[i]] # Nothing
      <4>1. \A i \in DOMAIN wasTxs : dbReceipts'[wasTxs[i]] = wasReceipts[i]
        BY <1>12, ReceiptsWritten
      <4>2. \A i \in DOMAIN wasReceipts : wasReceipts[i] \in Receipt
        BY DEF TypeOK
      <4> QED BY <1>12, <4>1, <4>2, EvmStateAssumption DEF writeReceipts, Pending
    <3>2. \A k \in DOMAIN cur.txs : ~Malformed(cur.txs[k]) => cur.txs[k] \in Tx
      BY <1>12, <2>1, BlockLemma DEF writeReceipts
    <3> QED BY <1>12, <2>1, <3>1, <3>2, ReceiptsKept DEF writeReceipts, Malformed
  <2> QED BY <1>12, <2>1 DEF writeReceipts
<1>13. CASE ResetEthState
  BY <1>13 DEF ResetEthState
<1>14. CASE ResetWAS
  BY <1>14 DEF ResetWAS, SetCleanWAS
<1>15. CASE ResetTxPool
  BY <1>15 DEF ResetTxPool
<1>16. CASE WriteFails
  BY <1>16 DEF WriteFails
<1>17. CASE Crash
  BY <1>17 DEF Crash
<1>18. ASSUME NEW t \in PoolTxs, CheckTx(t) PROVE Progress'
  BY <1>18 DEF CheckTx
<1>19. CASE UNCHANGED vars
  BY <1>19 DEF vars
<1> QED
  BY <1>1, <1>2, <1>3, <1>4, <1>5, <1>6, <1>7, <1>8, <1>9, <1>10, <1>11, <1>12,
     <1>13, <1>14, <1>15, <1>16, <1>17, <1>18, <1>19 DEF Next, CommitStep


\* Every step keeps the records of the completed blocks, and a block completes
\* only when all its transactions have one.
LEMMA CompletedStep ==
    IInv /\ [Next]_vars => CompletedBlockRecorded'
<1> SUFFICES ASSUME IInv, [Next]_vars PROVE CompletedBlockRecorded'
  OBVIOUS
<1> USE DEF db, was, pool, mem, env, history
<1>1. dbErrors \subseteq dbErrors' /\ dropped \subseteq dropped'
  <2>1. CASE applyTransaction
    BY <2>1, ApplyCases
  <2> QED BY <2>1 DEF Next, CommitStep, vars, NewState, CreateAccounts, ProcessBlock,
     PutBlockByHash, PutBlockById, EndOfBlock, CommitTrie, writeRoot, writeHead,
     writeTransactions, writeReceipts, ResetEthState, ResetWAS, ResetTxPool,
     WriteFails, Crash, CheckTx
<1>2. \/ UNCHANGED completed
      \/ ResetTxPool /\ job = "block" /\ completed' = completed \cup {cur}
  <2>1. CASE applyTransaction
    BY <2>1, ApplyCases
  <2> QED BY <2>1 DEF Next, CommitStep, vars, NewState, CreateAccounts, ProcessBlock,
     PutBlockByHash, PutBlockById, EndOfBlock, CommitTrie, writeRoot, writeHead,
     writeTransactions, writeReceipts, ResetEthState, ResetWAS, ResetTxPool,
     WriteFails, Crash, CheckTx
<1>3. SUFFICES ASSUME NEW b \in completed', NEW i \in DOMAIN b.txs,
                      ~Malformed(b.txs[i])
               PROVE  \/ b.txs[i] \in dropped' \cup dbErrors'
                      \/ dbReceipts'[b.txs[i]] # Nothing
  BY DEF CompletedBlockRecorded, Malformed
<1>4. CASE b \in completed
  <2>1. b \in Blocks /\ b.txs[i] \in Tx
    BY <1>3, <1>4, BlockLemma DEF IInv, TypeOK
  <2>2. b.txs[i] \in dropped \cup dbErrors \/ dbReceipts[b.txs[i]] # Nothing
    BY <1>3, <1>4 DEF IInv, CompletedBlockRecorded
  <2> QED BY <1>1, <2>1, <2>2, ReceiptsKept
<1>5. CASE ResetTxPool /\ job = "block" /\ b = cur
  <2>1. /\ cur \in Blocks /\ next > Len(cur.txs) /\ pc = "resetPool"
        /\ \A k \in DOMAIN cur.txs : k < next =>
              \/ Malformed(cur.txs[k])
              \/ cur.txs[k] \in dropped \cup dbErrors
              \/ dbReceipts[cur.txs[k]] # Nothing
    BY <1>5 DEF ResetTxPool, IInv, Progress, InBlock
  <2>2. i < next
    BY <1>3, <1>5, <2>1, BlockLemma DEF IInv, TypeOK
  <2> QED BY <1>3, <1>5, <2>1, <2>2 DEF ResetTxPool
<1> QED BY <1>2, <1>3, <1>4, <1>5

-----------------------------------------------------------------------------
(* Results *)

\* IInv holds in every initial state.
LEMMA InitInvariant == Init => IInv
<1> SUFFICES ASSUME Init PROVE IInv
  OBVIOUS
<1>1. TypeOK
  BY TypeInit
<1>2. Control /\ Levels /\ Pending /\ PendingAgrees /\ TrieFirst /\ Progress
  BY DEF Init, Control, Levels, AfterRoot, Pending, PendingAgrees, TrieFirst,
         RootLoadable, Progress
<1>3. AppliedAtMostOnce /\ CompletedBlockRecorded
  BY DEF Init, AppliedAtMostOnce, CompletedBlockRecorded
<1> QED BY <1>1, <1>2, <1>3 DEF IInv

\* IInv is an invariant of the node: of every interleaving of deliveries in any
\* order, failing writes, crashes and restarts, for every set of blocks.
THEOREM Invariance == Spec => []IInv
<1>1. IInv /\ [Next]_vars => IInv'
  BY TypeStep, ControlStep, TrieStep, LevelsStep, PendingStep, AgreesStep, OnceStep,
     ProgressStep, CompletedStep DEF IInv
<1> QED BY InitInvariant, <1>1, PTL DEF Spec

\* Type correctness.
THEOREM TypeCorrect == Spec => []TypeOK
<1>1. IInv => TypeOK
  BY DEF IInv
<1> QED BY <1>1, Invariance, PTL

\* The root key can always be loaded: the node can restart after any crash.
THEOREM RestartSafe == Spec => []RootLoadable
<1>1. IInv => RootLoadable
  BY DEF IInv, TrieFirst
<1> QED BY <1>1, Invariance, PTL

\* No stored transaction can be executed again, whatever is redelivered.
THEOREM ReplaySafe == Spec => []AppliedAtMostOnce
<1>1. IInv => AppliedAtMostOnce
  BY DEF IInv
<1> QED BY <1>1, Invariance, PTL

\* What the unlocked readers of ethState see is durable.
THEOREM ReadersSafe == Spec => []VisibleIsDurable
<1>1. IInv => VisibleIsDurable
  BY DEF IInv, Levels, VisibleIsDurable
<1> QED BY <1>1, Invariance, PTL

\* A block processed without an error has left a record of every well-formed
\* transaction.
THEOREM BlocksRecorded == Spec => []CompletedBlockRecorded
<1>1. IInv => CompletedBlockRecorded
  BY DEF IInv
<1> QED BY <1>1, Invariance, PTL

\* No step takes a stored transaction away.
LEMMA TxsKept == IInv /\ [Next]_vars => dbTxs \subseteq dbTxs'
<1> SUFFICES ASSUME IInv, [Next]_vars PROVE dbTxs \subseteq dbTxs'
  OBVIOUS
<1>1. CASE applyTransaction
  BY <1>1, ApplyCases
<1>2. CASE ~applyTransaction
  BY <1>2 DEF Next, CommitStep, vars, db, NewState, CreateAccounts, ProcessBlock,
     PutBlockByHash, PutBlockById, EndOfBlock, CommitTrie, writeRoot, writeHead,
     writeTransactions, writeReceipts, ResetEthState, ResetWAS, ResetTxPool,
     WriteFails, Crash, CheckTx
<1> QED BY <1>1, <1>2

\* The receipt endpoints never take back or change an answer with a receipt.
THEOREM ReceiptsStable == Spec => ReceiptStable
<1>1. ASSUME IInv, [Next]_vars, NEW t \in Tx, TxStatus(t) = "receipt"
      PROVE  TxStatus(t)' = "receipt" /\ dbReceipts'[t] = dbReceipts[t]
  <2>1. t \in dbTxs /\ dbReceipts[t] # Nothing
    BY <1>1 DEF TxStatus, GetTransaction, GetReceipt
  <2>2. t \in dbTxs' /\ dbReceipts'[t] = dbReceipts[t]
    BY <1>1, <2>1, TxsKept, ReceiptsKept
  <2> QED BY <2>1, <2>2 DEF TxStatus, GetTransaction, GetReceipt
<1>2. IInv /\ [Next]_vars =>
        [\A t \in Tx : TxStatus(t) = "receipt" =>
            TxStatus(t)' = "receipt" /\ dbReceipts'[t] = dbReceipts[t]]_vars
  BY <1>1
<1> QED BY <1>2, Invariance, PTL DEF Spec, ReceiptStable

\* The node implements TxLedger: writing the root advances the nonces, writing
\* the transactions stores them, writing the receipts publishes them, and every
\* other step, crashes and restarts included, is a stutter.
THEOREM Refinement == Spec => RefinesTxLedger
<1>1. Init => TL!Init
  BY DEF Init, TL!Init, EmptyLedger
<1>2. ASSUME IInv, IInv', [Next]_vars PROVE [TL!Next]_(TL!ledgerVars)
  <2> DEFINE n == [a \in Addr |-> dbRoot[a].nonce]
  <2>1. CASE writeRoot
    <3>1. UNCHANGED <<dbTxs, dbReceipts>> /\ dbRoot' = wasState
      BY <2>1 DEF writeRoot
    <3>2. \A a \in Addr : dbRoot[a].nonce <= dbRoot'[a].nonce
                          /\ dbRoot'[a].nonce \in Nat
      BY <1>2, <2>1 DEF writeRoot, IInv, Levels, TypeOK, Ledger, Account
    <3>3. n' \in [Addr -> Nat]
      BY <3>2
    <3>4. \A a \in Addr : n[a] <= n'[a]
      BY <3>2
    <3>5. TL!Advance
      BY <3>1, <3>3, <3>4 DEF TL!Advance
    <3> QED BY <3>5 DEF TL!Next
  <2>2. CASE writeTransactions
    <3>1. UNCHANGED <<dbRoot, dbReceipts>>
      BY <2>2 DEF writeTransactions
    <3>2. /\ dbTxs \subseteq dbTxs' /\ dbTxs' \subseteq Tx
          /\ \A t \in dbTxs' : t.nonce < dbRoot[t.from].nonce /\ t.from \in Addr
          /\ \A t, u \in dbTxs' : t.from = u.from /\ t.nonce = u.nonce => t = u
      BY <1>2, <2>2, <3>1, TxsKept, AmountLemma DEF IInv, TypeOK, AppliedAtMostOnce
    <3>3. \A t \in dbTxs' : t.nonce < n[t.from]
      BY <3>2
    <3>4. UNCHANGED n
      BY <3>1
    <3> HIDE DEF n
    <3>5. TL!Store
      BY <3>1, <3>2, <3>3, <3>4 DEF TL!Store, n
    <3> QED BY <3>5 DEF TL!Next
  <2>3. CASE writeReceipts
    <3>1. UNCHANGED <<dbRoot, dbTxs>>
      BY <2>3 DEF writeReceipts
    <3>2. DOMAIN dbReceipts' = Tx
      BY <1>2 DEF IInv, TypeOK
    <3>3. \A t \in Tx : dbReceipts'[t] # dbReceipts[t] =>
                            dbReceipts[t] = Nothing /\ t \in dbTxs
      <4>1. \A t \in Tx : dbReceipts'[t] # Nothing => t \in dbTxs'
        BY <1>2 DEF IInv, AppliedAtMostOnce
      <4> QED BY <1>2, <3>1, <4>1, ReceiptsKept
    <3>4. TL!Publish
      BY <3>1, <3>2, <3>3 DEF TL!Publish
    <3> QED BY <3>4 DEF TL!Next
  <2>4. CASE applyTransaction
    BY <1>2, <2>4, ApplyCases DEF TL!ledgerVars
  <2>5. CASE /\ ~writeRoot /\ ~writeTransactions /\ ~writeReceipts
             /\ ~applyTransaction
    <3>1. UNCHANGED <<dbRoot, dbTxs, dbReceipts>>
      BY <1>2, <2>5 DEF Next, CommitStep, vars, db, NewState, CreateAccounts,
         ProcessBlock, PutBlockByHash, PutBlockById, EndOfBlock, CommitTrie,
         writeHead, ResetEthState, ResetWAS, ResetTxPool, WriteFails, Crash, CheckTx
    <3> QED BY <3>1 DEF TL!ledgerVars
  <2> QED BY <2>1, <2>2, <2>3, <2>4, <2>5
<1> QED BY <1>1, <1>2, Invariance, PTL DEF Spec, RefinesTxLedger, TL!Spec

-----------------------------------------------------------------------------
(* A process that does not stop *)

\* From its start on the process runs: it neither crashes nor ends because a
\* genesis commit failed.  Any other write may fail, as often as MaxFaults lets it.
KeepsRunning == [][pc' = "down" => pc = "down"]_vars

\* Whatever the database has of an executed transaction, its effect on the root or
\* its bytes, its receipt is there as well or still pending.
ReceiptOrPending ==
    /\ pc = "down" => durable = {} /\ dbTxs = {}
    /\ \A t \in durable \cup dbTxs :
          dbReceipts[t] # Nothing \/ \E i \in DOMAIN wasTxs : wasTxs[i] = t
    /\ pc \in {"resetEth", "resetWas"} =>
          \A i \in DOMAIN wasTxs : dbReceipts[wasTxs[i]] # Nothing

\* The blocks that have been processed are stored.
BlocksStored ==
    /\ completed \subseteq dbByHash
    /\ job = "block" /\ pc \notin {"down", "idle", "putHash"} => cur \in dbByHash

\* Every step of a process that runs keeps the receipts.
LEMMA ReceiptOrPendingStep ==
    ASSUME IInv, ReceiptOrPending, [Next]_vars, [pc' = "down" => pc = "down"]_vars
    PROVE  ReceiptOrPending'
<1> USE DEF db, was, pool, mem, env, history, ReceiptOrPending
<1>0. durable \subseteq Tx /\ dbTxs \subseteq Tx /\ wasTxs \in Seq(Tx)
  BY DEF IInv, TypeOK
<1>1. CASE NewState
  BY <1>1 DEF NewState, SetCleanWAS
<1>2. CASE CreateAccounts
  BY <1>2 DEF CreateAccounts
<1>3. ASSUME NEW b \in Blocks, ProcessBlock(b) PROVE ReceiptOrPending'
  BY <1>3 DEF ProcessBlock
<1>4. CASE PutBlockByHash
  BY <1>4 DEF PutBlockByHash
<1>5. CASE PutBlockById
  BY <1>5 DEF PutBlockById
<1>6. CASE applyTransaction
  <2>1. /\ pc = "apply" /\ UNCHANGED <<pc, dbTxs, dbReceipts, durable>>
        /\ \/ UNCHANGED wasTxs
           \/ \E t \in Tx : wasTxs' = Append(wasTxs, t)
    BY <1>6, ApplyCases
  <2>2. \A i \in DOMAIN wasTxs : i \in DOMAIN wasTxs' /\ wasTxs'[i] = wasTxs[i]
    BY <1>0, <2>1
  <2> QED BY <2>1, <2>2
<1>7. CASE EndOfBlock
  BY <1>7 DEF EndOfBlock
<1>8. CASE CommitTrie
  BY <1>8 DEF CommitTrie
<1>9. CASE writeRoot
  BY <1>9 DEF writeRoot, Range
<1>10. CASE writeHead
  BY <1>10 DEF writeHead
<1>11. CASE writeTransactions
  BY <1>11 DEF writeTransactions, Range
<1>12. CASE writeReceipts
  <2>1. \A i \in DOMAIN wasTxs : dbReceipts'[wasTxs[i]] # Nothing
    <3>1. \A i \in DOMAIN wasTxs : dbReceipts'[wasTxs[i]] = wasReceipts[i]
      BY <1>12, ReceiptsWritten DEF IInv
    <3>2. \A i \in DOMAIN wasReceipts : wasReceipts[i] \in Receipt
      BY DEF IInv, TypeOK
    <3> QED BY <1>12, <3>1, <3>2, EvmStateAssumption DEF writeReceipts, IInv, Pending
  <2>2. \A t \in Tx : dbReceipts[t] # Nothing => dbReceipts'[t] # Nothing
    BY <1>12, ReceiptsKept
  <2> QED BY <1>0, <1>12, <2>1, <2>2 DEF writeReceipts
<1>13. CASE ResetEthState
  BY <1>13 DEF ResetEthState
<1>14. CASE ResetWAS
  BY <1>14 DEF ResetWAS, SetCleanWAS
<1>15. CASE ResetTxPool
  BY <1>15 DEF ResetTxPool
<1>16. CASE WriteFails
  <2>1. pc' # "down" BY <1>16 DEF WriteFails, vars
  <2> QED BY <1>16, <2>1 DEF WriteFails
<1>17. CASE Crash
  BY <1>17 DEF Crash, vars
<1>18. ASSUME NEW t \in PoolTxs, CheckTx(t) PROVE ReceiptOrPending'
  BY <1>18 DEF CheckTx
<1>19. CASE UNCHANGED vars
  BY <1>19 DEF vars
<1> QED
  BY <1>1, <1>2, <1>3, <1>4, <1>5, <1>6, <1>7, <1>8, <1>9, <1>10, <1>11, <1>12,
     <1>13, <1>14, <1>15, <1>16, <1>17, <1>18, <1>19 DEF Next, CommitStep

\* Every step keeps the processed blocks stored.
LEMMA BlocksStoredStep ==
    ASSUME IInv, BlocksStored, [Next]_vars PROVE BlocksStored'
<1>1. CASE applyTransaction
  BY <1>1, ApplyCases DEF BlocksStored
<1>2. CASE ~applyTransaction
  BY <1>2 DEF BlocksStored, Next, CommitStep, vars, db, was, pool, mem, env, history,
     NewState, CreateAccounts, ProcessBlock, PutBlockByHash, PutBlockById, EndOfBlock,
     CommitTrie, writeRoot, writeHead, writeTransactions, writeReceipts, ResetEthState,
     ResetWAS, ResetTxPool, WriteFails, Crash, CheckTx
<1> QED BY <1>1, <1>2

\* Both hold of a process that runs.
LEMMA RunningInvariance ==
    Spec /\ KeepsRunning => [](IInv /\ ReceiptOrPending /\ BlocksStored)
<1>1. Init => ReceiptOrPending /\ BlocksStored
  BY DEF Init, ReceiptOrPending, BlocksStored
<1>2. /\ IInv /\ ReceiptOrPending /\ BlocksStored
      /\ [Next]_vars /\ [pc' = "down" => pc = "down"]_vars
      => ReceiptOrPending' /\ BlocksStored'
  BY ReceiptOrPendingStep, BlocksStoredStep
<1> QED BY <1>1, <1>2, Invariance, PTL DEF Spec, KeepsRunning

\* As long as the process runs, no failing write costs a transaction in the durable
\* state its receipt: it is stored, or the WAS has it for the next commit.
THEOREM RunningKeepsReceipts == Spec /\ KeepsRunning => []AppliedHasReceipt
<1>1. IInv /\ ReceiptOrPending => AppliedHasReceipt
  BY DEF IInv, TypeOK, ReceiptOrPending, AppliedHasReceipt, Range
<1> QED BY <1>1, RunningInvariance, PTL

\* As long as the process runs, and whenever nothing is pending, the block endpoints
\* answer for every processed block of well-formed transactions.
THEOREM RunningAnswersBlocks == Spec /\ KeepsRunning => []SettledBlockAnswered
<1>1. ASSUME IInv, ReceiptOrPending, BlocksStored, pc = "idle", wasTxs = <<>>,
             NEW b \in completed,
             \A i \in DOMAIN b.txs : ~Malformed(b.txs[i]) /\ b.txs[i] \notin dropped
      PROVE  /\ blockByHashHandler(b)
             /\ dbById[b.index] = b => blockByIdHandler(b.index)
  <2>1. b \in Blocks /\ b \in dbByHash /\ b # Nothing
    BY <1>1, EvmStateAssumption DEF IInv, TypeOK, BlocksStored
  <2>2. ASSUME NEW i \in DOMAIN b.txs
        PROVE  b.txs[i] # Garbage /\ TxStatus(b.txs[i]) # "httpError"
    <3>1. b.txs[i] \in Tx /\ b.txs[i] # Garbage
      BY <1>1, <2>1, BlockLemma DEF Malformed
    <3>2. b.txs[i] \in dbErrors \/ dbReceipts[b.txs[i]] # Nothing
      BY <1>1 DEF IInv, CompletedBlockRecorded
    <3>3. dbReceipts[b.txs[i]] # Nothing => b.txs[i] \in dbTxs
      BY <1>1, <3>1 DEF IInv, AppliedAtMostOnce
    <3>4. b.txs[i] \in dbTxs => dbReceipts[b.txs[i]] # Nothing
      BY <1>1 DEF ReceiptOrPending
    <3> QED BY <3>1, <3>2, <3>3, <3>4
            DEF TxStatus, GetTransaction, GetReceipt, GetFailedTx
  <2>3. BlockShown(b) BY <2>2 DEF BlockShown
  <2> QED BY <2>1, <2>3
          DEF blockByHashHandler, blockByIdHandler, GetBlock, GetBlockById
<1>2. IInv /\ ReceiptOrPending /\ BlocksStored => SettledBlockAnswered
  BY <1>1 DEF SettledBlockAnswered
<1> QED BY <1>2, RunningInvariance, PTL
=============================================================================
