------------------------------ MODULE EvmState ------------------------------
(***************************************************************************)
(* src/state: the State of one node, with its write-ahead state (WAS), its *)
(* transaction pool and the LevelDB database below them.  One step is one  *)
(* database write or one change of an in-memory object, because a crash, a *)
(* failing write or an unlocked reader can come between any two of them.   *)
(* The operations that hold commitMutex (ProcessBlock, CreateAccounts)     *)
(* exclude each other: pc says where the holder is, "idle" that nobody     *)
(* holds it, "down" that the process is not running.                       *)
(***************************************************************************)
EXTENDS Evm, Sequences, Functions

CONSTANTS Blocks,         \* the blocks consensus may deliver, in any order,
                          \* any of them again
          Alloc,          \* genesis allocation: account -> balance
          PoolTxs,        \* the transactions a caller hands to CheckTx; the
                          \* program has no such caller, so {} is the program
          Nothing,        \* an absent database entry
          MaxDeliveries,  \* bound: blocks delivered
          MaxCrashes,     \* bound: crashes
          MaxFaults       \* bound: failing database writes

\* A receipt: the root after the transaction, the VM's verdict and the gas used
\* since the WAS was last reset.
Receipt == [tx : Tx, root : Ledger, failed : BOOLEAN, cum : Nat]

ASSUME EvmStateAssumption ==
    /\ Blocks \subseteq [index : Nat, txs : Seq(Tx \cup {Garbage})]
    /\ DOMAIN Alloc \subseteq Addr
    /\ \A a \in DOMAIN Alloc : Alloc[a] \in Nat \ {0}
    /\ PoolTxs \subseteq Tx
    /\ Nothing \notin Blocks /\ Nothing \notin Tx /\ Nothing \notin Receipt
    /\ MaxDeliveries \in Nat /\ MaxCrashes \in Nat /\ MaxFaults \in Nat

VARIABLES
    \* The database, all that survives a crash: the root and head keys, the
    \* tries on disk (as ledgers), and the entries under transaction hash,
    \* receipts-, errors-, block hash and block_%09d keys.
    dbRoot, dbTries, dbHead, dbTxs, dbReceipts, dbErrors, dbByHash, dbById,
    ethState,    \* s.ethState: the committed state that GetBalance reads
    \* s.was: its state, transactions, receipts, totalUsedGas and gas pool
    wasState, wasTxs, wasReceipts, wasGas, wasGp,
    poolState, poolGp,   \* s.txPool: its state and gas pool
    blockIndex,  \* s.blockIndex
    genesis,     \* whether this process has called CreateAccounts
    pc, job,     \* where the holder of commitMutex is, and in which operation
    cur, next,   \* ProcessBlock's block and its loop index
    deliveries, crashes, faults,   \* counters against the bounds
    durable,     \* history: transactions whose effect is in dbRoot
    completed,   \* history: blocks ProcessBlock returned without an error
    dropped      \* history: transactions whose error record was not written

db == <<dbRoot, dbTries, dbHead, dbTxs, dbReceipts, dbErrors, dbByHash, dbById>>
was == <<wasState, wasTxs, wasReceipts, wasGas, wasGp>>
pool == <<poolState, poolGp>>
mem == <<ethState, was, pool, blockIndex, genesis>>
env == <<deliveries, crashes, faults>>
history == <<durable, completed, dropped>>
vars == <<db, mem, pc, job, cur, next, env, history>>

-----------------------------------------------------------------------------
(* Types *)

NilGas == -1    \* the pool's gp before its first Reset: a nil pointer

Indices == {b.index : b \in Blocks}

Steps == {"down", "idle", "putHash", "putIndex", "apply", "trie", "root",
          "head", "txs", "receipts", "resetEth", "resetWas", "resetPool"}

TypeOK ==
    /\ dbRoot \in Ledger
    /\ dbTries \subseteq Ledger
    /\ dbHead \in Tx \cup {Nothing}
    /\ dbTxs \subseteq Tx
    /\ dbReceipts \in [Tx -> Receipt \cup {Nothing}]
    /\ dbErrors \subseteq Tx
    /\ dbByHash \subseteq Blocks
    /\ dbById \in [Indices -> Blocks \cup {Nothing}]
    /\ ethState \in Ledger
    /\ wasState \in Ledger
    /\ wasTxs \in Seq(Tx)
    /\ wasReceipts \in Seq(Receipt)
    /\ wasGas \in Nat
    /\ wasGp \in Nat
    /\ poolState \in Ledger
    /\ poolGp \in Nat \cup {NilGas}
    /\ blockIndex \in Nat
    /\ genesis \in {"pending", "done"}
    /\ pc \in Steps
    /\ job \in {"none", "block", "genesis"}
    /\ cur \in Blocks \cup {Nothing}
    /\ next \in Nat
    /\ deliveries \in 0..MaxDeliveries
    /\ crashes \in 0..MaxCrashes
    /\ faults \in 0..MaxFaults
    /\ durable \subseteq Tx
    /\ completed \subseteq Blocks
    /\ dropped \subseteq Tx

-----------------------------------------------------------------------------
(* Starting the process *)

\* was.Reset and resetWAS: nothing pending on top of ledger l.
SetCleanWAS(l) ==
    /\ wasState' = l
    /\ wasTxs' = <<>> /\ wasReceipts' = <<>>
    /\ wasGas' = 0 /\ wasGp' = GasLimit

\* An empty data directory and no process yet.
Init ==
    /\ dbRoot = EmptyLedger /\ dbTries = {EmptyLedger} /\ dbHead = Nothing
    /\ dbTxs = {} /\ dbReceipts = [t \in Tx |-> Nothing] /\ dbErrors = {}
    /\ dbByHash = {} /\ dbById = [i \in Indices |-> Nothing]
    /\ ethState = EmptyLedger
    /\ wasState = EmptyLedger /\ wasTxs = <<>> /\ wasReceipts = <<>>
    /\ wasGas = 0 /\ wasGp = GasLimit
    /\ poolState = EmptyLedger /\ poolGp = NilGas
    /\ blockIndex = 0
    /\ genesis = "pending"
    /\ pc = "down" /\ job = "none"
    /\ cur = Nothing /\ next = 0
    /\ deliveries = 0 /\ crashes = 0 /\ faults = 0
    /\ durable = {} /\ completed = {} /\ dropped = {}

\* NewState, InitState and resetWAS: everything is rebuilt from the root key;
\* ethState.New fails, and with it the start, when the trie below the root is
\* not on disk.
NewState ==
    /\ pc = "down"
    /\ dbRoot \in dbTries
    /\ ethState' = dbRoot
    /\ SetCleanWAS(dbRoot)
    /\ poolState' = dbRoot /\ poolGp' = NilGas
    /\ blockIndex' = 0
    /\ genesis' = "pending"
    /\ pc' = "idle"
    /\ job' = "none" /\ cur' = Nothing /\ next' = 0
    /\ UNCHANGED <<db, env, history>>

\* The process dies at any point, a pending block included.
Crash ==
    /\ pc # "down"
    /\ crashes < MaxCrashes
    /\ crashes' = crashes + 1
    /\ pc' = "down"
    /\ UNCHANGED <<db, mem, job, cur, next, deliveries, faults, history>>

-----------------------------------------------------------------------------
(* Operations that take commitMutex *)

\* Mutant: the allocation is credited whether the account exists or not.
CreateAccounts_Again ==
    /\ pc = "idle"
    /\ genesis = "pending"
    /\ genesis' = "done"
    /\ wasState' = [a \in Addr |->
                      IF a \in DOMAIN Alloc
                      THEN [nonce |-> wasState[a].nonce,
                            balance |-> wasState[a].balance + Alloc[a]]
                      ELSE wasState[a]]
    /\ pc' = "trie" /\ job' = "genesis"
    /\ UNCHANGED <<db, ethState, wasTxs, wasReceipts, wasGas, wasGp, pool,
                   blockIndex, cur, next, env, history>>

\* Service.createGenesisAccounts calls CreateAccounts once per process, from
\* the service's goroutine: blocks may have been processed before.  Existence
\* is looked up in the committed state, the credit goes to the WAS.
CreateAccounts ==
    /\ pc = "idle"
    /\ genesis = "pending"
    /\ genesis' = "done"
    /\ wasState' = [a \in Addr |->
                      IF a \in DOMAIN Alloc /\ ~Exists(ethState, a)
                      THEN [nonce |-> wasState[a].nonce,
                            balance |-> wasState[a].balance + Alloc[a]]
                      ELSE wasState[a]]
    /\ pc' = "trie" /\ job' = "genesis"
    /\ UNCHANGED <<db, ethState, wasTxs, wasReceipts, wasGas, wasGp, pool,
                   blockIndex, cur, next, env, history>>

\* ProcessBlock up to its first write.  No check relates the block to the ones
\* before it.
ProcessBlock(b) ==
    /\ pc = "idle"
    /\ deliveries < MaxDeliveries
    /\ deliveries' = deliveries + 1
    /\ blockIndex' = b.index
    /\ pc' = "putHash" /\ job' = "block"
    /\ cur' = b /\ next' = 1
    /\ UNCHANGED <<db, ethState, was, pool, genesis, crashes, faults, history>>

PutBlockByHash ==
    /\ pc = "putHash"
    /\ dbByHash' = dbByHash \cup {cur}
    /\ pc' = "putIndex"
    /\ UNCHANGED <<dbRoot, dbTries, dbHead, dbTxs, dbReceipts, dbErrors, dbById,
                   mem, job, cur, next, env, history>>

PutBlockById ==
    /\ pc = "putIndex"
    /\ dbById' = [dbById EXCEPT ![cur.index] = cur]
    /\ pc' = "apply"
    /\ UNCHANGED <<dbRoot, dbTries, dbHead, dbTxs, dbReceipts, dbErrors, dbByHash,
                   mem, job, cur, next, env, history>>

-----------------------------------------------------------------------------
(* applyTransaction, once for each transaction of the block.  Its errors are *)
(* only logged: the loop always goes on.                                     *)

Malformed(t) == t = Garbage \/ (t # Garbage /\ ~t.signed)

\* rlp.Decode or AsMessage fails: nothing is recorded.
SkipTx(t) ==
    /\ Malformed(t)
    /\ UNCHANGED <<db, was, faults, history>>

\* Mutant: the error record is not written.
RejectTx_Silent(t) ==
    LET r == ApplyMessage(wasState, wasGp, t)
    IN  /\ ~Malformed(t)
        /\ r.err
        /\ wasState' = r.ledger /\ wasGp' = r.gp
        /\ UNCHANGED <<db, faults, wasTxs, wasReceipts, wasGas, history>>

\* Mutant: the error record takes the place of a transaction without a receipt.
RejectTx_Forget(t) ==
    LET r == ApplyMessage(wasState, wasGp, t)
    IN  /\ ~Malformed(t)
        /\ r.err
        /\ wasState' = r.ledger /\ wasGp' = r.gp
        /\ dbErrors' = dbErrors \cup {t}
        /\ dbTxs' = IF dbReceipts[t] = Nothing THEN dbTxs \ {t} ELSE dbTxs
        /\ UNCHANGED <<dbRoot, dbTries, dbHead, dbReceipts, dbByHash, dbById,
                       faults, wasTxs, wasReceipts, wasGas, history>>

\* ApplyMessage fails: whatever it changed in the WAS stays, and the error is
\* recorded under the transaction's hash, unless that write fails too.
RejectTx(t) ==
    LET r == ApplyMessage(wasState, wasGp, t)
    IN  /\ ~Malformed(t)
        /\ r.err
        /\ wasState' = r.ledger /\ wasGp' = r.gp
        /\ \/ /\ dbErrors' = dbErrors \cup {t}
              /\ UNCHANGED <<faults, dropped>>
           \/ /\ faults < MaxFaults
              /\ faults' = faults + 1
              /\ dropped' = dropped \cup {t}
              /\ UNCHANGED dbErrors
        /\ UNCHANGED <<dbRoot, dbTries, dbHead, dbTxs, dbReceipts, dbByHash,
                       dbById, wasTxs, wasReceipts, wasGas, durable, completed>>

ExecuteTx(t) ==
    LET r == ApplyMessage(wasState, wasGp, t)
        cum == wasGas + t.used
    IN  /\ ~Malformed(t)
        /\ ~r.err
        /\ wasState' = r.ledger /\ wasGp' = r.gp /\ wasGas' = cum
        /\ wasTxs' = Append(wasTxs, t)
        /\ wasReceipts' = Append(wasReceipts,
                                 [tx |-> t, root |-> r.ledger,
                                  failed |-> t.fails, cum |-> cum])
        /\ UNCHANGED <<db, faults, history>>

applyTransaction ==
    /\ pc = "apply"
    /\ next <= Len(cur.txs)
    /\ LET t == cur.txs[next] IN SkipTx(t) \/ RejectTx(t) \/ ExecuteTx(t)
    /\ next' = next + 1
    /\ UNCHANGED <<ethState, pool, blockIndex, genesis, pc, job, cur,
                   deliveries, crashes>>

EndOfBlock ==
    /\ pc = "apply"
    /\ next > Len(cur.txs)
    /\ pc' = "trie"
    /\ UNCHANGED <<db, mem, job, cur, next, env, history>>

-----------------------------------------------------------------------------
(* State.Commit: was.Commit writes the trie, the root, the head, the         *)
(* transactions and the receipts, in this order and each on its own; then    *)
(* the three in-memory states are reset to the new root.  A reset cannot     *)
(* fail: StateDB.Commit has just put the trie in the cache the three share.  *)

\* Mutant: StateDB.Commit without TrieDB().Commit, the trie stays in memory.
CommitTrie_InMemory ==
    /\ pc = "trie"
    /\ pc' = "root"
    /\ UNCHANGED <<db, mem, job, cur, next, env, history>>

\* Mutant: readers get the new state before the root is written.
CommitTrie_ShowEarly ==
    /\ pc = "trie"
    /\ dbTries' = dbTries \cup {wasState}
    /\ ethState' = wasState
    /\ pc' = "root"
    /\ UNCHANGED <<dbRoot, dbHead, dbTxs, dbReceipts, dbErrors, dbByHash, dbById,
                   was, pool, blockIndex, genesis, job, cur, next, env, history>>

CommitTrie ==
    /\ pc = "trie"
    /\ dbTries' = dbTries \cup {wasState}
    /\ pc' = "root"
    /\ UNCHANGED <<dbRoot, dbHead, dbTxs, dbReceipts, dbErrors, dbByHash, dbById,
                   mem, job, cur, next, env, history>>

\* Mutant: the root key is not updated.
writeRoot_Stale ==
    /\ pc = "root"
    /\ pc' = "head"
    /\ UNCHANGED <<db, mem, job, cur, next, env, history>>

writeRoot ==
    /\ pc = "root"
    /\ dbRoot' = wasState
    /\ durable' = durable \cup Range(wasTxs)
    /\ pc' = "head"
    /\ UNCHANGED <<dbTries, dbHead, dbTxs, dbReceipts, dbErrors, dbByHash, dbById,
                   mem, job, cur, next, env, completed, dropped>>

writeHead ==
    /\ pc = "head"
    /\ dbHead' = IF wasTxs = <<>> THEN Nothing ELSE wasTxs[Len(wasTxs)]
    /\ pc' = "txs"
    /\ UNCHANGED <<dbRoot, dbTries, dbTxs, dbReceipts, dbErrors, dbByHash, dbById,
                   mem, job, cur, next, env, history>>

\* Mutant: only the transaction at the head is written.
writeTransactions_HeadOnly ==
    /\ pc = "txs"
    /\ dbTxs' = dbTxs \cup (IF wasTxs = <<>> THEN {} ELSE {wasTxs[Len(wasTxs)]})
    /\ pc' = "receipts"
    /\ UNCHANGED <<dbRoot, dbTries, dbHead, dbReceipts, dbErrors, dbByHash, dbById,
                   mem, job, cur, next, env, history>>

writeTransactions ==
    /\ pc = "txs"
    /\ dbTxs' = dbTxs \cup Range(wasTxs)
    /\ pc' = "receipts"
    /\ UNCHANGED <<dbRoot, dbTries, dbHead, dbReceipts, dbErrors, dbByHash, dbById,
                   mem, job, cur, next, env, history>>

\* Mutant: the batch is reset in the loop, only the last receipt is put.
PutReceipts_LastOnly(old, rs) ==
    [t \in Tx |-> IF rs # <<>> /\ rs[Len(rs)].tx = t THEN rs[Len(rs)]
                  ELSE old[t]]

\* The batch puts the receipts in order: of two under one key the last wins.
PutReceipts(old, rs) ==
    [t \in Tx |->
       IF \E i \in DOMAIN rs : rs[i].tx = t
       THEN rs[CHOOSE i \in DOMAIN rs :
                 /\ rs[i].tx = t
                 /\ \A j \in DOMAIN rs : rs[j].tx = t => j <= i]
       ELSE old[t]]

writeReceipts ==
    /\ pc = "receipts"
    /\ dbReceipts' = PutReceipts(dbReceipts, wasReceipts)
    /\ pc' = "resetEth"
    /\ UNCHANGED <<dbRoot, dbTries, dbHead, dbTxs, dbErrors, dbByHash, dbById,
                   mem, job, cur, next, env, history>>

ResetEthState ==
    /\ pc = "resetEth"
    /\ ethState' = wasState
    /\ pc' = "resetWas"
    /\ UNCHANGED <<db, was, pool, blockIndex, genesis, job, cur, next, env,
                   history>>

\* Mutant: the receipts of the last commit stay in the WAS.
ResetWAS_KeepReceipts ==
    /\ pc = "resetWas"
    /\ wasTxs' = <<>> /\ wasGas' = 0 /\ wasGp' = GasLimit
    /\ pc' = "resetPool"
    /\ UNCHANGED <<db, ethState, wasState, wasReceipts, pool, blockIndex,
                   genesis, job, cur, next, env, history>>

ResetWAS ==
    /\ pc = "resetWas"
    /\ SetCleanWAS(wasState)
    /\ pc' = "resetPool"
    /\ UNCHANGED <<db, ethState, pool, blockIndex, genesis, job, cur, next,
                   env, history>>

\* The last step of Commit: the operation returns and the mutex is free.
ResetTxPool ==
    /\ pc = "resetPool"
    /\ poolState' = wasState /\ poolGp' = GasLimit
    /\ completed' = IF job = "block" THEN completed \cup {cur} ELSE completed
    /\ pc' = "idle" /\ job' = "none"
    /\ UNCHANGED <<db, ethState, was, blockIndex, genesis, cur, next, env,
                   durable, dropped>>

\* Mutant: a failed genesis commit is tried again instead of ending the process.
WriteFails_RetryGenesis ==
    /\ pc \in {"putHash", "putIndex", "trie", "root", "head", "txs", "receipts"}
    /\ faults < MaxFaults
    /\ faults' = faults + 1
    /\ pc' = "idle" /\ job' = "none"
    /\ genesis' = IF job = "genesis" THEN "pending" ELSE genesis
    /\ UNCHANGED <<db, ethState, was, pool, blockIndex, cur, next, deliveries,
                   crashes, history>>

\* Mutant: the WAS is thrown away when a write fails.
WriteFails_ResetWAS ==
    /\ pc \in {"putHash", "putIndex", "trie", "root", "head", "txs", "receipts"}
    /\ faults < MaxFaults
    /\ faults' = faults + 1
    /\ pc' = IF job = "genesis" THEN "down" ELSE "idle"
    /\ job' = "none"
    /\ SetCleanWAS(dbRoot)
    /\ UNCHANGED <<db, ethState, pool, blockIndex, genesis, cur, next, deliveries,
                   crashes, history>>

\* A write fails.  ProcessBlock returns the error to the engine and leaves the
\* WAS as it is; after CreateAccounts, Service.checkErr ends the process.
WriteFails ==
    /\ pc \in {"putHash", "putIndex", "trie", "root", "head", "txs", "receipts"}
    /\ faults < MaxFaults
    /\ faults' = faults + 1
    /\ pc' = IF job = "genesis" THEN "down" ELSE "idle"
    /\ job' = "none"
    /\ UNCHANGED <<db, mem, cur, next, deliveries, crashes, history>>

-----------------------------------------------------------------------------
(* Operations without the mutex *)

\* TxPool.CheckTx.  Before the pool's first Reset the gas pool is nil and the
\* call panics before it has changed anything.
CheckTx(t) ==
    /\ pc # "down"
    /\ t.signed
    /\ poolGp # NilGas
    /\ LET r == ApplyMessage(poolState, poolGp, t)
       IN  poolState' = r.ledger /\ poolGp' = r.gp
    /\ UNCHANGED <<db, ethState, was, blockIndex, genesis, pc, job, cur, next,
                   env, history>>

\* The lookups in the database: whether they find anything.
GetBlock(b) == b \in dbByHash
GetBlockById(i) == dbById[i] # Nothing
GetTransaction(t) == t \in dbTxs
GetReceipt(t) == dbReceipts[t] # Nothing
GetFailedTx(t) == t \in dbErrors

\* Mutant: the error record is looked up first.
TxStatus_ErrorFirst(t) ==
    CASE GetFailedTx(t) -> "failed"
      [] ~GetFailedTx(t) /\ GetTransaction(t) /\ GetReceipt(t) -> "receipt"
      [] OTHER -> "httpError"

\* How the receipt endpoints combine them: the stored transaction and then its
\* receipt, or else the recorded error.
TxStatus(t) ==
    CASE GetTransaction(t) /\ GetReceipt(t) -> "receipt"
      [] GetTransaction(t) /\ ~GetReceipt(t) -> "httpError"
      [] ~GetTransaction(t) /\ GetFailedTx(t) -> "failed"
      [] OTHER -> "httpError"

\* A block is shown only if every transaction in it decodes and has a status.
BlockShown(b) ==
    \A i \in DOMAIN b.txs :
        b.txs[i] # Garbage /\ TxStatus(b.txs[i]) # "httpError"

\* The two block endpoints answer (with anything but an HTTP error).
blockByHashHandler(b) == GetBlock(b) /\ BlockShown(b)
blockByIdHandler(i) == GetBlockById(i) /\ BlockShown(dbById[i])

-----------------------------------------------------------------------------
CommitStep ==
    \/ CommitTrie \/ writeRoot \/ writeHead \/ writeTransactions
    \/ writeReceipts \/ ResetEthState \/ ResetWAS \/ ResetTxPool

Next ==
    \/ NewState
    \/ CreateAccounts
    \/ \E b \in Blocks : ProcessBlock(b)
    \/ PutBlockByHash
    \/ PutBlockById
    \/ applyTransaction
    \/ EndOfBlock
    \/ CommitStep
    \/ WriteFails
    \/ Crash
    \/ \E t \in PoolTxs : CheckTx(t)

Spec == Init /\ [][Next]_vars

-----------------------------------------------------------------------------
(* Correctness *)

\* The root key never names a state whose trie is not on disk: after a crash at
\* any point, and after any failing write, InitState can load the root.  The
\* order of TrieDB().Commit and writeRoot in was.Commit is what this rests on.
RootLoadable == dbRoot \in dbTries

\* Replay protection.  However often a block is delivered, and wherever the
\* process crashes, the stored transactions of an account have distinct nonces,
\* all below the account's nonce in the durable state: none of them can be
\* executed again.  A stored receipt always comes with its transaction.
AppliedAtMostOnce ==
    /\ \A t \in dbTxs : t.nonce < dbRoot[t.from].nonce
    /\ \A t, u \in dbTxs : t.from = u.from /\ t.nonce = u.nonce => t = u
    /\ \A t \in Tx : dbReceipts[t] # Nothing => t \in dbTxs

\* What GetBalance shows (ethState is read without the mutex, at any moment of
\* a commit) is never ahead of the database: a crash cannot take back a
\* transaction whose effect a client has seen.
VisibleIsDurable ==
    pc # "down" => \A a \in Addr : ethState[a].nonce <= dbRoot[a].nonce

\* Once the receipt endpoints have answered with a receipt they answer with
\* that receipt for ever: redelivery, restarts and failing writes included.
ReceiptStable ==
    [][\A t \in Tx : TxStatus(t) = "receipt" =>
          TxStatus(t)' = "receipt" /\ dbReceipts'[t] = dbReceipts[t]]_vars

\* Every well-formed transaction of a block that ProcessBlock returned without
\* an error has left its receipt or its error record behind, for good: across
\* later failing commits, crashes and redeliveries of the block (unless the
\* write of the error record failed, which the code only logs).
CompletedBlockRecorded ==
    \A b \in completed : \A i \in DOMAIN b.txs :
        \/ Malformed(b.txs[i])
        \/ b.txs[i] \in dropped \cup dbErrors
        \/ dbReceipts[b.txs[i]] # Nothing

\* The genesis file is all the Ether there is: neither a restart, nor a failed
\* genesis commit, nor a replayed block credits an allocation or a transfer
\* twice.  (It is not an equality: a rejected transaction burns its gas.)
SupplyBounded ==
    SumFunction([a \in Addr |-> dbRoot[a].balance]) <= SumFunction(Alloc)

\* "When a transaction is applied to the EVM, a receipt is saved to allow
\* checking if/how the transaction affected the state" (http_handlers.go): a
\* transaction whose effect is in the durable state has its receipt, or the
\* WAS still holds it for the next commit to write.
AppliedHasReceipt ==
    \A t \in durable :
        \/ dbReceipts[t] # Nothing
        \/ pc # "down" /\ t \in Range(wasTxs)

\* With nothing pending, the block endpoints answer for every block that was
\* processed without an error, after however many failing commits and
\* redeliveries, provided its transactions are well-formed and the error
\* records of the rejected ones were written.  (While a commit is pending, a
\* stored transaction may lack its receipt and the endpoints refuse the block.)
SettledBlockAnswered ==
    pc = "idle" /\ wasTxs = <<>> =>
        \A b \in completed :
            (\A i \in DOMAIN b.txs : ~Malformed(b.txs[i]) /\ b.txs[i] \notin dropped)
            => /\ blockByHashHandler(b)
               /\ dbById[b.index] = b => blockByIdHandler(b.index)

\* "predefine a set of accounts that own all the initial Ether at the inception
\* of the network" (README.md): when CreateAccounts has returned, every
\* allocated account has been given its allocation, so that the durable supply
\* is the allocation (checked where no transaction is rejected after paying).
GenesisHonoured ==
    genesis = "done" /\ pc = "idle" =>
        SumFunction([a \in Addr |-> dbRoot[a].balance]) = SumFunction(Alloc)

-----------------------------------------------------------------------------
(* The abstract specification and the inductive invariant *)

TL == INSTANCE TxLedger WITH nonce <- [a \in Addr |-> dbRoot[a].nonce],
                             stored <- dbTxs, receipt <- dbReceipts

\* The database keeps the promises of TxLedger through every interleaving of
\* deliveries, failing writes, crashes and restarts.
RefinesTxLedger == TL!Spec

SameSlot(t, u) == t.from = u.from /\ t.nonce = u.nonce

\* Once the root is written, and until the operation ends, the WAS and the
\* database hold the same ledger.
AfterRoot == {"head", "txs", "receipts", "resetEth", "resetWas", "resetPool"}

\* Nonces grow from what readers see, to what is durable, to the WAS.
Levels ==
    /\ pc # "down" => \A a \in Addr :
           /\ ethState[a].nonce <= dbRoot[a].nonce
           /\ dbRoot[a].nonce <= wasState[a].nonce
    /\ pc \in AfterRoot => wasState = dbRoot

\* Pending transactions are behind the WAS's nonces, in distinct slots, and
\* each has its receipt at the same position.
Pending ==
    pc # "down" =>
        /\ DOMAIN wasReceipts = DOMAIN wasTxs
        /\ \A i \in DOMAIN wasTxs :
              /\ wasTxs[i].nonce < wasState[wasTxs[i].from].nonce
              /\ wasReceipts[i].tx = wasTxs[i]
        /\ \A i, j \in DOMAIN wasTxs : SameSlot(wasTxs[i], wasTxs[j]) => i = j

\* A pending transaction that is already in the database (its commit failed
\* half way) is there as itself and with the receipt that is pending.
PendingAgrees ==
    pc # "down" =>
        \A i \in DOMAIN wasTxs :
            /\ \A t \in dbTxs : SameSlot(t, wasTxs[i]) => t = wasTxs[i]
            /\ \/ dbReceipts[wasTxs[i]] = Nothing
               \/ dbReceipts[wasTxs[i]] = wasReceipts[i]
            /\ pc \in {"receipts", "resetEth", "resetWas"} => wasTxs[i] \in dbTxs

TrieFirst == RootLoadable /\ (pc = "root" => wasState \in dbTries)

InBlock == {"apply", "trie", "root", "head", "txs", "receipts"}

\* What has been done with the transactions ProcessBlock has gone through.
Progress ==
    pc \notin {"down", "idle"} /\ job = "block" =>
        /\ cur \in Blocks /\ next >= 1
        /\ pc \in {"putHash", "putIndex"} => next = 1
        /\ pc \notin {"putHash", "putIndex", "apply"} => next > Len(cur.txs)
        /\ \A k \in DOMAIN cur.txs : k < next =>
              \/ Malformed(cur.txs[k])
              \/ cur.txs[k] \in dropped \cup dbErrors
              \/ dbReceipts[cur.txs[k]] # Nothing
              \/ pc \in InBlock /\ \E i \in DOMAIN wasTxs : wasTxs[i] = cur.txs[k]

\* Which operation is at which step.
Control ==
    /\ pc \in {"putHash", "putIndex", "apply"} => job = "block"
    /\ pc \notin {"down", "idle"} => job \in {"block", "genesis"}

\* The inductive invariant behind the safety properties above.
IInv ==
    /\ TypeOK /\ Control /\ Levels /\ Pending /\ PendingAgrees /\ TrieFirst
    /\ Progress /\ AppliedAtMostOnce /\ CompletedBlockRecorded
=============================================================================
