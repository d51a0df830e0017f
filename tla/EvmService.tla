----------------------------- MODULE EvmService -----------------------------
(***************************************************************************)
(* src/service (the HTTP API) between its clients and the engine loop of   *)
(* src/engine or the consensus adapter of src/consensus.  Every request is *)
(* a goroutine of net/http; makeHandler runs it under the Service's mutex, *)
(* and a handler that submits a transaction keeps that mutex while it      *)
(* waits for the engine to receive from the unbuffered submitCh.  The      *)
(* engine is one goroutine: while it processes a block it receives nothing.*)
(*                                                                         *)
(* Of the State only the nonces are kept (EvmState has the rest): those of *)
(* the write-ahead state, the committed ones, and those of the pool's      *)
(* StateDB, which the handlers read without commitMutex while the engine   *)
(* resets it.  Web3Api adds the other callers of the Service, which do not *)
(* take its mutex.                                                         *)
(***************************************************************************)
EXTENDS Integers, Sequences, FiniteSets, Functions

CONSTANTS Addr,        \* the accounts
          Controlled,  \* the accounts in the keystore when the node starts
          Scenarios,   \* what a behaviour starts from: the system that runs, the
                       \* requests clients send, each once, and the transactions
                       \* other nodes have given to consensus
          MaxBlockTxs, \* bound: transactions in one block
          MaxLost,     \* bound: transactions that SubmitTx or raft does not pass on
          MaxFaults,   \* bound: writes of ProcessBlock and Commit that fail
          Free,        \* no holder of a mutex
          Engine,      \* the engine's goroutine, and Service.Run's, as holders
          Genesis,     \* of commitMutex
          Unset        \* an absent field, transaction or cache entry

\* "socket" is SocketEngine (`evm run`) and "inmem" InmemEngine, which process
\* blocks; the others are the adapters that a ConsensusEngine runs.
BlockSystems == {"socket", "inmem"}
AllSystems == BlockSystems \cup {"solo", "raft", "lachesis"}

Requests == UNION {s.requests : s \in Scenarios}

Ops == {"account", "lookup", "call", "tx", "rawtx", "info"}

\* bad: the body does not decode (JSON, or hex for rawtx).  data, to, nonce:
\* the optional fields of SendTxArgs.  For rawtx, data says that the bytes
\* RLP-decode, and from and nonce are those of the transaction in them.
Request == [id : Nat, op : Ops, bad : BOOLEAN, data : BOOLEAN, to : BOOLEAN,
            from : Addr, nonce : Nat \cup {Unset}]

Tx == [id : Nat, from : Addr, nonce : Nat, decodes : BOOLEAN]

ASSUME ServiceAssumption ==
    /\ Controlled \subseteq Addr
    /\ \A s \in Scenarios :
          /\ s.system \in AllSystems
          /\ s.requests \subseteq Request
          /\ s.foreign \subseteq Tx
          /\ s.system = "solo" => s.foreign = {}
          /\ \A q, r \in s.requests : q.id = r.id => q = r
          /\ \A q \in s.requests : q.op = "rawtx" => q.nonce # Unset
          /\ \A t \in s.foreign : \A q \in s.requests : q.id # t.id
    /\ MaxBlockTxs \in Nat \ {0} /\ MaxLost \in Nat /\ MaxFaults \in Nat
    /\ Unset \notin Nat /\ Unset \notin Tx
    /\ Cardinality({Free, Engine, Genesis}) = 3
    /\ {Free, Engine, Genesis} \cap Requests = {}

VARIABLES
    system,    \* the system that runs
    run,       \* where Service.Run is
    keystore,  \* the accounts in the keystore and how their keys are unlocked
    mu,        \* Service.Mutex: its holder
    st,        \* where each request is
    txOf,      \* the transaction a request has prepared
    seen,      \* the nonce GetPoolNonce has read from the trie and not cached
    commitMu,  \* State.commitMutex: its holder
    eng,       \* where the engine's loop is
    inHand,    \* the transaction it has received
    block,     \* the block it processes
    ordered,   \* transactions consensus has and has not yet put in a block
    lost,      \* transactions that SubmitTx, raft or storing their block failed on
    applied,   \* transactions that applyTransaction has executed or rejected
    skipped,   \* transactions that were delivered and not applied
    nonce,     \* the nonces of the last commit that succeeded
    wasNonce,  \* the nonces of the write-ahead state
    poolTrie,  \* the nonces in the trie of txPool.ethState
    poolCache, \* the objects that StateDB has cached
    faults     \* how many writes have failed

state == <<nonce, wasNonce, poolTrie, poolCache, faults>>
engine == <<eng, inHand, block, ordered, lost, applied, skipped>>
client == <<mu, st, txOf, seen>>
node == <<system, run, keystore>>
vars == <<node, client, commitMu, engine, state>>

KeyStates == {"absent", "locked", "timed", "forever"}
Unlocked(a) == keystore[a] \in {"timed", "forever"}

\* "absent": not a request of this scenario.
Phases == {"absent", "idle", "waiting", "handling", "calling", "executing", "reading",
           "sending", "answering", "answered", "empty", "error", "panicked"}

TypeOK ==
    /\ system \in AllSystems
    /\ run \in {"keystore", "genesis", "creating", "rpc", "serving", "exited"}
    /\ keystore \in [Addr -> KeyStates]
    /\ mu \in Requests \cup {Free}
    /\ st \in [Requests -> Phases]
    /\ txOf \in [Requests -> Tx \cup {Unset}]
    /\ seen \in [Requests -> Nat \cup {Unset}]
    /\ commitMu \in Requests \cup {Free, Engine, Genesis}
    /\ eng \in {"select", "submit", "commit", "process", "reset",
               "soloCommit", "future"}
    /\ inHand \in Tx \cup {Unset}
    /\ block \in Seq(Tx)
    /\ ordered \subseteq Tx
    /\ lost \subseteq Tx
    /\ applied \subseteq Tx
    /\ skipped \subseteq Tx
    /\ nonce \in [Addr -> Nat]
    /\ wasNonce \in [Addr -> Nat]
    /\ poolTrie \in [Addr -> Nat]
    /\ poolCache \in [Addr -> Nat \cup {Unset}]
    /\ faults \in 0..MaxFaults

InitFrom(s) ==
    /\ system = s.system
    /\ run = "keystore"
    /\ keystore = [a \in Addr |-> IF a \in Controlled THEN "locked" ELSE "absent"]
    /\ mu = Free
    /\ st = [q \in Requests |-> IF q \in s.requests THEN "idle" ELSE "absent"]
    /\ txOf = [q \in Requests |-> Unset]
    /\ seen = [q \in Requests |-> Unset]
    /\ commitMu = Free
    /\ eng = "select" /\ inHand = Unset /\ block = <<>>
    /\ ordered = s.foreign /\ lost = {} /\ applied = {} /\ skipped = {}
    /\ nonce = [a \in Addr |-> 0]
    /\ wasNonce = [a \in Addr |-> 0]
    /\ poolTrie = [a \in Addr |-> 0]
    /\ poolCache = [a \in Addr |-> Unset]
    /\ faults = 0

Init == \E s \in Scenarios : InitFrom(s)

-----------------------------------------------------------------------------
(* Service.Run: keystore, genesis, web3 server, HTTP server.  Any of them    *)
(* may fail, and then the process ends (checkErr, panic).                    *)

\* makeKeyStore and unlockAccounts: every account is unlocked for good.
OpenKeyStore ==
    /\ run = "keystore"
    /\ \/ /\ run' = "genesis"
          /\ keystore' = [a \in Addr |-> IF a \in Controlled THEN "forever"
                                         ELSE "absent"]
       \/ run' = "exited" /\ UNCHANGED keystore
    /\ UNCHANGED <<system, client, commitMu, engine, state>>

\* TxPool.Reset: a new trie and an empty cache.
ResetPool ==
    /\ poolTrie' = wasNonce
    /\ poolCache' = [a \in Addr |-> Unset]

\* State.Commit, with what the write-ahead state has: earlier blocks whose commit
\* has failed are in it too.
CommitSucceeds == nonce' = wasNonce /\ ResetPool /\ UNCHANGED faults

\* One of its writes fails: nothing is reset, and the write-ahead state keeps what
\* it has for the next commit.
CommitFails ==
    /\ faults < MaxFaults
    /\ faults' = faults + 1
    /\ UNCHANGED <<nonce, poolTrie, poolCache>>

Commit == CommitSucceeds \/ CommitFails

\* CreateAccounts takes commitMutex for a commit of its own, if there is a genesis
\* file.
BeginGenesis ==
    /\ run = "genesis"
    /\ \/ commitMu = Free /\ commitMu' = Genesis /\ run' = "creating"
       \/ run' = "rpc" /\ UNCHANGED commitMu
    /\ UNCHANGED <<system, keystore, client, engine, state>>

createGenesisAccounts ==
    /\ run = "creating"
    /\ commitMu' = Free
    /\ \/ run' = "rpc" /\ CommitSucceeds
       \/ run' = "exited" /\ UNCHANGED <<nonce, poolTrie, poolCache, faults>>
    /\ UNCHANGED <<system, keystore, client, engine, wasNonce>>

StartServers ==
    /\ run = "rpc"
    /\ run' \in {"serving", "exited"}
    /\ UNCHANGED <<system, keystore, client, commitMu, engine, state>>

-----------------------------------------------------------------------------
(* Requests *)

Alive == run # "exited"

Arrive(q) ==
    /\ run = "serving"
    /\ st[q] = "idle"
    /\ st' = [st EXCEPT ![q] = "waiting"]
    /\ UNCHANGED <<node, mu, txOf, seen, commitMu, engine, state>>

\* makeHandler: Lock, the handler, Unlock.
makeHandler(q) ==
    /\ Alive
    /\ st[q] = "waiting"
    /\ mu = Free
    /\ mu' = q
    /\ st' = [st EXCEPT ![q] = "handling"]
    /\ UNCHANGED <<node, txOf, seen, commitMu, engine, state>>

Handling(q, op) == Alive /\ st[q] = "handling" /\ q.op = op

\* Mutant: a return that skips the Unlock.
Return_NoUnlock(q, outcome) ==
    /\ st' = [st EXCEPT ![q] = outcome]
    /\ UNCHANGED mu

\* The handler returns with the given outcome and the mutex is unlocked.
Return(q, outcome) ==
    /\ st' = [st EXCEPT ![q] = outcome]
    /\ mu' = Free

\* The handler panics.  net/http recovers the goroutine; the Unlock that
\* follows the call is not deferred, so it is skipped.
Panic(q) ==
    /\ st' = [st EXCEPT ![q] = "panicked"]
    /\ UNCHANGED mu

accountHandler(q) ==
    /\ Handling(q, "account")
    /\ Return(q, "answered")
    /\ UNCHANGED <<node, txOf, seen, commitMu, engine, state>>

\* The block and receipt endpoints: found or not (EvmState says which).
lookupHandler(q) ==
    /\ Handling(q, "lookup")
    /\ \/ Return(q, "answered")
       \/ Return(q, "error")
    /\ UNCHANGED <<node, txOf, seen, commitMu, engine, state>>

\* NewConsensusEngine calls SetInfoCallback; no other engine does.
HasInfo == system \notin BlockSystems

\* m.getInfo is a nil function unless a callback has been set.
infoHandler(q) ==
    /\ Handling(q, "info")
    /\ IF HasInfo THEN Return(q, "answered") \/ Return(q, "error") ELSE Panic(q)
    /\ UNCHANGED <<node, txOf, seen, commitMu, engine, state>>

\* prepareCallMessage dereferences args.Data.
prepareCallMessage(q) ==
    \/ ~q.data /\ Panic(q)
    \/ q.data /\ st' = [st EXCEPT ![q] = "calling"] /\ UNCHANGED mu

\* callHandler up to State.Call.
callHandler(q) ==
    /\ Handling(q, "call")
    /\ \/ q.bad /\ Return(q, "error")
       \/ ~q.bad /\ prepareCallMessage(q)
    /\ UNCHANGED <<node, txOf, seen, commitMu, engine, state>>

LockForCall(q) ==
    /\ Alive
    /\ st[q] = "calling"
    /\ commitMu = Free
    /\ commitMu' = q
    /\ st' = [st EXCEPT ![q] = "executing"]
    /\ UNCHANGED <<node, mu, txOf, seen, engine, state>>

\* Mutant: commitMutex is not released by a defer.
Call_NoDefer(q) ==
    /\ Alive
    /\ st[q] = "executing"
    /\ IF q.to THEN commitMu' = Free /\ Return(q, "answered")
       ELSE UNCHANGED commitMu /\ Panic(q)
    /\ UNCHANGED <<node, txOf, seen, engine, state>>

\* State.Call logs callMsg.To().Hex(), which panics without a recipient; its
\* own mutex is released by a defer.
Call(q) ==
    /\ Alive
    /\ st[q] = "executing"
    /\ commitMu' = Free
    /\ IF q.to THEN Return(q, "answered") \/ Return(q, "error") ELSE Panic(q)
    /\ UNCHANGED <<node, txOf, seen, engine, state>>

Prepared(q, n) ==
    [id |-> q.id, from |-> q.from, nonce |-> n,
     decodes |-> q.op = "tx" \/ q.data]

\* Mutant: the nonce after the pool's is signed.
prepareTransaction_Next(q, n) ==
    \/ ~q.data /\ Panic(q) /\ UNCHANGED txOf
    \/ q.data /\ ~Unlocked(q.from) /\ Return(q, "error") /\ UNCHANGED txOf
    \/ /\ q.data /\ Unlocked(q.from)
       /\ txOf' = [txOf EXCEPT ![q] = Prepared(q, n + 1)]
       /\ st' = [st EXCEPT ![q] = "sending"]
       /\ UNCHANGED mu

\* prepareTransaction once the nonce n is known: args.Data is dereferenced,
\* then the account is looked up in the keystore and the transaction signed,
\* which needs its key unlocked.
prepareTransaction(q, n) ==
    \/ ~q.data /\ Panic(q) /\ UNCHANGED txOf
    \/ q.data /\ ~Unlocked(q.from) /\ Return(q, "error") /\ UNCHANGED txOf
    \/ /\ q.data /\ Unlocked(q.from)
       /\ txOf' = [txOf EXCEPT ![q] = Prepared(q, n)]
       /\ st' = [st EXCEPT ![q] = "sending"]
       /\ UNCHANGED mu

\* transactionHandler up to the send.  GetPoolNonce answers from the cache, or
\* reads the trie and then caches what it read.
transactionHandler(q) ==
    /\ Handling(q, "tx")
    /\ \/ q.bad /\ Return(q, "error") /\ UNCHANGED <<txOf, seen>>
       \/ ~q.bad /\ q.nonce # Unset /\ prepareTransaction(q, q.nonce)
          /\ UNCHANGED seen
       \/ ~q.bad /\ q.nonce = Unset /\ poolCache[q.from] # Unset
          /\ prepareTransaction(q, poolCache[q.from]) /\ UNCHANGED seen
       \/ /\ ~q.bad /\ q.nonce = Unset /\ poolCache[q.from] = Unset
          /\ seen' = [seen EXCEPT ![q] = poolTrie[q.from]]
          /\ st' = [st EXCEPT ![q] = "reading"]
          /\ UNCHANGED <<mu, txOf>>
    /\ UNCHANGED <<node, commitMu, engine, state>>

\* Mutant: the pool's nonce is advanced for a transaction that SubmitTx may lose.
GetPoolNonce_Advance(q) ==
    /\ Alive
    /\ st[q] = "reading"
    /\ poolCache' = [poolCache EXCEPT ![q.from] = seen[q] + 1]
    /\ seen' = [seen EXCEPT ![q] = Unset]
    /\ prepareTransaction(q, seen[q])
    /\ UNCHANGED <<node, commitMu, engine, nonce, wasNonce, poolTrie, faults>>

\* setStateObject: a Reset may have come between the two halves of the read,
\* and then a nonce of the old trie is cached above the new one.
GetPoolNonce(q) ==
    /\ Alive
    /\ st[q] = "reading"
    /\ poolCache' = [poolCache EXCEPT ![q.from] = seen[q]]
    /\ seen' = [seen EXCEPT ![q] = Unset]
    /\ prepareTransaction(q, seen[q])
    /\ UNCHANGED <<node, commitMu, engine, nonce, wasNonce, poolTrie, faults>>

\* rawTransactionHandler up to the send: the bytes are not decoded before it.
rawTransactionHandler(q) ==
    /\ Handling(q, "rawtx")
    /\ \/ q.bad /\ Return(q, "error") /\ UNCHANGED txOf
       \/ /\ ~q.bad
          /\ txOf' = [txOf EXCEPT ![q] = Prepared(q, q.nonce)]
          /\ st' = [st EXCEPT ![q] = "sending"]
          /\ UNCHANGED mu
    /\ UNCHANGED <<node, seen, commitMu, engine, state>>

\* Mutant: a send that gives up when the engine is busy.
Submit_NonBlocking(q) ==
    /\ Alive
    /\ st[q] = "sending"
    /\ IF eng = "select" THEN eng' = "submit" /\ inHand' = txOf[q]
       ELSE UNCHANGED <<eng, inHand>>
    /\ st' = [st EXCEPT ![q] = "answering"]
    /\ UNCHANGED <<node, mu, txOf, seen, commitMu, block, ordered, lost, applied,
                   skipped, state>>

\* submitCh is unbuffered: the send completes when the engine receives.
Submit(q) ==
    /\ Alive
    /\ st[q] = "sending"
    /\ eng = "select"
    /\ eng' = "submit"
    /\ inHand' = txOf[q]
    /\ st' = [st EXCEPT ![q] = "answering"]
    /\ UNCHANGED <<node, mu, txOf, seen, commitMu, block, ordered, lost, applied,
                   skipped, state>>

\* The rest of the two handlers: the hash, or nothing at all when the raw bytes
\* turn out not to decode.
Answer(q) ==
    /\ Alive
    /\ st[q] = "answering"
    /\ Return(q, IF txOf[q].decodes THEN "answered" ELSE "empty")
    /\ UNCHANGED <<node, txOf, seen, commitMu, engine, state>>

-----------------------------------------------------------------------------
(* The engine: serve() of SocketEngine *)

\* Mutant: the transaction is cleared before it is submitted.
SubmitTx_Cleared ==
    /\ Alive
    /\ eng = "submit"
    /\ eng' = "select" /\ inHand' = Unset
    /\ ordered' = ordered \cup {inHand'}
    /\ UNCHANGED <<node, client, commitMu, block, lost, applied, skipped, state>>

\* proxy.SubmitTx; an error is only logged.  The lachesis node, which InmemEngine
\* and the lachesis adapter hand submitCh itself, adds the transaction to its own
\* pool.
SubmitTx ==
    /\ Alive
    /\ system \in {"socket", "inmem", "lachesis"}
    /\ eng = "submit"
    /\ eng' = "select" /\ inHand' = Unset
    /\ \/ ordered' = ordered \cup {inHand} /\ UNCHANGED lost
       \/ /\ system = "socket"
          /\ Cardinality(lost) < MaxLost
          /\ lost' = lost \cup {inHand}
          /\ UNCHANGED ordered
    /\ UNCHANGED <<node, client, commitMu, block, applied, skipped, state>>

\* Consensus (external) commits some of its transactions, in any order.
Blocks(S) ==
    {b \in UNION {[1..n -> S] : n \in 1..MaxBlockTxs} :
        \A i, j \in DOMAIN b : b[i] = b[j] => i = j}

\* A block arrives: on the proxy's commitCh, or through CommitBlock of the proxy
\* of InmemEngine; both hand it to ProcessBlock.
CommitCh ==
    /\ Alive
    /\ system \in BlockSystems
    /\ eng = "select"
    /\ \E b \in Blocks(ordered) :
          /\ block' = b
          /\ ordered' = ordered \ Range(b)
    /\ eng' = "commit"
    /\ UNCHANGED <<node, client, commitMu, inHand, lost, applied, skipped, state>>

BeginProcessBlock ==
    /\ Alive
    /\ eng = "commit"
    /\ commitMu = Free
    /\ commitMu' = Engine
    /\ eng' = "process"
    /\ UNCHANGED <<node, client, inHand, block, ordered, lost, applied, skipped, state>>

\* The nonces after block b.  What does not decode is skipped; what has another
\* nonce than the account's is rejected; and of the rest only the transactions
\* that passed increment it: the others were rejected for the sender's balance, the
\* gas or the block's gas pool (EvmState has the reasons).
NoncesAfter(b, passed) ==
    LET after[i \in 0..Len(b)] ==
          IF i = 0 THEN wasNonce
          ELSE IF /\ i \in passed /\ b[i].decodes
                  /\ after[i - 1][b[i].from] = b[i].nonce
               THEN [after[i - 1] EXCEPT ![b[i].from] = @ + 1]
               ELSE after[i - 1]
    IN  after[Len(b)]

ProcessBlock ==
    /\ Alive
    /\ eng = "process"
    /\ \E passed \in SUBSET DOMAIN block : wasNonce' = NoncesAfter(block, passed)
    /\ eng' = "reset"
    /\ UNCHANGED <<node, client, commitMu, inHand, block, ordered, lost, applied,
                   skipped, nonce, poolTrie, poolCache, faults>>

\* ProcessBlock returns, whether with an error or not, and the engine responds to
\* consensus.
Respond == commitMu' = Free /\ eng' = "select" /\ block' = <<>>

\* The block cannot be stored, under its hash or its index: ProcessBlock returns
\* before it has applied anything.
StoreBlockFails ==
    /\ Alive
    /\ eng = "process"
    /\ faults < MaxFaults
    /\ faults' = faults + 1
    /\ lost' = lost \cup Range(block)
    /\ Respond
    /\ UNCHANGED <<node, client, inHand, ordered, applied, skipped, nonce, wasNonce,
                   poolTrie, poolCache>>

\* Mutant: the loop ends at the first transaction that does not decode.
EndProcessBlock_Exit ==
    LET loop == {i \in DOMAIN block : \A j \in 1..i : block[j].decodes}
    IN  /\ Alive
        /\ eng = "reset"
        /\ Commit
        /\ applied' = applied \cup {block[i] : i \in loop}
        /\ skipped' = skipped \cup {block[i] : i \in DOMAIN block \ loop}
        /\ Respond
        /\ UNCHANGED <<node, client, inHand, ordered, lost, wasNonce>>

\* The loop over the transactions does not end at one that is refused.
EndProcessBlock ==
    /\ Alive
    /\ eng = "reset"
    /\ Commit
    /\ applied' = applied \cup {t \in Range(block) : t.decodes}
    /\ skipped' = skipped \cup {t \in Range(block) : ~t.decodes}
    /\ Respond
    /\ UNCHANGED <<node, client, inHand, ordered, lost, wasNonce>>

-----------------------------------------------------------------------------
(* The consensus adapters: they call ApplyTransaction and Commit of the State *)
(* themselves, and never ProcessBlock.                                        *)

\* NewState ends with resetWAS, which replaces the write-ahead state by one that
\* has no signer: whatever decodes then panics in tx.AsMessage(was.signer), and
\* nobody recovers it.
ApplyTransaction(t) == IF t.decodes THEN "panic" ELSE "error"

\* Solo.Run commits whether the transaction was applied or not, without
\* commitMutex.
SoloApply ==
    /\ Alive
    /\ system = "solo"
    /\ eng = "submit"
    /\ IF ApplyTransaction(inHand) = "panic" THEN run' = "exited" /\ UNCHANGED eng
       ELSE eng' = "soloCommit" /\ UNCHANGED run
    /\ UNCHANGED <<system, keystore, client, commitMu, inHand, block, ordered, lost,
                   applied, skipped, state>>

SoloCommit ==
    /\ Alive
    /\ eng = "soloCommit"
    /\ Commit
    /\ skipped' = skipped \cup {inHand}
    /\ eng' = "select" /\ inHand' = Unset
    /\ UNCHANGED <<node, client, commitMu, block, ordered, lost, applied, wasNonce>>

\* Raft.Run drops the transaction when the node is not the leader or the log
\* does not take it in time; else it waits for the future.
RaftRelay ==
    /\ Alive
    /\ system = "raft"
    /\ eng = "submit"
    /\ \/ /\ Cardinality(lost) < MaxLost
          /\ lost' = lost \cup {inHand}
          /\ eng' = "select" /\ inHand' = Unset
          /\ UNCHANGED ordered
       \/ /\ ordered' = ordered \cup {inHand}
          /\ eng' = "future"
          /\ UNCHANGED <<lost, inHand>>
    /\ UNCHANGED <<node, client, commitMu, block, applied, skipped, state>>

\* The future of raftNode.Apply: the entry has been applied, or the leadership
\* was lost and the next leader has the entry or has not.
RaftFuture ==
    /\ Alive
    /\ eng = "future"
    /\ \/ inHand \in skipped \cup ordered /\ UNCHANGED <<ordered, lost>>
       \/ /\ inHand \in ordered /\ Cardinality(lost) < MaxLost
          /\ ordered' = ordered \ {inHand}
          /\ lost' = lost \cup {inHand}
    /\ eng' = "select" /\ inHand' = Unset
    /\ UNCHANGED <<node, client, commitMu, block, applied, skipped, state>>

\* FSM.Apply, in a goroutine of raft: it returns before Commit when the
\* transaction is refused.
FSMApply ==
    /\ Alive
    /\ system = "raft"
    /\ \E t \in ordered :
          IF ApplyTransaction(t) = "panic"
          THEN run' = "exited" /\ UNCHANGED <<ordered, skipped>>
          ELSE /\ ordered' = ordered \ {t}
               /\ skipped' = skipped \cup {t}
               /\ UNCHANGED run
    /\ UNCHANGED <<system, keystore, client, commitMu, eng, inHand, block, lost,
                   applied, state>>

\* CommitBlock of the lachesis proxy returns at the first transaction that is
\* refused, without Commit, and nobody has the rest of the block then; with the
\* panic above, the first one decides.
CommitBlock ==
    /\ Alive
    /\ system = "lachesis"
    /\ eng = "select"
    /\ \E b \in Blocks(ordered) :
          IF ApplyTransaction(b[1]) = "panic"
          THEN run' = "exited" /\ UNCHANGED <<ordered, skipped>>
          ELSE /\ ordered' = ordered \ Range(b)
               /\ skipped' = skipped \cup Range(b)
               /\ UNCHANGED run
    /\ UNCHANGED <<system, keystore, client, commitMu, eng, inHand, block, lost,
                   applied, state>>

-----------------------------------------------------------------------------
Handler(q) ==
    \/ makeHandler(q) \/ accountHandler(q) \/ lookupHandler(q) \/ infoHandler(q)
    \/ callHandler(q) \/ LockForCall(q) \/ Call(q) \/ transactionHandler(q)
    \/ GetPoolNonce(q) \/ rawTransactionHandler(q) \/ Submit(q) \/ Answer(q)

\* The goroutine that receives from submitCh, and the one that applies what
\* raft or lachesis has ordered.
serve ==
    \/ SubmitTx \/ CommitCh \/ BeginProcessBlock \/ ProcessBlock
    \/ StoreBlockFails \/ EndProcessBlock
    \/ SoloApply \/ SoloCommit \/ RaftRelay \/ RaftFuture

deliver == FSMApply \/ CommitBlock

Run == OpenKeyStore \/ BeginGenesis \/ createGenesisAccounts \/ StartServers

Next ==
    \/ Run
    \/ \E q \in Requests : Arrive(q) \/ Handler(q)
    \/ serve
    \/ deliver

\* Goroutines that can run do run, a mutex that stays free is acquired, a
\* select that stays ready is taken, and consensus goes on making blocks.  A
\* request takes finitely many steps, so that fairness to all of them together
\* is as good as fairness to each.
Fairness ==
    /\ WF_vars(Run)
    /\ WF_vars(serve)
    /\ WF_vars(deliver)
    /\ WF_vars(\E q \in Requests : Handler(q))

Spec == Init /\ [][Next]_vars /\ Fairness

-----------------------------------------------------------------------------
(* Correctness *)

Done == {"answered", "empty", "error"}

\* Not under way: the request is not sent yet or has been answered.
AtRest(q) == st[q] \in {"absent", "idle"} \cup Done

\* Every request is answered: the mutex, commitMutex and the rendezvous with
\* the engine never make a handler, the engine and a block wait on each other.
\* (A request is sent once, so each of them is answered exactly when again and
\* again none is under way, or the process has ended: an adapter's ApplyTransaction
\* has panicked.)
EveryRequestAnswered == []<>(~Alive \/ \A q \in Requests : AtRest(q))

\* The places a transaction is in.
PlacesOf(t) ==
    LET InHand == IF eng \in {"submit", "soloCommit"} THEN {inHand} ELSE {}
    IN  Cardinality({p \in 1..6 :
            t \in <<InHand, lost, ordered, Range(block), applied, skipped>>[p]})

\* A transaction is never duplicated or dropped on its way: once the engine has
\* received it, and so once a client has its hash, it is in exactly one place: in
\* the hand of the engine or adapter, lost (a failing SubmitTx, a raft node without
\* the lead, a block that cannot be stored), with consensus, in the block being
\* processed, applied, or delivered without being applied.
InOnePlace ==
    \A q \in Requests :
        st[q] \in {"answering", "answered", "empty"} /\ txOf[q] # Unset =>
            PlacesOf(txOf[q]) = 1

\* "Block is valid, don't exit just because of transactions" (state.go): nothing that
\* decodes is delivered without being applied because of another transaction of its
\* block; except by CommitBlock of the lachesis adapter, which has no such rule, and
\* there only when it has refused another one.
SkippedWithCause ==
    \A t \in skipped :
        t.decodes => system = "lachesis" /\ \E u \in skipped : ~u.decodes

\* A handler that panics, even inside State.Call, never stops the engine: again
\* and again everything that consensus has ordered is processed, unless the
\* process ends (the start fails, or an adapter's ApplyTransaction panics).
BlocksGoOn == []<>((ordered = {} /\ block = <<>>) \/ ~Alive)

\* The nonce that GetPoolNonce answers.
PoolNonce(a) == IF poolCache[a] = Unset THEN poolTrie[a] ELSE poolCache[a]

\* No account is ever stuck behind a nonce nobody will use: a transaction that
\* the service has given its nonce and that consensus has taken is eventually dealt
\* with, and then its nonce has been used or, when it was rejected without that, is
\* the next one again, in the write-ahead state and for the next /tx; whatever
\* SubmitTx, a commit or another transaction's rejection has lost before.
NonceUsedOrFree ==
    \A q \in {r \in Requests : r.op = "tx" /\ r.nonce = Unset} :
        (txOf[q] # Unset /\ txOf[q] \in ordered)
            ~> \/ ~Alive
               \/ /\ txOf[q] # Unset /\ txOf[q] \in applied \cup skipped \cup lost
                  /\ \/ txOf[q].nonce < wasNonce[q.from]
                     \/ txOf[q].nonce = wasNonce[q.from] /\ PoolNonce(q.from) = wasNonce[q.from]

\* The service never signs a nonce that the account has not reached, even when
\* it reads the pool while a commit resets it: such a transaction would be
\* rejected for good.
NonceNotAhead ==
    \A q \in Requests :
        q.nonce = Unset /\ txOf[q] # Unset => txOf[q].nonce <= nonce[q.from]

\* "ApplyTransaction decodes a transaction and applies it to the WAS. It is meant
\* to be called by the consensus system" (state.go), as state_test.go does: a
\* transaction that decodes and that the node has received is applied.
TakenIsApplied ==
    \A q \in Requests :
        (txOf[q] # Unset /\ txOf[q].decodes /\ inHand = txOf[q])
            ~> (txOf[q] # Unset /\ txOf[q] \in applied)

=============================================================================
