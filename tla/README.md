# A TLA+ model of go-evm

go-evm wraps the Ethereum virtual machine of go-ethereum 1.8.22 in a service
that applies the blocks of an external consensus system. This directory holds
TLA+ modules for its state, its HTTP service with the engine that drives it, its
Web3 methods and its Web3 RPC server; the TLC configurations that check them on small instances;
and TLAPS proofs of the main safety properties for every instance.

    Evm.tla               accounts, transactions, core.ApplyMessage (library)
    TxLedger.tla          abstract: what a node promises about transactions
    EvmState.tla          src/state: State, WriteAheadState, TxPool, the database
    EvmProofs.tla         lemmas about Evm
    EvmStateProofs.tla    proofs about EvmState
    SupplyProofs.tla      EvmState: sums over accounts, and the supply of Ether
    StateReaders.tla      src/state: GetBalance and GetNonce beside a block
    StateReadersProofs.tla  proofs about StateReaders
    EvmService.tla        src/service HTTP API, src/engine, src/consensus adapters
    EvmServiceProofs.tla  proofs about EvmService
    Web3Api.tla           src/service/web3_*.go, addrlock.go, beside EvmService
    Web3ApiProofs.tla     proofs about Web3Api
    RpcServer.tla         src/service/rpc_server.go
    RpcServerProofs.tla   proofs about RpcServer
    DataInduction.tla     induction over numbers and sequences, for the proofs
    MC*.tla, *.cfg        instances for TLC
    PROJECT.json          components, runs, mutants, source map, hazards, findings

Run one configuration with `tlc -config StateCrash.cfg MCEvmState`, and check the
proofs of a module with `tlapm EvmStateProofs.tla`; `DataInduction` and the seven
`*Proofs` modules hold all of them.

## 1. Inventory

### Components

**State** (`src/src/state/state.go`). Keeps the committed StateDB `ethState`, the
write-ahead state `was`, the pool `txPool`, `blockIndex`, the database and
`commitMutex`. Operations: `NewState`/`InitState`/`resetWAS` at start, `Call`,
`ProcessBlock`, `CreateAccounts` and `CheckTx`, `Commit`, the lookups, and
`ApplyTransaction` for the consensus adapters. Correct when: a restart always
finds a loadable state, no transaction takes effect twice, an accepted block
leaves a trace of each of its transactions, and what was shown stays.

**Write-ahead state** (`was.go`). The pending StateDB with its transactions,
receipts, used gas and gas pool. `Commit` writes the trie, the root key, the head,
the transactions and the receipts, in five separate writes. Correct when any
prefix of these writes is a state one can live with.

**Transaction pool** (`txpool.go`). A StateDB that gives out nonces (`GetNonce`)
and on which `CheckTx` tries transactions; `Reset` at every commit. Correct when
the nonce it gives out is one the account can use.

**HTTP service** (`service.go`, `http_handlers.go`). One mutex, one goroutine per
request, `submitCh` to the engine, the keystore, `Run` at start. Correct when every
request is answered and a submitted transaction reaches consensus once.

**Engines** (`src/src/engine`). `SocketEngine.serve` is one goroutine that selects
between `submitCh` and the proxy's commit channel; the service runs in another.
Correct when both sides get their turn. `InmemEngine` hands `submitCh` and
`CommitBlock` to a lachesis node in the same process and is used by no command;
`ConsensusEngine` wires a `Consensus` (solo, raft, lachesis) to the state.

**Web3 RPC server** (`rpc_server.go`). `started`, the services, the endpoints and
the `stop` channel, under an RW lock. Correct when no order of calls panics, a
failed start is rolled back, and waiters are released.

**Web3 API methods** (`web3_*.go`). The methods of the `eth`, `personal`, `txpool`,
`debug` and `admin` namespaces. Two thirds are stubs; the others send and sign
transactions and change the keystore. They run without the service's mutex.
Correct when every call ends, none of them holds up the HTTP API or the engine, a
key is unlocked no longer than asked, and a transaction whose hash was returned
takes effect.

**Address locker** (`addrlock.go`). A mutex per address around the choice of a
nonce. Correct when it is released on every way out of a call.

**Consensus adapters** (`src/src/consensus/{solo,raft,lachesis}`). Call
`State.ApplyTransaction` and `State.Commit` directly, without `commitMutex`.

**Configuration, command line, common helpers**: no state of their own.

### Interaction

    client --HTTP--> Service (mutex) --+--submitCh--> engine --SubmitTx--> consensus
    client --RPC---> Web3 methods -----+                 ^                     |
                     (lock per address)                  |   commitCh (block)  |
                        |  GetPoolNonce, GetBalance,     |                     |
                        v  Call, lookups (mostly         |                     |
                      State <--- unlocked) -- ProcessBlock --------------------+
                        |
                        v
                     LevelDB

The HTTP handlers and the Web3 methods also share the keystore.

### What is hard here

* **Crashes and failing writes.** A block is up to seven kinds of writes, none of
  them batched with the others; there is no log to replay.
* **Redelivery.** `ProcessBlock` does not relate a block to the ones before it.
  The only protection is the account nonce inside `ApplyMessage`.
* **Late errors.** `ApplyMessage` may fail after it has taken gas and nonce; the
  WAS is not rolled back.
* **Unlocked readers.** `GetBalance`, `GetNonce` and `GetPoolNonce` read StateDBs
  that a commit resets and, in the case of `GetNonce`, that the engine is executing
  on; and a read of a StateDB writes to its map of objects.
* **Two mutexes and a rendezvous.** A handler waits for the engine with the
  service's mutex held; the engine waits for `commitMutex`; `/call` takes both.
* **Panics.** `makeHandler`'s `Unlock` is not deferred; a Web3 call that panics is
  recovered on HTTP and ends the process on a websocket.
* **Two front doors.** Web3 calls lock keys, read the pool and submit beside the
  handlers, which believe they are alone.
* **Partial starts** of the RPC server, and `Wait` across a restart.

The hazards with their lines are in PROJECT.json.

## 2. The modules and the code

### Evm

The library side. A ledger maps an account to nonce and balance, and stands for
its root hash; a transaction record stands for its hash. Contract code, storage
and logs are abstracted: what a transaction uses (`used`) and whether the VM fails
(`fails`) are fields of it. `ApplyMessage` keeps the control of go-ethereum's: the
early refusals that change nothing, and the two late errors (intrinsic gas, and a
value the balance does not cover) that leave the gas paid and, for a call, the
nonce incremented.

### EvmState

State variables: the eight kinds of database content (`db*`), the in-memory
objects (`ethState`, `was*`, `pool*`, `blockIndex`), the place of the holder of
`commitMutex` (`pc`, `job`, `cur`, `next`), counters against the bounds, and three
history variables that only properties read.

One step is one database write or one in-memory change, because a crash or an
unlocked reader can come between any two:

| step | code |
|---|---|
| `NewState` | `NewState`, `InitState`, `resetWAS` |
| `CreateAccounts` | existence looked up in `ethState`, credit to the WAS, then `Commit` |
| `ProcessBlock`, `PutBlockByHash`, `PutBlockById` | the head of `ProcessBlock` and its two puts |
| `applyTransaction` = `SkipTx`, `RejectTx`, `ExecuteTx` | one transaction; the loop ignores its error |
| `EndOfBlock` | the end of the loop |
| `CommitTrie`, `writeRoot`, `writeHead`, `writeTransactions`, `writeReceipts` | `was.Commit` |
| `ResetEthState`, `ResetWAS`, `ResetTxPool` | the rest of `State.Commit` |
| `WriteFails` | an error return at any of the writes; after `CreateAccounts`, `checkErr` ends the process |
| `Crash` | the process dies |
| `CheckTx` | the pool's; nobody in the program calls it (`PoolTxs = {}`), one run calls it all the same |

`TxStatus`, `blockByHashHandler` and `blockByIdHandler` say what the lookup
endpoints answer in a state.

### StateReaders

`EvmState` executes a transaction on the write-ahead state in one step and its
readers only look. `StateReaders` opens that step: a StateDB is a trie, a map of
objects, a journal and a set of dirty addresses; a transfer is six accesses to it
(`Accesses`), each a step; and a reader is a lookup in the map and, on a miss, a
read of the trie (`GetBalance`, `GetNonce`) and later a store into the map
(`StoreEth`, `StoreWas`). The handler stands for `/account/` and `/accounts`,
which the service's mutex keeps one at a time; `Web3` are the calls of
`eth_getBalance`. Three history variables record what executing the transactions
one after the other gives, which ledgers have been committed, and whether a reader
has stored an object in the write-ahead state that was no longer current.

The theorems about `EvmState` rest on readers that do not interfere.
`OnlyStoresHarm` says when that is so: unless that one store happens. Where it does,
`ReadersLostUpdate` shows the consequence.

### TxLedger

The abstract specification: durable nonces only grow (`Advance`), a transaction
becomes known once its nonce has been passed and no other holds its slot
(`Store`), a receipt is published once, for a known transaction (`Publish`).
`EvmState` implements it with `nonce <- dbRoot`'s nonces, `stored <- dbTxs`,
`receipt <- dbReceipts`.

### EvmService

Requests as goroutines, the two mutexes, the rendezvous on `submitCh`, the
engine's loop, `Service.Run`. Each handler is cut where it can block or where an
unlocked read can go wrong: `/tx` into decode, trie read, caching and signing,
send, answer; `/call` into decode, lock, execution. Panics are modelled where the
code dereferences a nil: no `data` (`prepareTransaction`, `prepareCallMessage`),
no recipient in `State.Call`'s log line, no info callback. Of the state only the
nonces are kept: those of the write-ahead state (`wasNonce`), those of the last
commit that succeeded (`nonce`), and those of the pool, with its trie and its object
cache as two things, since `GetPoolNonce` reads one and then fills the other.
Consensus is external: it puts some of the transactions it has into a block.

Of a block any of the transactions may be rejected (`passed` in `ProcessBlock`):
`applyTransaction` does so for the balance, the intrinsic gas and the gas pool, which
`EvmState` tells apart, and here only the nonce that was not used matters; one with
another nonce than the account's is always rejected. The block may also fail to be
stored (`StoreBlockFails`), before anything is applied, or to be committed
(`CommitFails`): then neither the committed nonces nor the pool change, and the
write-ahead state keeps what it has for the next commit. A delivered transaction ends
in `applied` if `applyTransaction` has executed or rejected it, and in `skipped` if
nobody has: it does not decode, or the adapter gave it up. The transactions of a block
that was not stored are `lost`, with an error, like those `SubmitTx` fails on.

`keystore` says of each account whether its key is there, locked, or unlocked for
some time or for good; `OpenKeyStore` unlocks what is there for good, and a
handler that signs needs its key unlocked at that moment.

The variable `system` is what was started: `evm run` with its SocketEngine, or the
InmemEngine (`CommitCh`, `ProcessBlock`), or a ConsensusEngine with solo
(`SoloApply`, `SoloCommit`), raft (`RaftRelay`, `RaftFuture`, and `FSMApply` in
raft's goroutine) or lachesis (`CommitBlock`). The adapters call
`State.ApplyTransaction`; since `NewState` ends with `resetWAS`, the write-ahead
state has no signer and that call panics on everything that decodes, so the only
outcomes are an error for bytes that do not decode and the end of the process.

A constant `Scenarios` lists what a behaviour may start from: a system, the
requests that clients may send, and the transactions other nodes have given to
consensus. One run so covers several engines and mixes of requests.

### Web3Api

Extends `EvmService` with the calls of the RPC server, each in a goroutine of its
own. `LockAddr`, `SendTransaction`, `ReadPoolNonce`, `CachePoolNonce`,
`SendRawTransaction` and `Send` are the two SendTransaction and SendRawTransaction,
cut where they wait and where they read or fill the pool's cache; `NewAccount`,
`ImportRawKey`, `UnlockAccount`, `LockAccount` and the timer `Expire` change
`keystore`; `OnlyAnswer` are the others, the stubs by a table per API object of what
they answer. `nonceLock` holds the holder of each address. What matters most:

* `setDefaults` stores the gas price and the nonce through nil pointers. Go
  evaluates the right-hand side first, so that a call without a nonce fills the
  pool's cache and then panics, with its address locked.
* `Web3Panic`: the RPC library recovers a panic on HTTP; on a websocket the method
  runs in a goroutine without a recover and the process ends. The address is
  unlocked by a defer in either case.
* `submitTransaction` refuses a creation signed for a chain, because the chain
  configuration it makes its signer from has no block numbers, and sends
  `MarshalJSON` where the state expects RLP (`Marshalled`).
* `UnlockAccount` computes a time.Duration, a signed integer below `DurationLimit`
  (2^63 in the code), in the arithmetic of the machine (`Nanoseconds`).

### RpcServer

Every method holds the lock throughout and is one step, except `Wait`, which
blocks outside the lock on the channel it read inside, and `Restart`, which is
`Stop` and then `Start`. `StartFails(c, e, bad)` is a `startRPC` that fails at
endpoint `e`; `bad` are the listeners that cannot be closed in the rollback. The
services of the program never fail to stop; `FaultyStop` allows others.

## 3. Runs

Passing runs:

| run | states | what it shows |
|---|---|---|
| `StateCrash` | 193,000 | three conflicting blocks in any order and repeated, one crash, one failing write: `RootLoadable`, `AppliedAtMostOnce`, `VisibleIsDurable`, `CompletedBlockRecorded`, `SupplyBounded`, `ReceiptStable`; `IInv`, the invariant of the proofs; and the refinement of `TxLedger` |
| `StateOutcomes` | 143,000 | every outcome of `applyTransaction` (executed, reverted, contract created, the two late errors for calls and creations, gas pool empty, bad signature, undecodable), two failing writes, no crash: `AppliedHasReceipt`, `CompletedBlockRecorded`, `SupplyBounded`, `SettledBlockAnswered` |
| `ServiceRequests` | 123,000 | two `/tx` of one account, `/call`, `/account` and a failing `SubmitTx` against the SocketEngine, with a transaction from another node, any of the transactions rejected, and a block that cannot be stored or committed; every other way a handler ends without a panic against the InmemEngine, solo, raft and lachesis; a valid and an undecodable transaction in one block: `InOnePlace`, `SkippedWithCause`, `EveryRequestAnswered`, `NonceUsedOrFree` |
| `Web3Faults` | 92,000 | nine scenarios of HTTP requests and Web3 calls: the lock of an address and panics with it, keys that are locked and unlocked while transactions are signed, accounts that come into being, refused arguments, a panic on a websocket, and handlers that panic with the service's mutex: `Web3Answered`, `OnlyPanicsBlock`, `UnlockEnds`, `BlocksGoOn`, and the invariants `NonceNotAhead`, `NonceAssignedAlone`, `Web3InOnePlace`, `NotForGood` |
| `ReadersHarmless` | 529,000 | two blocks of transfers, one that fails late and one with a fee, with the account endpoints and an `eth_getBalance` between any two accesses: `ShownWasCommitted`, `OnlyStoresHarm` |
| `RpcLifecycle` | 19,000 | two callers, three endpoints, two faults: `NoPanic`, `NothingLeftOpen`, `WaitersReleased` |

Runs in which the code does not do what a comment or the README says (the
findings in PROJECT.json quote the lines):

| run | what happens |
|---|---|
| `StateLostReceipt` | crash between the root and the receipts: the transaction has taken effect and never gets a receipt |
| `StateGenesis` | a block before `CreateAccounts` can cost a genesis account its allocation |
| `ServiceNoData` | a `/tx` whose call data is in `input`, the name that `SendTxArgs` says should be preferred, has no `data`: panic, and the mutex stays locked |
| `ServiceSolo` | `evm solo` ends with the first transaction that decodes: the write-ahead state has no signer |
| `Web3NoEffect` | a transaction sent through Web3 travels as JSON, is skipped by every node and leaves no record, though its hash was returned |
| `ReadersLostUpdate` | one request for `/account/` during a transfer: the sender's debit is lost, the recipient's credit is not |

`NonceUsedOrFree` is what remains of "there is no guarantee that the transactions
will get applied" (http_handlers.go:444): a `/tx` may be rejected or lost, but the
nonce that the service gave it is then the next one again, for the account and for
the next `/tx`, so that no gap is left that would block the account.

Smaller disagreements seen in the same models, without a run of their own: the
README's example of `/tx` (README.md:140) is answered with an error and not with a
hash, because its value 6666 is a number and `hexutil.Big` accepts only a string
(`bad` in the model: the mutex is unlocked, nobody is held up); "CommitBlock commits
Block to the State" (lachesis/inmem_proxy.go:47), but returns at the first transaction
that is refused, so that a valid one behind it, whose hash the client has, is dropped
(the exception in `SkippedWithCause`); one
undecodable or unsigned transaction makes the block endpoints refuse its whole
block ("ANY block", http_handlers.go:68), which is why `SettledBlockAnswered` is
about well-formed blocks; `blockIndex` is 0 after a restart although BlockNumber
"returns the block number of the chain head" (web3_account_api.go:487); `/info`
panics under the engine of `evm run`, which sets no info callback (`HasInfo`), with
the same effect on the mutex as in `ServiceNoData`; two `/tx` of one account between
two blocks are signed with the same nonce, because no handler calls `CheckTx`,
although it "is called by the Service handlers" (state.go:459); a reset of the pool
between the two halves of `GetPoolNonce` leaves an old nonce cached until the next
commit, so that "the Service will fetch it from the State" (http_handlers.go:441)
can give a used nonce (`NonceNotAhead` says that it never gives a future one);
`RpcServer.Start` returns nil when an endpoint could not be opened, since the result
of stopping the services overwrites the error (rpc_server.go:140, `FailedStartResult`);
`setDefaults`, which "fills in default values for unspecified tx fields"
(web3_account_api.go:1180), panics on two of them.

### Bounds, and why they are enough

* `EvmState`: two funded accounts and the coinbase. The blocks of `StateCrash`
  (`<<Pay1, Pay0>>`, `<<Pay0, Pay1>>`, `<<DoubleSpend>>`, the last two with one
  index) make each of the hard cases happen: a nonce gap, a double spend, an index
  clash, a redelivery after success and after rejection, two transactions in one
  receipt batch. Three deliveries are the least that let a block fail half way,
  another one commit what is left, and the first come again. One crash and one
  failing write reach every step; the proofs remove these bounds. With a gas limit
  of 5 the two late errors of the first block of `StateOutcomes` empty the gas pool
  for the third transaction.
* `EvmService`: requests are sent once, at most two transactions per block, one
  lost submission, one failing write. Two requests of one account are the least for a
  nonce clash, a failed commit and a block after it the least for a write-ahead state
  that is ahead of the pool when a nonce is given out, and a third party on
  `commitMutex` the least for a cycle of waits. No write fails in `Web3Faults`
  (`MaxFaults` is 0): that is `ServiceRequests`' question, and the invariants of
  `Web3Faults` are proved for any number of them.
* `Web3Api`: two calls that want one address and a handler that wants the same pool
  are the least for a lock kept by a panic to show, and a third call, which ends
  without the lock, the least for a lock released by the wrong one; each other
  scenario puts one kind of call beside the handler or engine it could disturb. A
  second has 4 units and a duration 6 bits, so that 16 seconds overflow to 0, as
  2^55 seconds do with 64 bits.
* `StateReaders`: two blocks, so that what one leaves in a map meets the next, and
  two readers, who together reach every pair of a store and a reset. Blocks of
  three accounts, one of them the coinbase; the second block is valid only after
  the first, or rejected.
* `RpcServer`: two callers and two channels are the least for a `Wait` across a
  restart; two faults are the least for a rollback that itself fails.

`CHECK_DEADLOCK FALSE` is given where the behaviours end: the bounded deliveries,
requests, channels and faults are used up and the program waits for input. In
`EvmService` and `Web3Api`, where waiting for ever would be a real fault,
`EveryRequestAnswered`, `Web3Answered` and `BlocksGoOn` catch it. In `StateReaders`
readers ask again and again, and deadlock is checked.

### Fairness

`EvmState` and `StateReaders` have none; all their properties are safety.
`EvmService` assumes weak fairness of the requests' goroutines, of the loop that
receives from `submitCh`, of the goroutine that applies what consensus has ordered,
and of `Service.Run`; `Web3Api` adds the calls' goroutines and the timers of the
keystore. Go schedules every runnable goroutine, its mutexes are starvation-free
since Go 1.9, a ready `select` case is eventually taken, and consensus goes on
making blocks of what it has. Requests arrive only if they want to. The
goroutines share one fairness condition, which is as strong as one for each: a
request or call takes finitely many steps and there are finitely many of them, so
one that stayed enabled and never ran would oblige the others to infinitely many
steps. For the same reason weak fairness is enough for one that waits for a mutex.
`RpcServer` assumes weak fairness of each caller's running method; a caller
need not make any call.

### Mutants

Each property of each passing run has a mutant: a variant of one definition,
defined just before it with a suffix (`writeRoot_Stale`, `Return_NoUnlock`), that
changes it as a plausible bug would and violates the property. For instance,
showing `ethState` before the write violates `VisibleIsDurable`, not
deferring the unlock in `State.Call` violates `BlocksGoOn`, and reading `n.stop`
again after the lock violates `WaitersReleased`.

## 4. Proofs

All constants are arbitrary under the named assumptions `EvmAssumption`,
`EvmStateAssumption`, `ReadersAssumption`, `ServiceAssumption`, `CallsAssumption`,
`DurationAssumption` and `RpcAssumption`: sets of the right shape, natural bounds,
finitely many addresses (they have 20 bytes), a transaction uses at most its gas,
allocations are positive, the requests and calls of a scenario have ids of their
own, the default of 300 seconds fits into a duration. No bound limits the number
of accounts, transactions, blocks, deliveries, crashes, faults, requests, calls or
readers. Every invariant that a passing run checks is a theorem:

| theorem | property | module |
|---|---|---|
| `Invariance`, `TypeCorrect` | `IInv`, `TypeOK` | EvmStateProofs |
| `RestartSafe`, `ReplaySafe`, `ReadersSafe`, `BlocksRecorded` | `RootLoadable`, `AppliedAtMostOnce`, `VisibleIsDurable`, `CompletedBlockRecorded` | EvmStateProofs |
| `ReceiptsStable`, `Refinement` | `ReceiptStable`, `RefinesTxLedger` | EvmStateProofs |
| `RunningKeepsReceipts`, `RunningAnswersBlocks` | `AppliedHasReceipt`, `SettledBlockAnswered`, of a process that keeps running | EvmStateProofs |
| `SupplySafe` | `SupplyBounded` | SupplyProofs |
| `ReadersTypeCorrect`, `ReadersShowCommitted`, `OnlyStaleStoresHarm` | `TypeOK`, `ShownWasCommitted`, `OnlyStoresHarm` | StateReadersProofs |
| `ServiceTypeCorrect`, `NonceSafe`, `NeverDroppedOrDuplicated`, `NoneSkippedWithoutCause` | `TypeOK`, `NonceNotAhead`, `InOnePlace`, `SkippedWithCause` | EvmServiceProofs |
| `NothingTakenBack` | (an action property, `Steady`) | EvmServiceProofs |
| `Web3TypeCorrect`, `Web3NonceSafe`, `Web3NeverDroppedOrDuplicated` | `Web3TypeOK`, `NonceNotAhead`, `Web3InOnePlace`, of `Web3Spec` | Web3ApiProofs |
| `SenderExclusion`, `UnlockIsTimed` | `NonceAssignedAlone`, `NotForGood` | Web3ApiProofs |
| `RpcTypeCorrect`, `PanicFree`, `RollbackComplete` | `TypeOK`, `NoPanic`, `NothingLeftOpen` | RpcServerProofs |
| `NoLostWakeup` | the safety half of `WaitersReleased` | RpcServerProofs |

**EvmStateProofs.** The safety properties are not inductive as they stand.
`IInv` adds:

* `TypeOK`, `Control`: which operation can be at which step;
* `Levels`: nonces grow from `ethState` to `dbRoot` to the WAS, and the WAS equals
  `dbRoot` once the root is written. Needed because a block can only be stored
  behind the durable nonce if it was executed behind the WAS's;
* `Pending`: pending transactions are behind the WAS's nonces, in distinct slots,
  with their receipts at the same positions;
* `PendingAgrees`: after a commit that failed half way a pending transaction may
  already be in the database; then it is there as itself and with the same
  receipt. Without it the next commit could overwrite a receipt;
* `TrieFirst`: the trie is on disk before the root key names it;
* `Progress`: what the loop has gone through is malformed, recorded, or pending;
* the goals `AppliedAtMostOnce` and `CompletedBlockRecorded` themselves.

The lemmas of `EvmProofs` about `Credit`, `Debit`, `BumpNonce` and `ApplyMessage`
give the facts about ledgers: balances stay natural numbers, only the sender's
nonce moves, and it moves exactly when the transaction is executed or rejected
late. Then each action is shown to preserve each conjunct it can disturb.

`AppliedHasReceipt` and `SettledBlockAnswered` are false of a process that ends
between the root and the receipts (`StateLostReceipt`), so their theorems assume
`KeepsRunning`: no step ends the process, by a crash or by the `checkErr` after
`CreateAccounts`. Failing writes, in any number, are allowed. Two more invariants
carry them: a stored transaction has a receipt or is pending with one, and every
block that the process has completed is in the database under its hash.

**SupplyProofs.** That the balances sum to no more than the allocations is not
inductive, for two reasons. A process that has not yet run `CreateAccounts` will
still credit the accounts that do not exist. And an account can stop existing: a
contract creation that fails late takes the gas and leaves the nonce, and an
account with nonce 0 and no balance is empty, so that the next start gives it its
allocation once more. Hence each account is counted with its `Claim`: its balance
and its allocation while it is `Promised`; otherwise, as long as its nonce is 0,
the larger of its balance and its allocation. `SupplyInv` bounds the sum of the
claims in the database and in the write-ahead state. Bought gas either comes with
the nonce, and then is repaid or credited to the coinbase, or is burnt.

The sums need facts about `SumFunction`, which is a recursive function on the
subsets of a set: that the function exists, that it does not depend on the domain
it is defined on, and that a sum can be taken apart at any account. They follow
from the existence of a smallest set among counterexamples (`SmallestSet`).

**StateReadersProofs.** `CommittedCopies` says where a committed object can be:
in the trie and the map of `ethState`, and in the hand of a reader on its way
there; from it `ShownWasCommitted` follows. `Serial` holds until a reader stores
something stale: what the engine reads of the write-ahead state is the ledger
expected before the transaction (`expected`) with the accesses made so far
(`Before`), the checks made on the way have been passed on that ledger (`Passed`),
and an object that differs from the trie's is in the journal or dirty (`Known`), so
that the commit writes it. The six accesses of a transfer, in the order of
`Accesses`, are shown to add up to `Executed` of `Evm` even when sender, recipient
and coinbase coincide (`AccessesExecute`); this links the two models of a transfer.

**EvmServiceProofs.** `CopiesBehind` orders every copy of a nonce (the pool's trie,
its cache, what a handler has read and not yet cached) behind the committed one, and
that one behind the write-ahead state's, which the next commit takes; `NoncesGrow`
shows that a block never lowers a nonce, whichever of its transactions are rejected.
`Apart`, `Tracked` and `Phased` give `InOnePlace`: the six places are disjoint, and a transaction with a request's
id is in one of them exactly when that request has been sent. `SkippedWithCause`
needs that solo commits only after a transaction it has refused (`SkipInv`).

**Web3ApiProofs.** The service's invariant is preserved by the Web3 calls, which
share its pool, keystore and engine but not its mutex. `SenderLocks` ties the holder
of an address to the place of its call in both directions; with one direction only,
`UnlockAddr` could release somebody else's lock. `NotForGood` rests on `NoOverflow`
and `MaxFits`: what `UnlockAccount` lets through is not changed by the
multiplication, for every `Second` and `DurationLimit`.

**RpcServerProofs.** `RInv` adds to the goals that a started server has a
channel of its own that is not closed (`Channels`) and that a blocked waiter's
channel is closed or current (`WaiterWakes`).

**DataInduction.** The induction theorems of the library take a predicate as a
parameter, which the installed provers cannot instantiate. Its lemmas say the
same with sets instead of predicates: a set of numbers that is not empty has a
least one (`LeastNat`), one that contains 0 and every successor contains all
(`UpTo`), and steps that stay within a set can be iterated any number of times
(`Iteration`), as `NoncesGrow` does with the transactions of a block.

**Only model-checked.** The liveness properties `EveryRequestAnswered`,
`NonceUsedOrFree`, `Web3Answered`, `OnlyPanicsBlock`, `UnlockEnds`, `BlocksGoOn` and
`WaitersReleased`, because the prover has no rule for fairness and ENABLED;
`Web3TxTakesEffect` and `TakenIsApplied` are of this kind too, and like
`GenesisHonoured` and `TransfersConserve` they are refuted by their runs.

## 5. Not modelled, and why

* LevelDB does not sync its writes: after an operating-system crash the database
  loses a suffix of them. The writes are ordered, so this is a crash at an earlier
  step of the same model.
* The resets at the end of `Commit` cannot fail: the trie just committed is in the
  database they share.
* Contract code and storage, logs, bloom filters, creation times, HTML pages.
* `GetNonce` reads the WAS: the nonce of an account endpoint may run ahead of the
  database, and nothing in the code says that it may not. `VisibleIsDurable` and
  `ShownWasCommitted` are about balances.
* Concurrent map writes in a StateDB, which the Go runtime may notice and turn into
  a fatal error: that is a crash of `EvmState`. `EvmService` and `StateReaders` model
  the race that is not noticed.
* The adapters' `Commit` beside `CreateAccounts`, without `commitMutex`: raft and
  lachesis never reach their `Commit`, since `ApplyTransaction` refuses or panics
  before it, and solo reaches it only after a transaction has come in over HTTP and
  so after `CreateAccounts`.
* `RpcServer.Start` does not call `Start` of its services, although
  `rpc_context.go` says that it is called; the two services do nothing there. `Stop`
  leaves the in-process handler, which the model shows (`inproc`).
* Raft's exit on an interrupt, and the setup of the raft and lachesis nodes;
  replication and ordering are external.
* In `web3_account_api.go` and `web3_chain_api.go`: the helpers nobody calls
  (`FormatLogs`, `RPCMarshalBlock`, `newRPCTransaction` and its variants,
  `storageRangeAt`) and the APIs that are not registered (`PrivateDebugChainAPI`,
  `PublicNetAPI`). What the registered stubs would do is commented out in the code;
  the model has what they do.
* That the account manager learns of a new account some time after the keystore.
* Configuration (default values, path joining), command line (flags and wiring),
  logging, version, HTML template: no state that changes.

## 6. Plan

Done: `Evm`, `EvmState`, `TxLedger`, `StateReaders`, `EvmService` with the engines and
the adapters, `Web3Api`, `RpcServer`, their runs, and proofs of every invariant that
a passing run checks. What is left:

1. **Safety halves of the liveness properties**, as `NoLostWakeup` is of
   `WaitersReleased`: that the holder of the service's mutex is a handler which can
   take a step, waits for the engine, or has panicked (`EveryRequestAnswered`,
   `OnlyPanicsBlock`), and that `commitMutex` is held only by one that can (`BlocksGoOn`).
2. **An abstract nonce source** for `GetPoolNonce` and the address locker, with
   `Web3Api` shown to implement it.
3. **Conservation**: that `SupplyBounded` is an equality up to the gas that rejected
   transactions have burnt.
