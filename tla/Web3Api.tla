------------------------------ MODULE Web3Api ------------------------------
(***************************************************************************)
(* The Web3 methods of src/service (web3_account_api.go, web3_chain_api.go)*)
(* composed with the HTTP service and the engine of EvmService.  The RPC   *)
(* server runs each call in a goroutine of its own and, unlike makeHandler,*)
(* without the Service's mutex; what the two share is the keystore, the    *)
(* pool and submitCh.  Calls that leave their nonce open exclude each other*)
(* by a lock per sender (addrlock.go).                                     *)
(*                                                                         *)
(* The keystore, the wallets and the RPC library are go-ethereum's; the    *)
(* account manager's list of wallets is taken to be current.               *)
(***************************************************************************)
EXTENDS EvmService

CONSTANTS Second,        \* nanoseconds in a second
          DurationLimit, \* 2^63 in the code: time.Duration, a signed integer, is in
                         \* -DurationLimit .. DurationLimit - 1
          DefaultUnlock  \* seconds an account is unlocked for by default

ASSUME DurationAssumption ==
    /\ Second \in Nat \ {0} /\ DurationLimit \in Nat \ {0}
    /\ DefaultUnlock \in Nat \ {0}
    /\ DefaultUnlock * Second < DurationLimit

-----------------------------------------------------------------------------
(* The methods that only answer, by the object the RPC server registers: a   *)
(* constant or a value of the State ("answered"), null ("empty"), or the     *)
(* error that the method is not implemented.                                 *)

PublicEthereumAPI ==
    [GasPrice |-> "error", ProtocolVersion |-> "answered", Syncing |-> "error"]

PublicTxPoolAPI == [Content |-> "empty", Status |-> "empty", Inspect |-> "empty"]

PublicAccountAPI == [Accounts |-> "answered"]

PrivateAccountAPI == [ListAccounts |-> "answered", ListWallets |-> "answered"]

PublicBlockChainAPI ==
    [BlockNumber |-> "answered", GetBalance |-> "answered",
     GetBlockByNumber |-> "error", GetBlockByHash |-> "error",
     GetUncleByBlockNumberAndIndex |-> "error",
     GetUncleByBlockHashAndIndex |-> "error",
     GetUncleCountByBlockNumber |-> "empty", GetUncleCountByBlockHash |-> "empty",
     GetCode |-> "error", GetStorageAt |-> "error"]

doCall == [Call |-> "error", EstimateGas |-> "error"]

PublicTransactionPoolAPI ==
    [GetBlockTransactionCountByNumber |-> "empty",
     GetBlockTransactionCountByHash |-> "empty",
     GetTransactionByBlockNumberAndIndex |-> "empty",
     GetTransactionByBlockHashAndIndex |-> "empty",
     GetRawTransactionByBlockNumberAndIndex |-> "empty",
     GetRawTransactionByBlockHashAndIndex |-> "empty",
     GetTransactionCount |-> "error", GetTransactionByHash |-> "empty",
     GetRawTransactionByHash |-> "error", GetTransactionReceipt |-> "error"]

PendingTransactionsAPI == [PendingTransactions |-> "error", Resend |-> "error"]

DebugAPI ==
    [GetBlockRlp |-> "error", PrintBlock |-> "error", SeedHash |-> "error",
     ChaindbProperty |-> "error", ChaindbCompact |-> "error", SetHead |-> "empty"]

PublicEthereumChainAPI ==
    [Etherbase |-> "error", Coinbase |-> "error", Hashrate |-> "answered",
     ChainId |-> "answered"]

PrivateAdminAPI == [ExportChain |-> "error", ImportChain |-> "error"]

PublicDebugChainAPI == [DumpBlock |-> "error"]

Stubs ==
    {PublicEthereumAPI, PublicTxPoolAPI, PublicAccountAPI, PrivateAccountAPI,
     PublicBlockChainAPI, doCall, PublicTransactionPoolAPI,
     PendingTransactionsAPI, DebugAPI, PublicEthereumChainAPI, PrivateAdminAPI,
     PublicDebugChainAPI}

\* The methods with arguments that matter.  Those in Personal take a password
\* instead of an unlocked key (SignAndSendTransaction is personal_sendTransaction
\* by another name).
Sending == {"eth_sendTransaction", "personal_sendTransaction"}
Signing == {"eth_signTransaction", "personal_signTransaction"}
Personal == {"personal_sendTransaction", "personal_signTransaction", "personal_sign"}
Methods ==
    Sending \cup Signing \cup Personal
    \cup {"eth_sendRawTransaction", "eth_sign", "EcRecover", "OpenWallet",
          "DeriveAccount", "NewAccount", "ImportRawKey", "UnlockAccount",
          "LockAccount"}
    \cup UNION {DOMAIN api : api \in Stubs}

\* via: the transport.  to, gas, gasPrice, nonce, data: the fields of SendTxArgs
\* that are given; data is "both" when data and input are and differ.  passwd: the
\* password is the right one.  valid: the encoded argument decodes (a raw
\* transaction, a key, a URL, a signature).  protected: a raw transaction is
\* signed for a chain (EIP155).
Web3Call == [id : Nat, method : Methods, via : {"http", "ws"}, from : Addr,
             to : BOOLEAN, gas : BOOLEAN, gasPrice : BOOLEAN,
             nonce : Nat \cup {Unset}, data : {"none", "some", "both"},
             passwd : BOOLEAN, duration : Nat \cup {Unset}, valid : BOOLEAN,
             protected : BOOLEAN]

\* The calls clients make, each once.
Calls == UNION {s.calls : s \in Scenarios}

ASSUME CallsAssumption ==
    /\ \A s \in Scenarios :
          /\ s.calls \subseteq Web3Call
          /\ \A c, d \in s.calls : c.id = d.id => c = d
          /\ \A c \in s.calls : \A q \in s.requests \cup s.foreign : c.id # q.id
    /\ \A c \in Calls : c.method = "eth_sendRawTransaction" => c.nonce # Unset
    /\ Free \notin Calls

VARIABLES
    pc,        \* where each call is
    poolSeen,  \* the nonce it has read from the pool's trie and not cached
    signed,    \* the transaction it has made
    nonceLock  \* AddrLocker: the holder of each address's mutex

web3 == <<pc, poolSeen, signed, nonceLock>>
web3vars == <<vars, web3>>

Ended == {"answered", "empty", "error", "panicked"}

Web3TypeOK ==
    /\ pc \in [Calls -> {"absent", "idle", "called", "locked", "reading", "sending"}
                        \cup Ended]
    /\ poolSeen \in [Calls -> Nat \cup {Unset}]
    /\ signed \in [Calls -> Tx \cup {Unset}]
    /\ nonceLock \in [Addr -> Calls \cup {Free}]

Web3Init ==
    /\ \E s \in Scenarios :
          /\ InitFrom(s)
          /\ pc = [c \in Calls |-> IF c \in s.calls THEN "idle" ELSE "absent"]
    /\ poolSeen = [c \in Calls |-> Unset]
    /\ signed = [c \in Calls |-> Unset]
    /\ nonceLock = [a \in Addr |-> Free]

-----------------------------------------------------------------------------
(* A call begins and ends *)

Invoke(c) ==
    /\ run = "serving"
    /\ pc[c] = "idle"
    /\ pc' = [pc EXCEPT ![c] = "called"]
    /\ UNCHANGED <<vars, poolSeen, signed, nonceLock>>

Called(c, methods) == Alive /\ pc[c] = "called" /\ c.method \in methods

\* Mutant: a call also unlocks what it has not locked.
UnlockAddr_Any(c) == nonceLock' = [nonceLock EXCEPT ![c.from] = Free]

\* The deferred UnlockAddr of a call that has locked its sender.
UnlockAddr(c) ==
    nonceLock' = [a \in Addr |-> IF nonceLock[a] = c THEN Free ELSE nonceLock[a]]

\* The method returns with the given outcome.
Finish(c, outcome) ==
    /\ pc' = [pc EXCEPT ![c] = outcome]
    /\ UnlockAddr(c)

\* Mutant: the address is not unlocked by a defer.
Web3Panic_NoDefer(c) ==
    /\ pc' = [pc EXCEPT ![c] = "panicked"]
    /\ UNCHANGED nonceLock
    /\ run' = IF c.via = "ws" THEN "exited" ELSE run

\* The method panics.  The RPC library recovers it on HTTP, where the method runs
\* in the connection's goroutine; on a websocket it runs in a goroutine of its
\* own, and the process ends.
Web3Panic(c) ==
    /\ pc' = [pc EXCEPT ![c] = "panicked"]
    /\ UnlockAddr(c)
    /\ run' = IF c.via = "ws" THEN "exited" ELSE run

-----------------------------------------------------------------------------
(* Transactions *)

\* am.Find
Found(c) == keystore[c.from] # "absent"

\* wallet.SignTx and SignHash need the key unlocked, SignTxWithPassphrase and
\* SignHashWithPassphrase the right password.
sign(c) == Found(c) /\ Unlocked(c.from)
signTransaction(c) == Found(c) /\ c.passwd

CanSign(c) == IF c.method \in Personal THEN signTransaction(c) ELSE sign(c)

\* Data and input disagree, or a creation has neither.
BadInput(c) == c.data = "both" \/ (~c.to /\ c.data = "none")

\* Mutant: an absent nonce is left for toTransaction to find.
setDefaults_KeepNonce(c) ==
    CASE ~c.gasPrice -> "panic"
      [] c.gasPrice /\ BadInput(c) -> "error"
      [] OTHER -> "nil"

\* setDefaults allocates the gas and the value it fills in; it stores the gas
\* price and the nonce through the nil pointers.  "pool": the panic comes after
\* GetPoolNonce has been called for the value to store.
setDefaults(c) ==
    CASE ~c.gasPrice -> "panic"
      [] c.gasPrice /\ c.nonce = Unset -> "pool"
      [] c.gasPrice /\ c.nonce # Unset /\ BadInput(c) -> "error"
      [] OTHER -> "nil"

\* submitTransaction sends tx.MarshalJSON(), and the State expects RLP: it cannot
\* decode what comes back from consensus.
Marshalled(c) ==
    [id |-> c.id, from |-> c.from, nonce |-> c.nonce, decodes |-> FALSE]

\* It recovers the sender of a creation with the signer of a chain configuration
\* that has only a chain id, and refuses a transaction signed for a chain.
submitTransaction(c, protected) ==
    \/ ~c.to /\ protected /\ Finish(c, "error") /\ UNCHANGED signed
    \/ /\ c.to \/ ~protected
       /\ signed' = [signed EXCEPT ![c] = Marshalled(c)]
       /\ pc' = [pc EXCEPT ![c] = "sending"]
       /\ UNCHANGED nonceLock

\* eth_sendTransaction looks the account up before it locks the address,
\* personal_sendTransaction after.
LockAddr(c) ==
    /\ Called(c, Sending)
    /\ c.nonce = Unset
    /\ c.method = "eth_sendTransaction" => Found(c)
    /\ nonceLock[c.from] = Free
    /\ nonceLock' = [nonceLock EXCEPT ![c.from] = c]
    /\ pc' = [pc EXCEPT ![c] = "locked"]
    /\ UNCHANGED <<vars, poolSeen, signed>>

UnknownSender(c) ==
    /\ Called(c, {"eth_sendTransaction"})
    /\ ~Found(c)
    /\ Finish(c, "error")
    /\ UNCHANGED <<vars, poolSeen, signed>>

\* The two SendTransaction, with the lock if they need it, up to the send.
SendTransaction(c) ==
    /\ Alive
    /\ c.method \in Sending
    /\ pc[c] = (IF c.nonce = Unset THEN "locked" ELSE "called")
    /\ c.method = "eth_sendTransaction" => Found(c)
    /\ \/ ~Found(c) /\ Finish(c, "error") /\ UNCHANGED <<run, signed>>
       \/ Found(c) /\ setDefaults(c) = "panic" /\ Web3Panic(c) /\ UNCHANGED signed
       \/ /\ Found(c)
          /\ setDefaults(c) = "error" \/ (setDefaults(c) = "nil" /\ ~CanSign(c))
          /\ Finish(c, "error")
          /\ UNCHANGED <<run, signed>>
       \/ /\ setDefaults(c) = "nil" /\ CanSign(c)
          /\ submitTransaction(c, TRUE)
          /\ UNCHANGED run
    /\ UNCHANGED <<system, keystore, client, commitMu, engine, state, poolSeen>>

\* GetPoolNonce as setDefaults calls it, without the Service's mutex: it answers
\* from the pool's cache, or reads the trie and then caches what it has read.  In
\* either case the store of the nonce panics.
ReadPoolNonce(c) ==
    /\ Alive
    /\ pc[c] = "locked" /\ Found(c) /\ setDefaults(c) = "pool"
    /\ \/ poolCache[c.from] # Unset /\ Web3Panic(c) /\ UNCHANGED poolSeen
       \/ /\ poolCache[c.from] = Unset
          /\ poolSeen' = [poolSeen EXCEPT ![c] = poolTrie[c.from]]
          /\ pc' = [pc EXCEPT ![c] = "reading"]
          /\ UNCHANGED <<run, nonceLock>>
    /\ UNCHANGED <<system, keystore, client, commitMu, engine, state, signed>>

CachePoolNonce(c) ==
    /\ Alive
    /\ pc[c] = "reading"
    /\ poolCache' = [poolCache EXCEPT ![c.from] = poolSeen[c]]
    /\ poolSeen' = [poolSeen EXCEPT ![c] = Unset]
    /\ Web3Panic(c)
    /\ UNCHANGED <<system, keystore, client, commitMu, engine, nonce, wasNonce,
                   poolTrie, faults, signed>>

SendRawTransaction(c) ==
    /\ Called(c, {"eth_sendRawTransaction"})
    /\ \/ ~c.valid /\ Finish(c, "error") /\ UNCHANGED signed
       \/ c.valid /\ submitTransaction(c, c.protected)
    /\ UNCHANGED <<vars, poolSeen>>

\* Mutant: a send that gives up when the engine is busy.
Send_NonBlocking(c) ==
    /\ Alive
    /\ pc[c] = "sending"
    /\ IF eng = "select" THEN eng' = "submit" /\ inHand' = signed[c]
       ELSE UNCHANGED <<eng, inHand>>
    /\ Finish(c, "answered")
    /\ UNCHANGED <<node, client, commitMu, block, ordered, lost, applied, skipped,
                   state, poolSeen, signed>>

\* The send on submitCh completes when the engine receives; the hash is returned.
Send(c) ==
    /\ Alive
    /\ pc[c] = "sending"
    /\ eng = "select"
    /\ eng' = "submit"
    /\ inHand' = signed[c]
    /\ Finish(c, "answered")
    /\ UNCHANGED <<node, client, commitMu, block, ordered, lost, applied, skipped,
                   state, poolSeen, signed>>

-----------------------------------------------------------------------------
(* Methods that change nothing *)

\* The two SignTransaction require what setDefaults cannot fill in.
SignTransaction(c) ==
    IF /\ c.gas /\ c.gasPrice /\ c.nonce # Unset
       /\ setDefaults(c) = "nil" /\ CanSign(c)
    THEN "answered" ELSE "error"

Sign(c) == IF CanSign(c) THEN "answered" ELSE "error"

EcRecover(c) == IF c.valid THEN "answered" ELSE "error"

\* OpenWallet and DeriveAccount find the wallet by its URL; a keystore's wallet
\* opens, and derives no accounts.
OpenWallet(c) ==
    IF c.valid /\ c.method = "OpenWallet" THEN "answered" ELSE "error"

OnlyAnswer(c) ==
    /\ \/ Called(c, Signing) /\ Finish(c, SignTransaction(c))
       \/ Called(c, {"eth_sign", "personal_sign"}) /\ Finish(c, Sign(c))
       \/ Called(c, {"EcRecover"}) /\ Finish(c, EcRecover(c))
       \/ Called(c, {"OpenWallet", "DeriveAccount"}) /\ Finish(c, OpenWallet(c))
       \/ \E api \in Stubs : Called(c, DOMAIN api) /\ Finish(c, api[c.method])
    /\ UNCHANGED <<vars, poolSeen, signed>>

-----------------------------------------------------------------------------
(* The keystore *)

SetKey(c, a, k) ==
    /\ keystore' = [keystore EXCEPT ![a] = k]
    /\ Finish(c, "answered")

Refuse(c) == Finish(c, "error") /\ UNCHANGED keystore

\* A new account is locked; storing it may fail.
NewAccount(c) ==
    /\ Called(c, {"NewAccount"})
    /\ \/ \E a \in Addr : keystore[a] = "absent" /\ SetKey(c, a, "locked")
       \/ Refuse(c)
    /\ UNCHANGED <<system, run, client, commitMu, engine, state, poolSeen, signed>>

\* So is an imported one, unless it is in the keystore already.
ImportRawKey(c) ==
    /\ Called(c, {"ImportRawKey"})
    /\ \/ c.valid /\ ~Found(c) /\ SetKey(c, c.from, "locked")
       \/ (~c.valid \/ Found(c)) /\ Refuse(c)
    /\ UNCHANGED <<system, run, client, commitMu, engine, state, poolSeen, signed>>

\* time.Duration(d) * time.Second
Nanoseconds(d) ==
    ((d * Second + DurationLimit) % (2 * DurationLimit)) - DurationLimit

MaxSeconds == (DurationLimit - 1) \div Second

\* keystore.TimedUnlock: without a positive timeout the key is unlocked for good,
\* and an account that is stays so.
TimedUnlock(c, timeout) ==
    IF Found(c) /\ c.passwd
    THEN SetKey(c, c.from, IF keystore[c.from] = "forever" \/ timeout <= 0
                           THEN "forever" ELSE "timed")
    ELSE Refuse(c)

\* Mutant: a duration that does not fit is not refused.
UnlockAccount_NoMax(c) ==
    /\ Called(c, {"UnlockAccount"})
    /\ TimedUnlock(c, Nanoseconds(IF c.duration = Unset THEN DefaultUnlock
                                  ELSE c.duration))
    /\ UNCHANGED <<system, run, client, commitMu, engine, state, poolSeen, signed>>

UnlockAccount(c) ==
    /\ Called(c, {"UnlockAccount"})
    /\ \/ c.duration = Unset /\ TimedUnlock(c, Nanoseconds(DefaultUnlock))
       \/ /\ c.duration # Unset
          /\ IF c.duration > MaxSeconds THEN Refuse(c)
             ELSE TimedUnlock(c, Nanoseconds(c.duration))
    /\ UNCHANGED <<system, run, client, commitMu, engine, state, poolSeen, signed>>

\* keystore.Lock never fails, not even for an account it does not have.
LockAccount(c) ==
    /\ Called(c, {"LockAccount"})
    /\ SetKey(c, c.from, IF Found(c) THEN "locked" ELSE "absent")
    /\ UNCHANGED <<system, run, client, commitMu, engine, state, poolSeen, signed>>

\* The timer of TimedUnlock.
Expire(a) ==
    /\ Alive
    /\ keystore[a] = "timed"
    /\ keystore' = [keystore EXCEPT ![a] = "locked"]
    /\ UNCHANGED <<system, run, client, commitMu, engine, state, web3>>

-----------------------------------------------------------------------------
Method(c) ==
    \/ LockAddr(c) \/ UnknownSender(c) \/ SendTransaction(c)
    \/ ReadPoolNonce(c) \/ CachePoolNonce(c)
    \/ SendRawTransaction(c) \/ Send(c) \/ OnlyAnswer(c)
    \/ NewAccount(c) \/ ImportRawKey(c) \/ UnlockAccount(c) \/ LockAccount(c)

Web3Next ==
    \/ Next /\ UNCHANGED web3
    \/ \E c \in Calls : Invoke(c) \/ Method(c)
    \/ \E a \in Addr : Expire(a)

\* A goroutine that can run does run, and timers fire.
Web3Fairness ==
    /\ WF_web3vars(\E c \in Calls : Method(c))
    /\ WF_web3vars(\E a \in Addr : Expire(a))

Web3Spec == Web3Init /\ [][Web3Next]_web3vars /\ Fairness /\ Web3Fairness

-----------------------------------------------------------------------------
(* Correctness *)

\* Every Web3 call ends, also while a handler that has panicked keeps the
\* Service's mutex, and after a call that has panicked with its sender's address
\* locked.
Web3Answered ==
    []<>((\A c \in Calls : pc[c] \in {"absent", "idle"} \cup Ended) \/ ~Alive)

\* Two calls never look for the next nonce of one sender at the same time: the
\* address stays locked from before the pool is read until the call that has locked
\* it ends, whatever the calls beside it do ("prevent concurrent assignment of the
\* same nonce to multiple accounts").
NonceAssignedAlone ==
    \A c, d \in Calls :
        /\ c.from = d.from
        /\ pc[c] \in {"locked", "reading"} /\ pc[d] \in {"locked", "reading"}
        => c = d

\* InOnePlace, with Web3 calls that send beside the handlers, and for what they
\* send: when a call has returned a hash, its transaction is in exactly one place.
Web3InOnePlace ==
    /\ InOnePlace
    /\ \A c \in Calls :
          pc[c] = "answered" /\ signed[c] # Unset => PlacesOf(signed[c]) = 1

\* Nothing but a handler's own panic keeps the HTTP API from answering: no Web3
\* call, whatever it does to the keystore, the pool or the engine.
OnlyPanicsBlock ==
    []<>(\/ \A q \in Requests : AtRest(q)
         \/ \E q \in Requests : st[q] = "panicked"
         \/ ~Alive)

\* Nobody asks to unlock the account for good.
NeverAsked(a) ==
    \A c \in Calls : c.method = "UnlockAccount" /\ c.from = a => c.duration # 0

\* No duration turns into "for good" by overflow, however large: an account that is
\* not in the keystore at the start is unlocked for good only if somebody asks for
\* that (a duration of 0).
NotForGood ==
    \A a \in Addr \ Controlled : NeverAsked(a) => keystore[a] # "forever"

\* "If duration is nil it will use a default of 300 seconds" (UnlockAccount): such
\* an account is locked again and again, whatever other durations are asked for.
UnlockEnds ==
    \A a \in Addr \ Controlled : NeverAsked(a) => []<>(~Unlocked(a) \/ ~Alive)

\* "SendTransaction creates a transaction for the given argument, sign it and
\* submit it to the transaction pool": a transaction that a call has returned the
\* hash of and that consensus has taken is applied, that is, executed or rejected
\* with a record of why.
Web3TxTakesEffect ==
    \A c \in Calls :
        (signed[c] # Unset /\ signed[c] \in ordered)
            ~> (signed[c] # Unset /\ signed[c] \in applied)
=============================================================================
