--------------------------- MODULE Web3ApiProofs ---------------------------
(***************************************************************************)
(* Web3Api, for any calls beside any requests: what is proved of the HTTP  *)
(* service holds with the Web3 methods too, which do not take its mutex;   *)
(* two calls never look for one sender's nonce at the same time; and what  *)
(* a call sends is in exactly one place.                                   *)
(***************************************************************************)
EXTENDS Web3Api, EvmServiceProofs

\* What a call holds between its steps; the nonce it has read may be old.
Web3Holding ==
    \A c \in Calls :
        /\ pc[c] = "reading" => poolSeen[c] # Unset
        /\ pc[c] = "sending" => signed[c] # Unset
        /\ signed[c] # Unset => pc[c] \in {"sending", "answered"} /\ signed[c].id = c.id
        /\ poolSeen[c] # Unset => poolSeen[c] <= nonce[c.from]

\* A lock is held exactly by a call that has locked its own sender and that has
\* not ended.
SenderLocks ==
    /\ \A a \in Addr : \A c \in Calls :
          nonceLock[a] = c => c.from = a /\ pc[c] \in {"locked", "reading"}
    /\ \A c \in Calls : pc[c] \in {"locked", "reading"} => nonceLock[c.from] = c

ActiveCalls == {c \in Calls : pc[c] # "absent"}

\* The ids of calls differ from each other and from those of the requests, and
\* a transaction with a call's id is somewhere exactly when it has been sent.
Web3Tracked ==
    /\ \A c, d \in ActiveCalls : c.id = d.id => c = d
    /\ \A c \in ActiveCalls : \A q \in Active : c.id # q.id
    /\ \A c \in ActiveCalls : \A t \in Anywhere :
          t.id = c.id => pc[c] = "answered" /\ t = signed[c]
    /\ \A c \in Calls :
          pc[c] = "answered" /\ signed[c] # Unset => signed[c] \in Anywhere

WInv == SInv /\ Web3TypeOK /\ Web3Holding /\ SenderLocks /\ Web3Tracked /\ NotForGood

RunPhases == {"keystore", "genesis", "creating", "rpc", "serving", "exited"}

-----------------------------------------------------------------------------
(* Facts about the operators of the model *)

\* A call is one of a scenario, and so are its fields.
LEMMA CallsTyped ==
    /\ \A c \in Calls : c \in Web3Call /\ c.from \in Addr /\ c.id \in Nat
                        /\ c.nonce \in Nat \cup {Unset}
    /\ Free \notin Calls
<1>1. Calls \subseteq Web3Call BY CallsAssumption DEF Calls
<1> QED BY <1>1, CallsAssumption DEF Web3Call

\* What submitTransaction sends has a nonce: it is given, or setDefaults panics.
LEMMA MarshalledTyped ==
    ASSUME NEW c \in Calls, c.nonce # Unset
    PROVE  Marshalled(c) \in Tx /\ Marshalled(c).id = c.id /\ Marshalled(c) # Unset
<1>1. c.id \in Nat /\ c.from \in Addr /\ c.nonce \in Nat BY CallsTyped
<1>2. Marshalled(c) \in Tx BY <1>1 DEF Marshalled, Tx
<1> QED BY <1>2, ServiceAssumption DEF Marshalled

\* A nonce that is not given makes setDefaults panic.
LEMMA DefaultsNeedNonce ==
    ASSUME NEW c \in Calls, setDefaults(c) = "nil" PROVE c.nonce # Unset
BY DEF setDefaults

\* The methods that only answer do answer.
LEMMA StubsAnswer ==
    ASSUME NEW api \in Stubs, NEW m \in DOMAIN api PROVE api[m] \in Ended
<1>1. CASE api \in {PublicEthereumAPI, PublicTxPoolAPI, PublicAccountAPI, PrivateAccountAPI}
  BY <1>1 DEF PublicEthereumAPI, PublicTxPoolAPI, PublicAccountAPI, PrivateAccountAPI, Ended
<1>2. CASE api = PublicBlockChainAPI BY <1>2 DEF PublicBlockChainAPI, Ended
<1>3. CASE api \in {doCall, PendingTransactionsAPI, PrivateAdminAPI, PublicDebugChainAPI}
  BY <1>3 DEF doCall, PendingTransactionsAPI, PrivateAdminAPI, PublicDebugChainAPI, Ended
<1>4. CASE api = PublicTransactionPoolAPI BY <1>4 DEF PublicTransactionPoolAPI, Ended
<1>5. CASE api \in {DebugAPI, PublicEthereumChainAPI}
  BY <1>5 DEF DebugAPI, PublicEthereumChainAPI, Ended
<1> QED BY <1>1, <1>2, <1>3, <1>4, <1>5 DEF Stubs

\* Seconds that fit into a duration are not changed by the multiplication.
LEMMA NoOverflow ==
    ASSUME NEW d \in Nat, d * Second < DurationLimit
    PROVE  Nanoseconds(d) = d * Second
<1> DEFINE x == d * Second + DurationLimit
           m == 2 * DurationLimit
<1>1. d * Second \in Nat BY DurationAssumption
<1>2. x \in Nat /\ m \in Nat /\ x < m /\ m > 0 BY <1>1, DurationAssumption
<1> HIDE DEF x, m
<1>3. x % m = x BY <1>2
<1> QED BY <1>1, <1>3, DurationAssumption DEF x, m, Nanoseconds

\* UnlockAccount refuses the others.
LEMMA MaxFits ==
    ASSUME NEW d \in Nat, d <= MaxSeconds PROVE d * Second < DurationLimit
<1> DEFINE L == DurationLimit - 1
<1>1. L \in Nat BY DurationAssumption
<1>2. /\ L = Second * (L \div Second) + (L % Second)
      /\ L % Second \in Nat /\ L \div Second \in Int
  BY <1>1, DurationAssumption
<1>3. ASSUME NEW q \in Int, d <= q PROVE d * Second <= q * Second
  BY <1>3, DurationAssumption
<1> QED BY <1>1, <1>2, <1>3, DurationAssumption DEF MaxSeconds

\* The service's invariant does not depend on the keystore or on where Service.Run
\* is, and the pool may cache any nonce that is not ahead.
LEMMA SharedKeeps ==
    ASSUME SInv, run' \in RunPhases, keystore' \in [Addr -> KeyStates],
           poolCache' \in [Addr -> Nat \cup {Unset}],
           \A a \in Addr : poolCache'[a] # Unset => poolCache'[a] <= nonce[a],
           UNCHANGED <<system, client, commitMu, engine, nonce, wasNonce, poolTrie,
                     faults>>
    PROVE  SInv' /\ UNCHANGED <<Anywhere, Active>>
<1> USE DEF SInv, NInv, PInv, client, engine
<1>1. TypeOK' BY DEF TypeOK, RunPhases
<1>2. Holding' BY DEF Holding
<1>3. CopiesBehind' BY DEF CopiesBehind
<1>4. NonceNotAhead' BY DEF NonceNotAhead
<1>5. UNCHANGED <<Taken, Anywhere, Active>> BY DEF Taken, Settled, Anywhere, Active
<1>6. Apart' BY <1>5 DEF Apart, Settled
<1>7. Tracked' BY <1>5 DEF Tracked, Sent
<1>8. Phased' BY DEF Phased
<1> QED BY <1>1, <1>2, <1>3, <1>4, <1>5, <1>6, <1>7, <1>8

\* A call ends without having sent anything: it unlocks what it has locked, and
\* nothing else.
LEMMA EndingKeeps ==
    ASSUME WInv, NEW c \in Calls, pc[c] \in {"called", "locked", "reading"},
           NEW p \in Ended, pc' = [pc EXCEPT ![c] = p], UnlockAddr(c),
           poolSeen' \in [Calls -> Nat \cup {Unset}],
           \A d \in Calls : d # c => poolSeen'[d] = poolSeen[d],
           poolSeen'[c] \in {Unset, poolSeen[c]},
           UNCHANGED signed,
           run' \in RunPhases, keystore' \in [Addr -> KeyStates], NotForGood',
           poolCache' \in [Addr -> Nat \cup {Unset}],
           \A a \in Addr : poolCache'[a] # Unset => poolCache'[a] <= nonce[a],
           UNCHANGED <<system, client, commitMu, engine, nonce, wasNonce, poolTrie,
                     faults>>
    PROVE  WInv'
<1> USE DEF WInv, UnlockAddr
<1>1. SInv' /\ UNCHANGED <<Anywhere, Active>> BY SharedKeeps
<1>2. Web3TypeOK' BY DEF Web3TypeOK
<1>3. signed[c] = Unset BY DEF Web3Holding
<1>4. Web3Holding' BY <1>3, ServiceAssumption DEF Web3Holding, Web3TypeOK, Ended
<1>5. SenderLocks' BY CallsTyped DEF SenderLocks, Web3TypeOK, Ended
<1>6. Web3Tracked'
  <2>1. ActiveCalls' = ActiveCalls BY DEF ActiveCalls, Web3TypeOK, Ended
  <2>2. \A d \in Calls : pc[d] = "answered" => d # c /\ pc'[d] = "answered"
    BY DEF Web3TypeOK
  <2>3. \A d \in Calls : pc'[d] = "answered" /\ signed[d] # Unset => pc[d] = "answered"
    BY <1>3 DEF Web3TypeOK
  <2> QED BY <1>1, <2>1, <2>2, <2>3 DEF Web3Tracked, ActiveCalls
<1> QED BY <1>1, <1>2, <1>4, <1>5, <1>6

-----------------------------------------------------------------------------
(* The calls *)

\* The calls of a scenario are made, and no other ones.
LEMMA WInvInit == Web3Init => WInv
<1> SUFFICES ASSUME Web3Init PROVE WInv
  OBVIOUS
<1>1. PICK s \in Scenarios :
         /\ InitFrom(s)
         /\ pc = [c \in Calls |-> IF c \in s.calls THEN "idle" ELSE "absent"]
  BY DEF Web3Init
<1>2. SInv BY <1>1, SInvInit
<1>3. Web3TypeOK BY <1>1 DEF Web3Init, Web3TypeOK
<1>4. Web3Holding BY <1>1 DEF Web3Init, Web3Holding
<1>5. SenderLocks BY <1>1, CallsTyped DEF Web3Init, SenderLocks
<1>6. Web3Tracked
  <2>1. ActiveCalls \subseteq s.calls /\ Active \subseteq s.requests
    BY <1>1 DEF ActiveCalls, Active, InitFrom
  <2>2. Anywhere = s.foreign
    BY <1>1 DEF InitFrom, Anywhere, Settled, Taken, Range
  <2>3. \A c \in ActiveCalls : \A q \in s.requests \cup s.foreign : c.id # q.id
    BY <2>1, CallsAssumption
  <2>4. \A c, d \in ActiveCalls : c.id = d.id => c = d
    BY <2>1, CallsAssumption
  <2> QED BY <1>1, <2>1, <2>2, <2>3, <2>4 DEF Web3Init, Web3Tracked
<1>7. NotForGood BY <1>1 DEF InitFrom, NotForGood
<1> QED BY <1>2, <1>3, <1>4, <1>5, <1>6, <1>7 DEF WInv

\* A call that goes on without an end, a lock or a send.
LEMMA GoingKeeps ==
    ASSUME WInv, NEW c \in Calls, NEW p \in {"called", "reading", "sending"},
           pc[c] \in {"idle", "called", "locked"},
           p \in {"called", "sending"} => pc[c] \notin {"locked", "reading"},
           p = "reading" => pc[c] = "locked",
           pc' = [pc EXCEPT ![c] = p],
           IF p = "reading" THEN poolSeen' = [poolSeen EXCEPT ![c] = poolTrie[c.from]]
           ELSE UNCHANGED poolSeen,
           IF p = "sending" THEN signed' = [signed EXCEPT ![c] = Marshalled(c)]
           ELSE UNCHANGED signed,
           p = "sending" => c.nonce # Unset,
           UNCHANGED <<vars, nonceLock>>
    PROVE  WInv'
<1> USE DEF WInv
<1>1. UNCHANGED <<Taken, Anywhere, Active>>
  BY DEF vars, engine, client, Taken, Settled, Anywhere, Active
<1>2. SInv' BY SInvNext
<1>3. c.from \in Addr /\ poolTrie[c.from] \in Nat /\ poolTrie[c.from] <= nonce[c.from]
  BY CallsTyped DEF SInv, NInv, TypeOK, CopiesBehind
<1>4. p = "sending" => /\ Marshalled(c) \in Tx /\ Marshalled(c).id = c.id
                       /\ Marshalled(c) # Unset
  BY MarshalledTyped
<1>5. Web3TypeOK' BY <1>3, <1>4 DEF Web3TypeOK
<1>6. signed[c] = Unset BY DEF Web3Holding
<1>7. \A d \in Calls : d # c => /\ pc'[d] = pc[d] /\ signed'[d] = signed[d]
                                /\ poolSeen'[d] = poolSeen[d]
  BY DEF Web3TypeOK
<1>8. /\ pc'[c] = p
      /\ signed'[c] = IF p = "sending" THEN Marshalled(c) ELSE Unset
      /\ poolSeen'[c] = IF p = "reading" THEN poolTrie[c.from] ELSE poolSeen[c]
  BY <1>6 DEF Web3TypeOK
<1>9. Web3Holding'
  BY <1>3, <1>4, <1>7, <1>8, ServiceAssumption
     DEF Web3Holding, vars, state
<1>10. SenderLocks' BY <1>7, <1>8 DEF SenderLocks
<1>11. Web3Tracked'
  <2>1. ActiveCalls' = ActiveCalls BY <1>7, <1>8 DEF ActiveCalls
  <2>2. \A d \in Calls : pc[d] = "answered" => d # c OBVIOUS
  <2>3. \A d \in Calls : pc'[d] = "answered" => d # c BY <1>8
  <2> QED BY <1>1, <1>7, <2>1, <2>2, <2>3 DEF Web3Tracked, ActiveCalls
<1>12. NotForGood' BY DEF NotForGood, vars, node
<1> QED BY <1>2, <1>5, <1>9, <1>10, <1>11, <1>12

\* LockAddr keeps the invariant: the lock was free.
LEMMA LockAddrKeeps == ASSUME WInv, NEW c \in Calls, LockAddr(c) PROVE WInv'
<1> USE DEF WInv, LockAddr, Called
<1>1. UNCHANGED <<Taken, Anywhere, Active>>
  BY DEF vars, engine, client, Taken, Settled, Anywhere, Active
<1>2. SInv' BY SInvNext
<1>3. Web3TypeOK' BY CallsTyped DEF Web3TypeOK
<1>4. Web3Holding' BY DEF Web3Holding, Web3TypeOK, vars, state
<1>5. SenderLocks' BY CallsTyped DEF SenderLocks, Web3TypeOK
<1>6. Web3Tracked'
  <2>1. ActiveCalls' = ActiveCalls BY DEF ActiveCalls, Web3TypeOK
  <2>2. \A d \in Calls : pc'[d] = "answered" <=> pc[d] = "answered" BY DEF Web3TypeOK
  <2> QED BY <1>1, <2>1, <2>2 DEF Web3Tracked, ActiveCalls
<1>7. NotForGood' BY DEF NotForGood, vars, node
<1> QED BY <1>2, <1>3, <1>4, <1>5, <1>6, <1>7

\* The engine receives a transaction that nobody has.
LEMMA SendKeeps == ASSUME WInv, NEW c \in Calls, Send(c) PROVE WInv'
<1> USE DEF WInv, Send, Finish, UnlockAddr
<1>1. /\ signed[c] # Unset /\ signed[c] \in Tx /\ signed[c].id = c.id
      /\ c \in ActiveCalls
  BY DEF Web3Holding, Web3TypeOK, ActiveCalls
<1>2. /\ Taken = {} /\ Taken' = {signed[c]}
      /\ Anywhere' = Anywhere \cup {signed[c]}
      /\ signed[c] \notin Anywhere
  BY <1>1 DEF Taken, Settled, Anywhere, Web3Tracked
<1>3. SInv'
  <2> USE DEF SInv, NInv, PInv, node, client, state
  <2>1. TypeOK' BY <1>1 DEF TypeOK
  <2>2. Holding' BY <1>1 DEF Holding
  <2>3. CopiesBehind' /\ NonceNotAhead' BY DEF CopiesBehind, NonceNotAhead
  <2>4. Apart' BY <1>2 DEF Apart, Settled, Anywhere
  <2>5. \A q \in Active : q.id # signed[c].id BY <1>1 DEF Web3Tracked
  <2>6. Tracked' BY <1>2, <2>5 DEF Tracked, Active, Sent
  <2>7. Phased' BY DEF Phased
  <2> QED BY <2>1, <2>2, <2>3, <2>4, <2>6, <2>7
<1>4. Web3TypeOK' BY DEF Web3TypeOK, Ended
<1>5. Web3Holding' BY <1>1 DEF Web3Holding, Web3TypeOK, state
<1>6. SenderLocks' BY CallsTyped DEF SenderLocks, Web3TypeOK
<1>7. Web3Tracked'
  <2>1. ActiveCalls' = ActiveCalls /\ Active' = Active
    BY <1>1 DEF ActiveCalls, Active, Web3TypeOK, client
  <2>2. \A d \in ActiveCalls : d.id = c.id => d = c BY <1>1 DEF Web3Tracked
  <2>3. \A d \in Calls : d # c => pc'[d] = pc[d] BY DEF Web3TypeOK
  <2>4. pc'[c] = "answered" BY DEF Web3TypeOK
  <2>5. ASSUME NEW d \in ActiveCalls, NEW t \in Anywhere', t.id = d.id
        PROVE  pc'[d] = "answered" /\ t = signed[d]
    <3>1. CASE t \in Anywhere
      <4>1. pc[d] = "answered" /\ t = signed[d] BY <2>5, <3>1 DEF Web3Tracked
      <4> QED BY <2>3, <4>1 DEF ActiveCalls
    <3>2. CASE t = signed[c] BY <1>1, <2>2, <2>4, <2>5, <3>2
    <3> QED BY <1>2, <3>1, <3>2
  <2>6. \A d \in Calls : pc'[d] = "answered" /\ signed[d] # Unset => signed[d] \in Anywhere'
    BY <1>2, <2>3 DEF Web3Tracked
  <2> QED BY <2>1, <2>5, <2>6 DEF Web3Tracked
<1>8. NotForGood' BY DEF NotForGood, node
<1> QED BY <1>3, <1>4, <1>5, <1>6, <1>7, <1>8

\* In a step of the HTTP service, the engine or an adapter the keystore is unlocked,
\* or it stays as it is.
LEMMA KeystoreStep ==
    ASSUME [Next]_vars
    PROVE  \/ UNCHANGED keystore
           \/ keystore' = [a \in Addr |-> IF a \in Controlled THEN "forever" ELSE "absent"]
<1> USE DEF node
<1>1. CASE Run
  BY <1>1 DEF Run, OpenKeyStore, BeginGenesis, createGenesisAccounts, StartServers
<1>2. ASSUME NEW q \in Requests, Arrive(q) \/ Handler(q) PROVE UNCHANGED keystore
  BY <1>2 DEF Arrive, Handler, makeHandler, accountHandler, lookupHandler, infoHandler,
     callHandler, LockForCall, Call, transactionHandler, GetPoolNonce,
     rawTransactionHandler, Submit, Answer
<1>3. CASE serve
  BY <1>3 DEF serve, SubmitTx, CommitCh, BeginProcessBlock, ProcessBlock,
     StoreBlockFails, EndProcessBlock, SoloApply, SoloCommit, RaftRelay, RaftFuture
<1>4. CASE deliver BY <1>4 DEF deliver, FSMApply, CommitBlock
<1>5. CASE UNCHANGED vars BY <1>5 DEF vars
<1> QED BY <1>1, <1>2, <1>3, <1>4, <1>5 DEF Next

\* A step of the HTTP service, the engine or an adapter.
LEMMA ServiceStepKeeps == ASSUME WInv, [Next]_vars, UNCHANGED web3 PROVE WInv'
<1> USE DEF WInv, web3
<1>1. SInv' /\ Steady BY SInvNext
<1>2. Web3TypeOK' BY DEF Web3TypeOK
<1>3. Web3Holding'
  <2>1. ASSUME NEW c \in Calls, poolSeen[c] # Unset PROVE poolSeen[c] <= nonce'[c.from]
    <3>1. c.from \in Addr BY CallsTyped
    <3>2. nonce[c.from] <= nonce'[c.from] BY <1>1, <3>1 DEF Steady
    <3>3. poolSeen[c] <= nonce[c.from] BY <2>1 DEF Web3Holding
    <3>4. poolSeen[c] \in Nat BY <2>1 DEF Web3TypeOK
    <3>5. nonce[c.from] \in Nat /\ nonce'[c.from] \in Nat
      BY <1>1, <3>1 DEF SInv, NInv, TypeOK
    <3> QED BY <3>2, <3>3, <3>4, <3>5
  <2> QED BY <2>1 DEF Web3Holding
<1>4. SenderLocks' BY DEF SenderLocks
<1>5. Web3Tracked'
  <2>1. ActiveCalls' = ActiveCalls BY DEF ActiveCalls
  <2>2. ASSUME NEW c \in ActiveCalls, NEW t \in Anywhere', t.id = c.id
        PROVE  pc[c] = "answered" /\ t = signed[c]
    <3>1. CASE t \in Anywhere BY <2>2, <3>1 DEF Web3Tracked
    <3>2. CASE t \notin Anywhere
      <4>1. PICK q \in Active : t = txOf[q] /\ t # Unset BY <1>1, <3>2 DEF Steady
      <4>2. t.id = q.id BY <4>1 DEF SInv, PInv, Tracked, Active
      <4> QED BY <2>2, <4>2 DEF Web3Tracked
    <3> QED BY <3>1, <3>2
  <2> QED BY <1>1, <2>1, <2>2 DEF Web3Tracked, Steady
<1>6. NotForGood' BY KeystoreStep DEF NotForGood
<1> QED BY <1>1, <1>2, <1>3, <1>4, <1>5, <1>6

\* A method that ends without touching the pool.
LEMMA FinishKeeps ==
    ASSUME WInv, NEW c \in Calls, pc[c] \in {"called", "locked"},
           NEW p \in Ended, Finish(c, p),
           run' \in RunPhases, keystore' \in [Addr -> KeyStates], NotForGood',
           UNCHANGED <<system, client, commitMu, engine, state, poolSeen, signed>>
    PROVE  WInv'
<1>1. /\ poolSeen' \in [Calls -> Nat \cup {Unset}]
      /\ poolCache' \in [Addr -> Nat \cup {Unset}]
      /\ \A a \in Addr : poolCache'[a] # Unset => poolCache'[a] <= nonce[a]
  BY DEF WInv, SInv, NInv, TypeOK, CopiesBehind, Web3TypeOK, state
<1> QED BY <1>1, EndingKeeps DEF Finish, state

\* What is true of Service.Run and the keystore stays so while they do not change.
LEMMA NodeTyped ==
    ASSUME WInv
    PROVE  /\ run \in RunPhases /\ keystore \in [Addr -> KeyStates]
           /\ UNCHANGED keystore => NotForGood'
BY DEF WInv, SInv, NInv, TypeOK, RunPhases, NotForGood

\* submitTransaction refuses, or the call goes on to send.
LEMMA submitTransactionKeeps ==
    ASSUME WInv, NEW c \in Calls, NEW protected, pc[c] = "called", c.nonce # Unset,
           submitTransaction(c, protected), UNCHANGED <<vars, poolSeen>>
    PROVE  WInv'
<1>1. CASE Finish(c, "error") /\ UNCHANGED signed
  BY <1>1, FinishKeeps, NodeTyped DEF vars, node, Ended
<1>2. CASE /\ signed' = [signed EXCEPT ![c] = Marshalled(c)]
           /\ pc' = [pc EXCEPT ![c] = "sending"]
           /\ UNCHANGED nonceLock
  BY <1>2, GoingKeeps
<1> QED BY <1>1, <1>2 DEF submitTransaction

\* The two SendTransaction keep the invariant.
LEMMA SendTransactionKeeps ==
    ASSUME WInv, NEW c \in Calls, SendTransaction(c) PROVE WInv'
<1>1. pc[c] \in {"called", "locked"} /\ (c.nonce # Unset => pc[c] = "called")
  BY DEF SendTransaction
<1>2. CASE Finish(c, "error") /\ UNCHANGED <<run, signed>>
  BY <1>1, <1>2, FinishKeeps, NodeTyped DEF SendTransaction, Ended
<1>3. CASE Web3Panic(c) /\ UNCHANGED signed
  <2>1. run' \in RunPhases BY <1>3, NodeTyped DEF Web3Panic, RunPhases
  <2> QED BY <1>1, <1>3, <2>1, FinishKeeps, NodeTyped
          DEF SendTransaction, Web3Panic, Finish, Ended
<1>4. CASE setDefaults(c) = "nil" /\ submitTransaction(c, TRUE) /\ UNCHANGED run
  <2>1. c.nonce # Unset BY <1>4, DefaultsNeedNonce
  <2> QED BY <1>1, <1>4, <2>1, submitTransactionKeeps
          DEF SendTransaction, vars, node
<1> QED BY <1>2, <1>3, <1>4 DEF SendTransaction

\* The read of the pool ends with the panic, or goes on with its second half.
LEMMA ReadPoolNonceKeeps ==
    ASSUME WInv, NEW c \in Calls, ReadPoolNonce(c) PROVE WInv'
<1>1. pc[c] = "locked" BY DEF ReadPoolNonce
<1>2. CASE Web3Panic(c) /\ UNCHANGED poolSeen
  <2>1. run' \in RunPhases BY <1>2, NodeTyped DEF Web3Panic, RunPhases
  <2> QED BY <1>1, <1>2, <2>1, FinishKeeps, NodeTyped
          DEF ReadPoolNonce, Web3Panic, Finish, Ended
<1>3. CASE /\ poolSeen' = [poolSeen EXCEPT ![c] = poolTrie[c.from]]
           /\ pc' = [pc EXCEPT ![c] = "reading"]
           /\ UNCHANGED <<run, nonceLock>>
  BY <1>1, <1>3, GoingKeeps DEF ReadPoolNonce, vars, node
<1> QED BY <1>2, <1>3 DEF ReadPoolNonce

\* What the call has read may be old by now, never new.
LEMMA CachePoolNonceKeeps ==
    ASSUME WInv, NEW c \in Calls, CachePoolNonce(c) PROVE WInv'
<1>1. /\ c.from \in Addr /\ poolSeen[c] \in Nat /\ poolSeen[c] <= nonce[c.from]
  BY CallsTyped DEF WInv, CachePoolNonce, Web3Holding, Web3TypeOK
<1>2. /\ poolCache' \in [Addr -> Nat \cup {Unset}]
      /\ \A a \in Addr : poolCache'[a] # Unset => poolCache'[a] <= nonce[a]
  BY <1>1 DEF WInv, SInv, NInv, TypeOK, CopiesBehind, CachePoolNonce
<1>3. /\ poolSeen' \in [Calls -> Nat \cup {Unset}]
      /\ \A d \in Calls : d # c => poolSeen'[d] = poolSeen[d]
      /\ poolSeen'[c] = Unset
  BY DEF WInv, Web3TypeOK, CachePoolNonce
<1>4. run' \in RunPhases BY NodeTyped DEF CachePoolNonce, Web3Panic, RunPhases
<1> QED BY <1>2, <1>3, <1>4, EndingKeeps, NodeTyped
        DEF CachePoolNonce, Web3Panic, Ended

\* A raw transaction has its own nonce.
LEMMA SendRawTransactionKeeps ==
    ASSUME WInv, NEW c \in Calls, SendRawTransaction(c) PROVE WInv'
<1>1. pc[c] = "called" /\ c.nonce # Unset
  BY CallsAssumption DEF SendRawTransaction, Called
<1>2. CASE Finish(c, "error") /\ UNCHANGED signed
  BY <1>1, <1>2, FinishKeeps, NodeTyped DEF SendRawTransaction, vars, node, Ended
<1>3. CASE submitTransaction(c, c.protected)
  BY <1>1, <1>3, submitTransactionKeeps DEF SendRawTransaction
<1> QED BY <1>2, <1>3 DEF SendRawTransaction

\* The methods without an effect.
LEMMA AnswersKeep ==
    ASSUME WInv, NEW c \in Calls, UnknownSender(c) \/ OnlyAnswer(c) PROVE WInv'
<1>1. pc[c] = "called" /\ UNCHANGED <<vars, poolSeen, signed>>
  BY DEF UnknownSender, OnlyAnswer, Called
<1>2. \E p \in Ended : Finish(c, p)
  <2>1. CASE UnknownSender(c) BY <2>1 DEF UnknownSender, Ended
  <2>2. CASE OnlyAnswer(c)
    <3>1. ASSUME NEW api \in Stubs, Called(c, DOMAIN api), Finish(c, api[c.method])
          PROVE  \E p \in Ended : Finish(c, p)
      <4>1. api[c.method] \in Ended BY <3>1, StubsAnswer DEF Called
      <4> QED BY <3>1, <4>1
    <3>2. /\ SignTransaction(c) \in Ended /\ Sign(c) \in Ended
          /\ EcRecover(c) \in Ended /\ OpenWallet(c) \in Ended
      BY DEF SignTransaction, Sign, EcRecover, OpenWallet, Ended
    <3> QED BY <2>2, <3>1, <3>2 DEF OnlyAnswer
  <2> QED BY <2>1, <2>2
<1> QED BY <1>1, <1>2, FinishKeeps, NodeTyped DEF vars, node

\* UnlockAccount unlocks for good only an account that is, or that it is asked to.
LEMMA UnlockLemma ==
    ASSUME NEW c \in Calls, UnlockAccount(c)
    PROVE  \/ SetKey(c, c.from, "timed")
           \/ /\ SetKey(c, c.from, "forever")
              /\ keystore[c.from] = "forever" \/ ~NeverAsked(c.from)
           \/ Refuse(c)
<1>1. c.duration \in Nat \cup {Unset} /\ c.method = "UnlockAccount"
  BY CallsTyped DEF Web3Call, UnlockAccount, Called
<1>2. ASSUME NEW d \in Nat \ {0}, d * Second < DurationLimit PROVE ~(Nanoseconds(d) <= 0)
  <2>1. d * Second \in Nat /\ d * Second > 0 BY DurationAssumption
  <2> QED BY <1>2, <2>1, NoOverflow
<1>3. CASE c.duration = Unset
  <2>1. ~(Nanoseconds(DefaultUnlock) <= 0) BY <1>2, DurationAssumption
  <2>2. TimedUnlock(c, Nanoseconds(DefaultUnlock)) BY <1>3 DEF UnlockAccount
  <2> QED BY <2>1, <2>2 DEF TimedUnlock
<1>4. CASE c.duration = 0
  <2>1. ~NeverAsked(c.from) BY <1>1, <1>4 DEF NeverAsked
  <2>2. c.duration # Unset BY <1>4, ServiceAssumption
  <2> QED BY <2>1, <2>2 DEF UnlockAccount, TimedUnlock
<1>5. CASE c.duration \in Nat \ {0}
  <2>1. c.duration # Unset BY <1>5, ServiceAssumption
  <2>2. CASE c.duration > MaxSeconds BY <2>1, <2>2 DEF UnlockAccount
  <2>3. CASE ~(c.duration > MaxSeconds)
    <3>1. c.duration <= MaxSeconds BY <1>5, <2>3, DurationAssumption DEF MaxSeconds
    <3>2. ~(Nanoseconds(c.duration) <= 0) BY <1>2, <1>5, <3>1, MaxFits
    <3>3. TimedUnlock(c, Nanoseconds(c.duration)) BY <2>1, <2>3 DEF UnlockAccount
    <3> QED BY <3>2, <3>3 DEF TimedUnlock
  <2> QED BY <2>2, <2>3
<1> QED BY <1>1, <1>3, <1>4, <1>5

\* The methods that change the keystore.
LEMMA KeysKeep ==
    ASSUME WInv, NEW c \in Calls,
           NewAccount(c) \/ ImportRawKey(c) \/ UnlockAccount(c) \/ LockAccount(c)
    PROVE  WInv'
<1>1. /\ pc[c] = "called"
      /\ UNCHANGED <<system, run, client, commitMu, engine, state, poolSeen, signed>>
  BY DEF NewAccount, ImportRawKey, UnlockAccount, LockAccount, Called
<1>2. \/ \E a \in Addr, k \in {"absent", "locked", "timed"} : SetKey(c, a, k)
      \/ /\ SetKey(c, c.from, "forever")
         /\ keystore[c.from] = "forever" \/ ~NeverAsked(c.from)
      \/ Refuse(c)
  <2>1. c.from \in Addr BY CallsTyped
  <2>2. CASE NewAccount(c) BY <2>2 DEF NewAccount
  <2>3. CASE ImportRawKey(c) BY <2>1, <2>3 DEF ImportRawKey
  <2>4. CASE UnlockAccount(c) BY <2>1, <2>4, UnlockLemma
  <2>5. CASE LockAccount(c) BY <2>1, <2>5 DEF LockAccount
  <2> QED BY <2>2, <2>3, <2>4, <2>5
<1>3. \E p \in Ended : Finish(c, p)
  <2>1. {"answered", "error"} \subseteq Ended BY DEF Ended
  <2> QED BY <1>2, <2>1 DEF SetKey, Refuse
<1>4. keystore' \in [Addr -> KeyStates]
  BY <1>2, NodeTyped DEF SetKey, Refuse, KeyStates
<1>5. NotForGood'
  BY <1>2, NodeTyped DEF WInv, NotForGood, SetKey, Refuse
<1> QED BY <1>1, <1>3, <1>4, <1>5, FinishKeeps, NodeTyped

\* The timer of an unlocked account fires.
LEMMA ExpireKeeps == ASSUME WInv, NEW a \in Addr, Expire(a) PROVE WInv'
<1> USE DEF WInv, Expire, web3, state
<1>1. keystore' \in [Addr -> KeyStates] /\ run' \in RunPhases
  BY NodeTyped DEF KeyStates
<1>2. SInv' /\ UNCHANGED <<Anywhere, Active>>
  BY <1>1, SharedKeeps DEF SInv, NInv, TypeOK, CopiesBehind
<1>3. Web3TypeOK' BY DEF Web3TypeOK
<1>4. Web3Holding' /\ SenderLocks' BY DEF Web3Holding, SenderLocks
<1>5. Web3Tracked' BY <1>2 DEF Web3Tracked, ActiveCalls
<1>6. NotForGood' BY NodeTyped DEF NotForGood
<1> QED BY <1>2, <1>3, <1>4, <1>5, <1>6

-----------------------------------------------------------------------------
(* The specification *)

\* Every step keeps the invariant.
LEMMA WInvNext == ASSUME WInv, [Web3Next]_web3vars PROVE WInv'
<1>1. CASE Next /\ UNCHANGED web3 BY <1>1, ServiceStepKeeps
<1>2. ASSUME NEW c \in Calls, Invoke(c) PROVE WInv'
  BY <1>2, GoingKeeps DEF Invoke
<1>3. ASSUME NEW c \in Calls, Method(c) PROVE WInv'
  BY <1>3, LockAddrKeeps, AnswersKeep, SendTransactionKeeps, ReadPoolNonceKeeps,
     CachePoolNonceKeeps, SendRawTransactionKeeps, SendKeeps, KeysKeep DEF Method
<1>4. ASSUME NEW a \in Addr, Expire(a) PROVE WInv' BY <1>4, ExpireKeeps
<1>5. CASE UNCHANGED web3vars BY <1>5, ServiceStepKeeps DEF web3vars
<1> QED BY <1>1, <1>2, <1>3, <1>4, <1>5 DEF Web3Next

\* The inductive invariant holds in every reachable state of the HTTP service, the
\* Web3 methods and the engine together.
THEOREM Web3Invariance == Web3Spec => []WInv
<1>1. Web3Init => WInv BY WInvInit
<1>2. WInv /\ [Web3Next]_web3vars => WInv' BY WInvNext
<1> QED BY <1>1, <1>2, PTL DEF Web3Spec

\* Every variable keeps its type, the service's too: a method never signs without
\* a nonce.
THEOREM Web3TypeCorrect == Web3Spec => [](TypeOK /\ Web3TypeOK)
<1>1. WInv => TypeOK /\ Web3TypeOK BY DEF WInv, SInv, NInv
<1> QED BY <1>1, Web3Invariance, PTL

\* Web3 methods read and fill the pool's cache beside the handlers and the commits;
\* still no handler signs a nonce that its account has not reached.
THEOREM Web3NonceSafe == Web3Spec => []NonceNotAhead
<1>1. WInv => NonceNotAhead BY DEF WInv, SInv, NInv
<1> QED BY <1>1, Web3Invariance, PTL

\* Calls that leave their nonce open exclude each other per sender, for any number
\* of calls and however they end.
THEOREM SenderExclusion == Web3Spec => []NonceAssignedAlone
<1>1. WInv => NonceAssignedAlone
  BY DEF WInv, SenderLocks, NonceAssignedAlone
<1> QED BY <1>1, Web3Invariance, PTL

\* Whoever has sent it, a request or a call, a transaction is in exactly one place.
THEOREM Web3NeverDroppedOrDuplicated == Web3Spec => []Web3InOnePlace
<1>1. WInv => Web3InOnePlace
  BY OnePlace, SentInOnePlace DEF WInv, SInv, PInv, Web3InOnePlace, Web3Tracked
<1> QED BY <1>1, Web3Invariance, PTL

\* For every width of time.Duration: no number of seconds overflows into an unlock
\* for good.
THEOREM UnlockIsTimed == Web3Spec => []NotForGood
<1>1. WInv => NotForGood BY DEF WInv
<1> QED BY <1>1, Web3Invariance, PTL
=============================================================================
