-------------------------- MODULE EvmServiceProofs --------------------------
(***************************************************************************)
(* EvmService, for any accounts, requests, systems and bounds: the nonce   *)
(* that the service signs is never ahead of the account's, and a           *)
(* transaction is never duplicated or dropped on its way.                  *)
(***************************************************************************)
EXTENDS EvmService, DataInduction, FiniteSetTheorems

\* What the goroutines hold between their steps: a handler that has read the
\* pool's trie has a nonce, one that sends has a transaction, and so has the
\* engine or adapter until it returns to its select.
Holding ==
    /\ \A q \in Requests :
          /\ st[q] = "reading" => seen[q] # Unset
          /\ st[q] \in {"sending", "answering"} => txOf[q] # Unset
          /\ txOf[q] # Unset =>
                st[q] \in {"sending", "answering", "answered", "empty"}
    /\ eng \in {"submit", "soloCommit", "future"} => inHand # Unset

\* No copy of a nonce is newer than the committed one: neither the pool's trie,
\* nor its cache, nor what a handler has read and not cached yet; and the committed
\* one is not newer than that of the write-ahead state, which the next commit takes.
CopiesBehind ==
    /\ \A a \in Addr :
          /\ nonce[a] <= wasNonce[a]
          /\ poolTrie[a] <= nonce[a]
          /\ poolCache[a] # Unset => poolCache[a] <= nonce[a]
    /\ \A q \in Requests : seen[q] # Unset => seen[q] <= nonce[q.from]

NInv == TypeOK /\ Holding /\ CopiesBehind /\ NonceNotAhead

\* The places of InOnePlace.
Taken == IF eng \in {"submit", "soloCommit"} THEN {inHand} ELSE {}
Settled == applied \cup skipped
Anywhere == Taken \cup lost \cup ordered \cup Range(block) \cup Settled

\* No two places share a transaction.
Apart ==
    /\ Taken \cap (lost \cup ordered \cup Range(block) \cup Settled) = {}
    /\ lost \cap (ordered \cup Range(block) \cup Settled) = {}
    /\ ordered \cap (Range(block) \cup Settled) = {}
    /\ Range(block) \cap Settled = {}
    /\ applied \cap skipped = {}

Active == {q \in Requests : st[q] # "absent"}
Sent(q) == st[q] \in {"answering", "answered", "empty"} /\ txOf[q] # Unset

\* Requests of one behaviour differ in their ids, a transaction has the id of
\* its request, and one with the id of a request is somewhere exactly when that
\* request has been sent.
Tracked ==
    /\ \A q, r \in Active : q.id = r.id => q = r
    /\ \A q \in Requests :
          txOf[q] # Unset => st[q] # "absent" /\ txOf[q].id = q.id
    /\ \A q \in Active : \A t \in Anywhere :
          t.id = q.id => Sent(q) /\ t = txOf[q]
    /\ \A q \in Requests : Sent(q) => txOf[q] \in Anywhere

\* A block is processed or there is none; what raft is asked about it still has.
Phased ==
    /\ block # <<>> => eng \in {"commit", "process", "reset"}
    /\ eng = "future" => inHand \in ordered \cup skipped

PInv == Apart /\ Tracked /\ Phased

SInv == NInv /\ PInv

\* What no step undoes: the requests of the behaviour stay the same, no nonce goes
\* back, and nothing leaves the places; what comes to them is the transaction of a
\* request.
Steady ==
    /\ Active' = Active
    /\ \A a \in Addr : nonce[a] <= nonce'[a]
    /\ Anywhere \subseteq Anywhere'
    /\ \A t \in Anywhere' \ Anywhere : \E q \in Active : t = txOf[q] /\ t # Unset

-----------------------------------------------------------------------------
(* Facts about the operators of the model *)

\* A request is one of a scenario, and so are its fields.
LEMMA RequestsTyped ==
    /\ Requests \subseteq Request
    /\ \A q \in Requests : q.op = "rawtx" => q.nonce # Unset
BY ServiceAssumption DEF Requests

\* The holders of the mutexes are distinct, and no request.
LEMMA HoldersDistinct ==
    /\ Free # Engine /\ Free # Genesis /\ Engine # Genesis
    /\ Free \notin Requests /\ Engine \notin Requests /\ Genesis \notin Requests
<1>1. ASSUME NEW a, NEW b, {Free, Engine, Genesis} \subseteq {a, b} PROVE FALSE
  <2>1. IsFiniteSet({a, b}) /\ Cardinality({a, b}) <= 2
    <3>1. Cardinality({a}) = 1 /\ IsFiniteSet({a}) BY FS_Singleton
    <3>2. {a, b} = {a} \cup {b} OBVIOUS
    <3>3. IsFiniteSet({a} \cup {b}) /\ Cardinality({a} \cup {b}) <= 2
      BY <3>1, FS_AddElement
    <3> QED BY <3>2, <3>3
  <2>2. Cardinality({Free, Engine, Genesis}) <= Cardinality({a, b})
    BY <1>1, <2>1, FS_Subset
  <2>3. Cardinality({a, b}) \in Nat BY <2>1, FS_CardinalityType
  <2> QED BY <2>1, <2>2, <2>3, ServiceAssumption
<1>2. Free # Engine BY <1>1
<1>3. Free # Genesis BY <1>1
<1>4. Engine # Genesis BY <1>1
<1> QED BY <1>2, <1>3, <1>4, ServiceAssumption

\* What prepareTransaction signs is a transaction.
LEMMA PreparedTyped ==
    ASSUME NEW q \in Requests, NEW n \in Nat
    PROVE  Prepared(q, n) \in Tx /\ Prepared(q, n).id = q.id
           /\ Prepared(q, n).nonce = n
BY RequestsTyped DEF Prepared, Tx, Request

\* A block has no length 0 and only what consensus had.
LEMMA BlocksTyped ==
    ASSUME NEW S, NEW b \in Blocks(S)
    PROVE  b \in Seq(S) /\ Range(b) \subseteq S /\ b # <<>> /\ b[1] \in Range(b)
<1>1. PICK n \in 1..MaxBlockTxs : b \in [1..n -> S] BY DEF Blocks
<1>2. n \in Nat /\ n >= 1 BY ServiceAssumption
<1>3. b \in Seq(S) /\ Len(b) = n BY <1>1, <1>2
<1> QED BY <1>1, <1>2, <1>3 DEF Range

\* Processing a block takes no nonce back, whatever is in it and is rejected.
LEMMA NoncesGrow ==
    ASSUME wasNonce \in [Addr -> Nat], NEW b \in Seq(Tx), NEW passed
    PROVE  /\ NoncesAfter(b, passed) \in [Addr -> Nat]
           /\ \A a \in Addr : wasNonce[a] <= NoncesAfter(b, passed)[a]
<1> DEFINE S == {m \in [Addr -> Nat] : \A a \in Addr : wasNonce[a] <= m[a]}
           one(i, m) == IF /\ i \in passed /\ b[i].decodes
                           /\ m[b[i].from] = b[i].nonce
                        THEN [m EXCEPT ![b[i].from] = @ + 1] ELSE m
           step == [i \in 1..Len(b) |-> [m \in S |-> one(i, m)]]
           Runs(g) == g = [i \in 0..Len(b) |-> IF i = 0 THEN wasNonce
                                               ELSE one(i, g[i - 1])]
<1> DEFINE f == CHOOSE h : Runs(h)
<1>1. NoncesAfter(b, passed) = f[Len(b)] BY DEF NoncesAfter
<1>2. wasNonce \in S OBVIOUS
<1>3. ASSUME NEW i \in 1..Len(b), NEW m \in S PROVE one(i, m) \in S
  <2>1. b[i] \in Tx OBVIOUS
  <2>2. b[i].from \in Addr BY <2>1 DEF Tx
  <2>3. [m EXCEPT ![b[i].from] = @ + 1] \in S BY <2>2
  <2> HIDE DEF S
  <2> QED BY <2>3
<1>4. Len(b) \in Nat
  OBVIOUS
<1>5. \A m \in S : m \in [Addr -> Nat] /\ \A a \in Addr : wasNonce[a] <= m[a]
  OBVIOUS
<1> HIDE DEF S, one
<1>6. PICK g \in Iterations(Len(b), S, wasNonce, step) : TRUE
  <2>1. step \in [1..Len(b) -> [S -> S]] BY <1>3, <1>4
  <2> HIDE DEF step, f, Runs
  <2>2. Iterations(Len(b), S, wasNonce, step) # {} BY <1>2, <1>4, <2>1, Iteration
  <2> QED BY <2>2
<1>7. Runs(f)
  <2>1. ASSUME NEW i \in 1..Len(b) PROVE g[i] = one(i, g[i - 1])
    <3>1. i - 1 \in 0..Len(b) BY <1>4
    <3>2. g[i - 1] \in S BY <1>6, <3>1 DEF Iterations
    <3> QED BY <1>6, <3>2 DEF Iterations
  <2>2. Runs(g)
    <3> HIDE DEF step
    <3> QED BY <1>4, <1>6, <2>1 DEF Iterations
  <2> HIDE DEF Runs
  <2> QED BY <2>2
<1> HIDE DEF f
<1>8. f[Len(b)] \in S
  <2> DEFINE T == {i \in 0..Len(b) : f[i] \in S}
  <2>1. 0 \in T BY <1>2, <1>4, <1>7
  <2>2. ASSUME NEW i \in 0..(Len(b) - 1), i \in T PROVE i + 1 \in T
    <3>1. i + 1 \in 1..Len(b) /\ i + 1 \in 0..Len(b) /\ i + 1 # 0 /\ (i + 1) - 1 = i
      BY <1>4
    <3>2. f[i + 1] = one(i + 1, f[i]) BY <1>7, <3>1
    <3> QED BY <1>3, <1>4, <2>2, <3>1, <3>2
  <2>3. 0..Len(b) \subseteq T
    <3> HIDE DEF T
    <3> QED BY <1>4, <2>1, <2>2, UpTo
  <2> QED BY <1>4, <2>3
<1> QED BY <1>1, <1>5, <1>8

-----------------------------------------------------------------------------
(* Init *)

\* The service that NewService returns satisfies the invariant.
LEMMA SInvInit == ASSUME NEW s \in Scenarios, InitFrom(s) PROVE SInv
<1> USE DEF InitFrom
<1>1. s.requests \subseteq Requests BY DEF Requests
<1>2. TypeOK
  <2>1. <<>> \in Seq(Tx) OBVIOUS
  <2> QED BY <2>1, ServiceAssumption DEF TypeOK, KeyStates, Phases
<1>3. Holding BY DEF Holding
<1>4. CopiesBehind /\ NonceNotAhead
  BY RequestsTyped DEF CopiesBehind, NonceNotAhead, Request
<1>5. Taken = {} /\ Range(block) = {} /\ Anywhere = s.foreign
  BY DEF Taken, Range, Settled, Anywhere
<1>6. Apart BY <1>5 DEF Apart, Settled
<1>7. Active = s.requests BY <1>1 DEF Active
<1>8. Tracked BY <1>5, <1>7, ServiceAssumption DEF Tracked, Sent
<1>9. Phased BY DEF Phased
<1> QED BY <1>2, <1>3, <1>4, <1>6, <1>8, <1>9 DEF SInv, NInv, PInv

-----------------------------------------------------------------------------
(* The handlers *)

\* A request that goes on, or ends, without sending anything.
LEMMA MovesKeep ==
    ASSUME SInv, NEW q \in Requests, NEW p \in Phases,
           p \notin {"absent", "reading", "sending", "answering"},
           st[q] # "absent", txOf[q] = Unset \/ st[q] = "answering",
           st[q] = "answering" => p \in {"answered", "empty"},
           st' = [st EXCEPT ![q] = p],
           mu' \in Requests \cup {Free},
           commitMu' \in Requests \cup {Free, Engine, Genesis},
           UNCHANGED <<node, txOf, seen, engine, state>>
    PROVE  SInv' /\ Steady
<1> USE DEF SInv, NInv, PInv, node, engine, state
<1>1. TypeOK' BY DEF TypeOK
<1>2. Holding' BY DEF Holding, TypeOK
<1>3. CopiesBehind' BY DEF CopiesBehind
<1>4. NonceNotAhead' BY DEF NonceNotAhead
<1>5. UNCHANGED <<Taken, Anywhere>> BY DEF Taken, Settled, Anywhere
<1>6. Apart' BY <1>5 DEF Apart, Settled
<1>7. Tracked'
  <2>1. Active' = Active BY DEF Active, TypeOK
  <2>2. \A r \in Requests : Sent(r)' <=> Sent(r) BY DEF Sent, TypeOK, Holding
  <2> QED BY <1>5, <2>1, <2>2 DEF Tracked, Active
<1>8. Phased' BY DEF Phased
<1>9. Steady BY <1>5 DEF Steady, Active, TypeOK
<1> QED BY <1>1, <1>2, <1>3, <1>4, <1>6, <1>7, <1>8, <1>9

\* prepareTransaction with a nonce that is not ahead of the account's.
LEMMA prepareTransactionKeeps ==
    ASSUME SInv, NEW q \in Requests, NEW n \in Nat,
           q.nonce = Unset => n <= nonce[q.from],
           st[q] \in {"handling", "reading"},
           prepareTransaction(q, n),
           seen' \in [Requests -> Nat \cup {Unset}],
           poolCache' \in [Addr -> Nat \cup {Unset}],
           \A r \in Requests : r # q => seen'[r] = seen[r],
           \A r \in Requests : seen'[r] # Unset => seen'[r] <= nonce[r.from],
           \A a \in Addr : poolCache'[a] # Unset => poolCache'[a] <= nonce[a],
           UNCHANGED <<node, commitMu, engine, nonce, wasNonce, poolTrie, faults>>
    PROVE  SInv' /\ Steady
<1> USE DEF SInv, NInv, PInv, node, engine
<1>1. txOf[q] = Unset /\ st[q] # "absent" BY DEF Holding
<1>2. /\ mu' \in Requests \cup {Free}
      /\ \/ UNCHANGED txOf /\ \E p \in {"panicked", "error"} : st' = [st EXCEPT ![q] = p]
         \/ txOf' = [txOf EXCEPT ![q] = Prepared(q, n)] /\ st' = [st EXCEPT ![q] = "sending"]
  BY DEF prepareTransaction, Panic, Return, TypeOK
<1>3. TypeOK'
  <2>1. txOf' \in [Requests -> Tx \cup {Unset}]
    <3>1. Prepared(q, n) \in Tx BY PreparedTyped
    <3> QED BY <1>2, <3>1 DEF TypeOK
  <2>2. st' \in [Requests -> Phases] BY <1>2 DEF TypeOK, Phases
  <2> QED BY <1>2, <2>1, <2>2 DEF TypeOK
<1>4. \A r \in Requests : r # q => st'[r] = st[r] /\ txOf'[r] = txOf[r]
  BY <1>2 DEF TypeOK
<1>5. \/ txOf'[q] = Unset /\ st'[q] \in {"panicked", "error"}
      \/ txOf'[q] = Prepared(q, n) /\ st'[q] = "sending"
  BY <1>1, <1>2 DEF TypeOK
<1>6. Prepared(q, n) # Unset BY PreparedTyped, ServiceAssumption
<1>7. Holding' BY <1>4, <1>5, <1>6 DEF Holding
<1>8. CopiesBehind' BY DEF CopiesBehind
<1>9. NonceNotAhead' BY <1>4, <1>5, PreparedTyped DEF NonceNotAhead
<1>10. UNCHANGED <<Taken, Anywhere>> BY DEF Taken, Settled, Anywhere
<1>11. Apart' BY <1>10 DEF Apart, Settled
<1>12. Tracked'
  <2>1. Active' = Active BY <1>1, <1>4, <1>5 DEF Active
  <2>2. \A r \in Requests : Sent(r)' <=> Sent(r) BY <1>1, <1>4, <1>5 DEF Sent
  <2>3. \A r \in Requests : Sent(r) => r # q BY <1>1 DEF Sent
  <2>4. \A r \in Requests : txOf'[r] # Unset => st'[r] # "absent" /\ txOf'[r].id = r.id
    BY <1>4, <1>5, PreparedTyped DEF Tracked
  <2> QED BY <1>4, <1>10, <2>1, <2>2, <2>3, <2>4 DEF Tracked, Active
<1>13. Phased' BY DEF Phased
<1>14. Steady BY <1>1, <1>4, <1>5, <1>10 DEF Steady, Active, TypeOK
<1> QED BY <1>3, <1>7, <1>8, <1>9, <1>11, <1>12, <1>13, <1>14

\* A request arrives, and the handlers that send nothing.
LEMMA QueriesKeep ==
    ASSUME SInv, NEW q \in Requests,
           \/ Arrive(q) \/ makeHandler(q) \/ accountHandler(q) \/ lookupHandler(q)
           \/ infoHandler(q) \/ callHandler(q) \/ LockForCall(q) \/ Call(q)
    PROVE  SInv' /\ Steady
<1>1. TypeOK /\ Holding BY DEF SInv, NInv
<1>2. /\ st[q] \in {"idle", "waiting", "handling", "calling", "executing"}
      /\ \E p \in {"waiting", "handling", "calling", "executing", "answered",
                   "error", "panicked"} : st' = [st EXCEPT ![q] = p]
      /\ mu' \in Requests \cup {Free}
      /\ commitMu' \in Requests \cup {Free, Engine, Genesis}
      /\ UNCHANGED <<node, txOf, seen, engine, state>>
  BY <1>1 DEF Arrive, makeHandler, accountHandler, lookupHandler, infoHandler,
     callHandler, prepareCallMessage, LockForCall, Call, Handling, Return, Panic,
     TypeOK
<1>3. txOf[q] = Unset BY <1>1, <1>2 DEF Holding
<1> QED BY <1>2, <1>3, MovesKeep DEF Phases

\* transactionHandler up to the send or to the first half of the read.
LEMMA transactionHandlerKeeps ==
    ASSUME SInv, NEW q \in Requests, transactionHandler(q) PROVE SInv' /\ Steady
<1>1. TypeOK /\ Holding /\ CopiesBehind BY DEF SInv, NInv
<1>2. st[q] = "handling" /\ txOf[q] = Unset /\ q.from \in Addr
  BY <1>1, RequestsTyped DEF transactionHandler, Handling, Holding, Request
<1>3. CASE Return(q, "error") /\ UNCHANGED <<txOf, seen>>
  BY <1>1, <1>2, <1>3, MovesKeep DEF transactionHandler, Return, Phases, TypeOK
<1>4. ASSUME NEW n \in Nat, q.nonce = Unset => n <= nonce[q.from],
             prepareTransaction(q, n), UNCHANGED seen
      PROVE  SInv' /\ Steady
  BY <1>1, <1>2, <1>4, prepareTransactionKeeps
     DEF transactionHandler, state, TypeOK, CopiesBehind
<1>5. CASE q.nonce # Unset /\ prepareTransaction(q, q.nonce) /\ UNCHANGED seen
  BY <1>4, <1>5, RequestsTyped DEF Request
<1>6. CASE /\ poolCache[q.from] # Unset
           /\ prepareTransaction(q, poolCache[q.from]) /\ UNCHANGED seen
  BY <1>1, <1>2, <1>4, <1>6 DEF TypeOK, CopiesBehind
<1>7. CASE /\ seen' = [seen EXCEPT ![q] = poolTrie[q.from]]
           /\ st' = [st EXCEPT ![q] = "reading"]
           /\ UNCHANGED <<mu, txOf>>
  <2> USE DEF SInv, NInv, PInv, transactionHandler, node, engine, state
  <2>1. TypeOK' BY <1>2, <1>7 DEF TypeOK, Phases
  <2>2. Holding' BY <1>2, <1>7, ServiceAssumption DEF Holding, TypeOK
  <2>3. CopiesBehind' BY <1>2, <1>7 DEF CopiesBehind, TypeOK
  <2>4. NonceNotAhead' BY <1>7 DEF NonceNotAhead
  <2>5. UNCHANGED <<Taken, Anywhere>> BY DEF Taken, Settled, Anywhere
  <2>6. Apart' BY <2>5 DEF Apart, Settled
  <2>7. Tracked'
    <3>1. Active' = Active BY <1>2, <1>7 DEF Active, TypeOK
    <3>2. \A r \in Requests : Sent(r)' <=> Sent(r) BY <1>2, <1>7 DEF Sent, TypeOK
    <3> QED BY <1>7, <2>5, <3>1, <3>2 DEF Tracked, Active
  <2>8. Phased' BY DEF Phased
  <2>9. Steady BY <1>2, <1>7, <2>5 DEF Steady, Active, TypeOK
  <2> QED BY <2>1, <2>2, <2>3, <2>4, <2>6, <2>7, <2>8, <2>9
<1> QED BY <1>3, <1>5, <1>6, <1>7 DEF transactionHandler

\* The second half of the read: what was read may be old by now, never new.
LEMMA GetPoolNonceKeeps ==
    ASSUME SInv, NEW q \in Requests, GetPoolNonce(q) PROVE SInv' /\ Steady
<1>1. TypeOK /\ Holding /\ CopiesBehind BY DEF SInv, NInv
<1>2. seen[q] \in Nat /\ q.from \in Addr /\ seen[q] <= nonce[q.from]
  BY <1>1, RequestsTyped DEF GetPoolNonce, Holding, TypeOK, CopiesBehind, Request
<1>3. /\ seen' \in [Requests -> Nat \cup {Unset}]
      /\ poolCache' \in [Addr -> Nat \cup {Unset}]
      /\ \A r \in Requests : r # q => seen'[r] = seen[r]
      /\ \A r \in Requests : seen'[r] # Unset => seen'[r] <= nonce[r.from]
      /\ \A a \in Addr : poolCache'[a] # Unset => poolCache'[a] <= nonce[a]
  BY <1>1, <1>2 DEF GetPoolNonce, TypeOK, CopiesBehind
<1> QED BY <1>2, <1>3, prepareTransactionKeeps DEF GetPoolNonce

\* rawTransactionHandler up to the send: a raw transaction has its own nonce.
LEMMA rawTransactionHandlerKeeps ==
    ASSUME SInv, NEW q \in Requests, rawTransactionHandler(q) PROVE SInv' /\ Steady
<1>1. TypeOK /\ Holding BY DEF SInv, NInv
<1>2. st[q] = "handling" /\ txOf[q] = Unset /\ q.nonce # Unset /\ q.nonce \in Nat
  BY <1>1, RequestsTyped DEF rawTransactionHandler, Handling, Holding, Request
<1>3. CASE Return(q, "error") /\ UNCHANGED txOf
  BY <1>1, <1>2, <1>3, MovesKeep DEF rawTransactionHandler, Return, Phases, TypeOK
<1>4. CASE /\ txOf' = [txOf EXCEPT ![q] = Prepared(q, q.nonce)]
           /\ st' = [st EXCEPT ![q] = "sending"]
           /\ UNCHANGED mu
  <2> USE DEF SInv, NInv, PInv, rawTransactionHandler, node, engine, state
  <2>1. TypeOK' BY <1>2, <1>4, PreparedTyped DEF TypeOK, Phases
  <2>2. \A r \in Requests : r # q => st'[r] = st[r] /\ txOf'[r] = txOf[r]
    BY <1>4 DEF TypeOK
  <2>3. txOf'[q] = Prepared(q, q.nonce) /\ st'[q] = "sending" BY <1>4 DEF TypeOK
  <2>4. txOf'[q].id = q.id /\ txOf'[q] # Unset
    BY <1>2, <2>3, PreparedTyped, ServiceAssumption
  <2>5. Holding' BY <2>2, <2>3, <2>4 DEF Holding
  <2>6. CopiesBehind' BY DEF CopiesBehind
  <2>7. NonceNotAhead' BY <1>2, <2>2 DEF NonceNotAhead
  <2>8. UNCHANGED <<Taken, Anywhere>> BY DEF Taken, Settled, Anywhere
  <2>9. Apart' BY <2>8 DEF Apart, Settled
  <2>10. Tracked'
    <3>1. Active' = Active BY <1>2, <2>2, <2>3 DEF Active
    <3>2. \A r \in Requests : Sent(r)' <=> Sent(r) BY <1>2, <2>2, <2>3 DEF Sent
    <3>3. \A r \in Requests : Sent(r) => r # q BY <1>2 DEF Sent
    <3> QED BY <2>2, <2>3, <2>4, <2>8, <3>1, <3>2, <3>3 DEF Tracked, Active
  <2>11. Phased' BY DEF Phased
  <2>12. Steady BY <1>2, <2>2, <2>3, <2>8 DEF Steady, Active, TypeOK
  <2> QED BY <2>1, <2>5, <2>6, <2>7, <2>9, <2>10, <2>11, <2>12
<1> QED BY <1>3, <1>4 DEF rawTransactionHandler

\* The hash is returned.
LEMMA AnswerKeeps ==
    ASSUME SInv, NEW q \in Requests, Answer(q) PROVE SInv' /\ Steady
<1>1. TypeOK BY DEF SInv, NInv
<1> QED BY <1>1, MovesKeep DEF Answer, Return, Phases, TypeOK

\* The engine receives a transaction that nobody has: its request has not been
\* sent before, and no other one has its id.
LEMMA SubmitKeeps ==
    ASSUME SInv, NEW q \in Requests, Submit(q) PROVE SInv' /\ Steady
<1> USE DEF SInv, NInv, PInv, Submit, node, state
<1>1. txOf[q] # Unset /\ txOf[q] \in Tx /\ txOf[q].id = q.id /\ q \in Active
  BY DEF Holding, TypeOK, Tracked, Active
<1>2. TypeOK' BY DEF TypeOK, Phases
<1>3. Holding' BY <1>1 DEF Holding, TypeOK
<1>4. CopiesBehind' BY DEF CopiesBehind
<1>5. NonceNotAhead' BY DEF NonceNotAhead
<1>6. /\ Taken = {} /\ Taken' = {txOf[q]}
      /\ Anywhere' = Anywhere \cup {txOf[q]}
      /\ ~Sent(q) /\ txOf[q] \notin Anywhere
  BY <1>1 DEF Taken, Settled, Anywhere, Tracked, Sent
<1>7. Apart' BY <1>6 DEF Apart, Settled, Anywhere
<1>8. Tracked'
  <2>1. Active' = Active BY <1>1 DEF Active, TypeOK
  <2>2. Sent(q)' BY <1>1 DEF Sent, TypeOK
  <2>3. \A r \in Requests : r # q => (Sent(r)' <=> Sent(r)) BY DEF Sent, TypeOK
  <2>4. \A r \in Active : r.id = q.id => r = q BY <1>1 DEF Tracked
  <2>5. \A r \in Active, t \in Anywhere' : t.id = r.id => Sent(r)' /\ t = txOf[r]
    <3> SUFFICES ASSUME NEW r \in Active, NEW t \in Anywhere', t.id = r.id
                 PROVE  Sent(r)' /\ t = txOf[r]
      OBVIOUS
    <3>1. CASE t \in Anywhere
      <4>1. Sent(r) /\ t = txOf[r] BY <3>1 DEF Tracked
      <4> QED BY <1>6, <2>3, <4>1 DEF Active
    <3>2. CASE t = txOf[q] BY <1>1, <2>2, <2>4, <3>2
    <3> QED BY <1>6, <3>1, <3>2
  <2>6. \A r \in Requests : Sent(r)' => txOf[r] \in Anywhere'
    BY <1>6, <2>3 DEF Tracked
  <2>7. \A r \in Requests : txOf[r] # Unset => st'[r] # "absent" /\ txOf[r].id = r.id
    BY DEF Tracked, TypeOK
  <2>8. \A r, r2 \in Active : r.id = r2.id => r = r2 BY DEF Tracked
  <2> QED BY <2>1, <2>5, <2>6, <2>7, <2>8 DEF Tracked
<1>9. Phased' BY DEF Phased
<1>10. Steady BY <1>1, <1>6 DEF Steady, Active, TypeOK
<1> QED BY <1>2, <1>3, <1>4, <1>5, <1>7, <1>8, <1>9, <1>10

-----------------------------------------------------------------------------
(* Service.Run, the engine and the adapters *)

\* A step of theirs changes no request; the pool it may reset.
LEMMA EngineStep ==
    ASSUME SInv, UNCHANGED <<system, client>>,
           wasNonce' \in [Addr -> Nat], \A a \in Addr : wasNonce[a] <= wasNonce'[a],
           \/ UNCHANGED <<nonce, poolTrie, poolCache>>
           \/ nonce' = wasNonce /\ ResetPool,
           Anywhere' = Anywhere
    PROVE  CopiesBehind' /\ NonceNotAhead' /\ Tracked' /\ Steady
<1> USE DEF SInv, NInv, PInv, client
<1>0. nonce' \in [Addr -> Nat] /\ \A a \in Addr : nonce[a] <= nonce'[a]
  BY DEF CopiesBehind, TypeOK
<1>1. ASSUME NEW q \in Requests
      PROVE  q.from \in Addr /\ nonce[q.from] \in Nat /\ nonce'[q.from] \in Nat
             /\ nonce[q.from] <= nonce'[q.from]
             /\ (txOf[q] # Unset => txOf[q].nonce \in Nat)
             /\ (seen[q] # Unset => seen[q] \in Nat)
  BY <1>0, RequestsTyped DEF TypeOK, Request, Tx
<1>2. CopiesBehind'
  <2>1. \A a \in Addr : /\ nonce'[a] <= wasNonce'[a] /\ poolTrie'[a] <= nonce'[a]
                        /\ poolCache'[a] # Unset => poolCache'[a] <= nonce'[a]
    BY <1>0 DEF CopiesBehind, ResetPool, TypeOK
  <2>2. \A q \in Requests : seen'[q] # Unset => seen'[q] <= nonce'[q.from]
    BY <1>1 DEF CopiesBehind
  <2> QED BY <2>1, <2>2 DEF CopiesBehind
<1>3. NonceNotAhead'
  BY <1>1 DEF NonceNotAhead
<1>4. Tracked' BY DEF Tracked, Active, Sent
<1>5. Steady BY <1>0 DEF Steady, Active
<1> QED BY <1>2, <1>3, <1>4, <1>5

\* Service.Run opens the keystore, creates the genesis accounts and starts the
\* servers.
LEMMA RunKeeps == ASSUME SInv, Run PROVE SInv' /\ Steady
<1> USE DEF SInv, NInv, PInv, Run, OpenKeyStore, BeginGenesis, createGenesisAccounts,
            StartServers, CommitSucceeds, engine, client, state
<1>1. TypeOK'
  BY DEF TypeOK, KeyStates, ResetPool
<1>2. Holding' BY DEF Holding
<1>3. UNCHANGED <<Taken, Anywhere>> BY DEF Taken, Settled, Anywhere
<1>4. CopiesBehind' /\ NonceNotAhead' /\ Tracked' /\ Steady
  <2>1. wasNonce' = wasNonce
        /\ (UNCHANGED <<nonce, poolTrie, poolCache>> \/ (nonce' = wasNonce /\ ResetPool))
    OBVIOUS
  <2>2. wasNonce' \in [Addr -> Nat] /\ \A a \in Addr : wasNonce[a] <= wasNonce'[a]
    BY <2>1 DEF TypeOK
  <2> QED BY <1>3, <2>1, <2>2, EngineStep
<1>5. Apart' BY <1>3 DEF Apart, Settled
<1>6. Phased' BY DEF Phased
<1> QED BY <1>1, <1>2, <1>4, <1>5, <1>6

\* What the engine has in hand goes to consensus, or is lost.
LEMMA SubmitTxKeeps == ASSUME SInv, SubmitTx PROVE SInv' /\ Steady
<1> USE DEF SInv, NInv, PInv, SubmitTx, node, client, state
<1>1. inHand # Unset /\ inHand \in Tx BY DEF Holding, TypeOK
<1>2. TypeOK' BY <1>1 DEF TypeOK
<1>3. Holding' BY DEF Holding
<1>4. /\ Taken = {inHand} /\ Taken' = {}
      /\ Anywhere' = Anywhere
  BY DEF Taken, Settled, Anywhere
<1>5. CopiesBehind' /\ NonceNotAhead' /\ Tracked' /\ Steady
  BY <1>2, <1>4, EngineStep DEF TypeOK
<1>6. Apart' BY <1>4 DEF Apart, Settled
<1>7. Phased' BY DEF Phased
<1> QED BY <1>2, <1>3, <1>5, <1>6, <1>7

\* A block is made of what consensus has.
LEMMA CommitChKeeps == ASSUME SInv, CommitCh PROVE SInv' /\ Steady
<1> USE DEF SInv, NInv, PInv, CommitCh, node, client, state
<1>1. block = <<>> /\ Range(block) = {} BY DEF Phased, Range
<1>2. /\ Range(block') \subseteq ordered /\ ordered' = ordered \ Range(block')
      /\ block' \in Seq(Tx)
  BY BlocksTyped DEF TypeOK
<1>3. TypeOK' BY <1>2 DEF TypeOK
<1>4. Holding' BY DEF Holding
<1>5. /\ Taken = {} /\ Taken' = {}
      /\ Anywhere' = Anywhere
  BY <1>1, <1>2 DEF Taken, Settled, Anywhere
<1>6. CopiesBehind' /\ NonceNotAhead' /\ Tracked' /\ Steady
  BY <1>3, <1>5, EngineStep DEF TypeOK
<1>7. Apart' BY <1>1, <1>2, <1>5 DEF Apart, Settled
<1>8. Phased' BY DEF Phased
<1> QED BY <1>3, <1>4, <1>6, <1>7, <1>8

\* The engine takes commitMutex for it and executes it.
LEMMA ProcessKeeps ==
    ASSUME SInv, BeginProcessBlock \/ ProcessBlock PROVE SInv' /\ Steady
<1> USE DEF SInv, NInv, PInv, BeginProcessBlock, ProcessBlock, node, client, state
<1>1. wasNonce' \in [Addr -> Nat] /\ \A a \in Addr : wasNonce[a] <= wasNonce'[a]
  <2>1. CASE UNCHANGED wasNonce BY <2>1 DEF TypeOK
  <2>2. ASSUME NEW passed, wasNonce' = NoncesAfter(block, passed)
        PROVE  wasNonce' \in [Addr -> Nat] /\ \A a \in Addr : wasNonce[a] <= wasNonce'[a]
    BY <2>2, NoncesGrow DEF TypeOK
  <2> QED BY <2>1, <2>2
<1>2. TypeOK' BY <1>1 DEF TypeOK
<1>3. Holding' BY DEF Holding
<1>4. Taken = {} /\ Taken' = {} /\ UNCHANGED Settled /\ Anywhere' = Anywhere
  BY DEF Taken, Settled, Anywhere
<1>5. CopiesBehind' /\ NonceNotAhead' /\ Tracked' /\ Steady
  BY <1>1, <1>4, EngineStep
<1>6. Apart' BY <1>4 DEF Apart, Settled
<1>7. Phased' BY DEF Phased
<1> QED BY <1>2, <1>3, <1>5, <1>6, <1>7

\* A step with a commit, one with a write that fails, and one with neither.
CommitsOrNot ==
    /\ UNCHANGED wasNonce
    /\ \/ UNCHANGED <<nonce, poolTrie, poolCache>>
       \/ nonce' = wasNonce /\ ResetPool
    /\ \/ UNCHANGED faults
       \/ faults < MaxFaults /\ faults' = faults + 1

\* It keeps the type of the State's variables.
LEMMA CommitTyped ==
    ASSUME TypeOK, CommitsOrNot
    PROVE  /\ nonce' \in [Addr -> Nat] /\ wasNonce' \in [Addr -> Nat]
           /\ poolTrie' \in [Addr -> Nat]
           /\ poolCache' \in [Addr -> Nat \cup {Unset}]
           /\ faults' \in 0..MaxFaults
BY ServiceAssumption DEF TypeOK, CommitsOrNot, ResetPool

\* The transactions of the block are applied, or skipped when they do not decode;
\* all of them are lost when the block cannot be stored.
LEMMA BlockEndKeeps ==
    ASSUME SInv, StoreBlockFails \/ EndProcessBlock PROVE SInv' /\ Steady
<1> USE DEF SInv, NInv, PInv, StoreBlockFails, EndProcessBlock, Respond, node, client
<1>1. Range(block) \subseteq Tx /\ Range(block') = {} BY DEF TypeOK, Range
<1>2. CommitsOrNot BY DEF CommitsOrNot, Commit, CommitSucceeds, CommitFails
<1>3. \/ lost' = lost \cup Range(block) /\ UNCHANGED <<applied, skipped>>
      \/ /\ UNCHANGED lost
         /\ applied' = applied \cup {t \in Range(block) : t.decodes}
         /\ skipped' = skipped \cup {t \in Range(block) : ~t.decodes}
  OBVIOUS
<1>4. TypeOK'
  <2>1. block' \in Seq(Tx)
    <3>1. block' = <<>> OBVIOUS
    <3> QED BY <3>1
  <2>2. lost' \subseteq Tx /\ applied' \subseteq Tx /\ skipped' \subseteq Tx BY <1>1, <1>3 DEF TypeOK
  <2> QED BY <1>2, <2>1, <2>2, CommitTyped DEF TypeOK
<1>5. Holding' BY DEF Holding
<1>6. /\ Taken = {} /\ Taken' = {}
      /\ \/ lost' = lost \cup Range(block) /\ UNCHANGED Settled
         \/ Settled' = Settled \cup Range(block) /\ UNCHANGED lost
      /\ Anywhere' = Anywhere
  BY <1>1, <1>3 DEF Taken, Settled, Anywhere
<1>7. CopiesBehind' /\ NonceNotAhead' /\ Tracked' /\ Steady
  BY <1>2, <1>4, <1>6, EngineStep DEF TypeOK, CommitsOrNot
<1>8. Apart' BY <1>1, <1>3, <1>6 DEF Apart, Settled
<1>9. Phased' BY DEF Phased
<1> QED BY <1>4, <1>5, <1>7, <1>8, <1>9

\* Solo applies what it has in hand, and commits.
LEMMA SoloKeeps == ASSUME SInv, SoloApply \/ SoloCommit PROVE SInv' /\ Steady
<1> USE DEF SInv, NInv, PInv, SoloApply, SoloCommit, node, client, state
<1>1. inHand # Unset /\ inHand \in Tx BY DEF Holding, TypeOK
<1>2. CommitsOrNot BY DEF CommitsOrNot, Commit, CommitSucceeds, CommitFails
<1>3. TypeOK' BY <1>1, <1>2, CommitTyped DEF TypeOK
<1>4. Holding' BY DEF Holding
<1>5. /\ Taken = {inHand}
      /\ \/ UNCHANGED <<Taken, skipped>>
         \/ Taken' = {} /\ skipped' = skipped \cup {inHand}
      /\ Anywhere' = Anywhere
  BY DEF Taken, Settled, Anywhere
<1>6. CopiesBehind' /\ NonceNotAhead' /\ Tracked' /\ Steady
  BY <1>2, <1>3, <1>5, EngineStep DEF TypeOK, CommitsOrNot
<1>7. Apart' BY <1>5 DEF Apart, Settled
<1>8. Phased' BY DEF Phased
<1> QED BY <1>3, <1>4, <1>6, <1>7, <1>8

\* Raft takes what the adapter has in hand, or it is lost.
LEMMA RaftRelayKeeps == ASSUME SInv, RaftRelay PROVE SInv' /\ Steady
<1> USE DEF SInv, NInv, PInv, RaftRelay, node, client, state
<1>1. inHand # Unset /\ inHand \in Tx BY DEF Holding, TypeOK
<1>2. TypeOK' BY <1>1 DEF TypeOK
<1>3. Holding' BY DEF Holding
<1>4. Taken = {inHand} /\ Taken' = {} /\ Anywhere' = Anywhere
  BY DEF Taken, Settled, Anywhere
<1>5. CopiesBehind' /\ NonceNotAhead' /\ Tracked' /\ Steady
  BY <1>2, <1>4, EngineStep DEF TypeOK
<1>6. Apart' BY <1>4 DEF Apart, Settled
<1>7. Phased' BY DEF Phased
<1> QED BY <1>2, <1>3, <1>5, <1>6, <1>7

\* The future resolves: the transaction stays where it is, or the next leader
\* does not have it.
LEMMA RaftFutureKeeps == ASSUME SInv, RaftFuture PROVE SInv' /\ Steady
<1> USE DEF SInv, NInv, PInv, RaftFuture, node, client, state
<1>1. inHand # Unset /\ inHand \in Tx BY DEF Holding, TypeOK
<1>2. TypeOK' BY <1>1 DEF TypeOK
<1>3. Holding' BY DEF Holding
<1>4. Taken = {} /\ Taken' = {} /\ Anywhere' = Anywhere
  BY DEF Taken, Settled, Anywhere
<1>5. CopiesBehind' /\ NonceNotAhead' /\ Tracked' /\ Steady
  BY <1>2, <1>4, EngineStep DEF TypeOK
<1>6. Apart' BY <1>4 DEF Apart, Settled
<1>7. Phased' BY DEF Phased
<1> QED BY <1>2, <1>3, <1>5, <1>6, <1>7

\* Raft and lachesis deliver what they have ordered.
LEMMA DeliverKeeps == ASSUME SInv, deliver PROVE SInv' /\ Steady
<1> USE DEF SInv, NInv, PInv
<1>1. \E B : /\ B \subseteq ordered
             /\ ordered' = ordered \ B /\ skipped' = skipped \cup B
  <2>1. CASE FSMApply
    <3>1. PICK t \in ordered :
              IF ApplyTransaction(t) = "panic"
              THEN UNCHANGED <<ordered, skipped>>
              ELSE ordered' = ordered \ {t} /\ skipped' = skipped \cup {t}
      BY <2>1 DEF FSMApply
    <3>2. CASE UNCHANGED <<ordered, skipped>>
      <4>1. {} \subseteq ordered /\ ordered' = ordered \ {}
            /\ skipped' = skipped \cup {}
        BY <3>2
      <4> QED BY <4>1
    <3>3. CASE ordered' = ordered \ {t} /\ skipped' = skipped \cup {t}
      <4>1. {t} \subseteq ordered OBVIOUS
      <4> QED BY <3>3, <4>1
    <3> QED BY <3>1, <3>2, <3>3
  <2>2. CASE CommitBlock
    <3>1. PICK b \in Blocks(ordered) :
              IF ApplyTransaction(b[1]) = "panic"
              THEN UNCHANGED <<ordered, skipped>>
              ELSE ordered' = ordered \ Range(b) /\ skipped' = skipped \cup Range(b)
      BY <2>2 DEF CommitBlock
    <3>2. CASE UNCHANGED <<ordered, skipped>>
      <4>1. {} \subseteq ordered /\ ordered' = ordered \ {}
            /\ skipped' = skipped \cup {}
        BY <3>2
      <4> QED BY <4>1
    <3>3. CASE ordered' = ordered \ Range(b) /\ skipped' = skipped \cup Range(b)
      BY <3>3, BlocksTyped
    <3> QED BY <3>1, <3>2, <3>3
  <2> QED BY <2>1, <2>2 DEF deliver
<1>2. /\ run' \in {run, "exited"}
      /\ UNCHANGED <<system, keystore, client, commitMu, eng, inHand, block, lost,
                   applied, state>>
  BY DEF deliver, FSMApply, CommitBlock
<1> USE DEF client, state
<1>3. TypeOK' BY <1>1, <1>2 DEF TypeOK
<1>4. Holding' BY <1>2 DEF Holding
<1>5. UNCHANGED <<Taken, Range(block)>> /\ Anywhere' = Anywhere
  BY <1>1, <1>2 DEF Taken, Settled, Anywhere
<1>6. CopiesBehind' /\ NonceNotAhead' /\ Tracked' /\ Steady
  BY <1>2, <1>3, <1>5, EngineStep DEF TypeOK
<1>7. Apart' BY <1>1, <1>2, <1>5 DEF Apart, Settled
<1>8. Phased' BY <1>1, <1>2 DEF Phased
<1> QED BY <1>3, <1>4, <1>6, <1>7, <1>8

-----------------------------------------------------------------------------
(* The specification *)

\* Every step keeps the invariant, and is steady.
LEMMA SInvNext == ASSUME SInv, [Next]_vars PROVE SInv' /\ Steady
<1>1. CASE Run BY <1>1, RunKeeps
<1>2. ASSUME NEW q \in Requests, Arrive(q) \/ Handler(q) PROVE SInv' /\ Steady
  BY <1>2, QueriesKeep, transactionHandlerKeeps, GetPoolNonceKeeps,
     rawTransactionHandlerKeeps, SubmitKeeps, AnswerKeeps DEF Handler
<1>3. CASE serve
  BY <1>3, SubmitTxKeeps, CommitChKeeps, ProcessKeeps, BlockEndKeeps, SoloKeeps,
     RaftRelayKeeps, RaftFutureKeeps DEF serve
<1>4. CASE deliver BY <1>4, DeliverKeeps
<1>5. CASE UNCHANGED vars
  <2> USE <1>5 DEF vars, node, client, engine, state
  <2>1. TypeOK' BY DEF SInv, NInv, TypeOK
  <2>2. Holding' BY DEF SInv, NInv, Holding
  <2>3. CopiesBehind' /\ NonceNotAhead'
    BY DEF SInv, NInv, CopiesBehind, NonceNotAhead
  <2>4. UNCHANGED <<Taken, Anywhere>> BY DEF Taken, Settled, Anywhere
  <2>5. Apart' /\ Phased' BY <2>4 DEF SInv, PInv, Apart, Settled, Phased
  <2>6. Tracked' BY <2>4 DEF SInv, PInv, Tracked, Active, Sent
  <2>7. Steady BY <2>4 DEF Steady, Active, SInv, NInv, TypeOK
  <2> QED BY <2>1, <2>2, <2>3, <2>5, <2>6, <2>7 DEF SInv, NInv, PInv
<1> QED BY <1>1, <1>2, <1>3, <1>4, <1>5 DEF Next

\* No two places share a transaction, so one that is somewhere is in one place.
LEMMA OnePlace == ASSUME Apart, NEW t \in Anywhere PROVE PlacesOf(t) = 1
<1> DEFINE place == <<Taken, lost, ordered, Range(block), applied, skipped>>
<1>1. SUFFICES Cardinality({p \in 1..6 : t \in place[p]}) = 1
  BY DEF PlacesOf, Taken
<1>2. PICK k \in 1..6 : {p \in 1..6 : t \in place[p]} = {k}
  <2>1. /\ place[1] = Taken /\ place[2] = lost /\ place[3] = ordered
        /\ place[4] = Range(block) /\ place[5] = applied /\ place[6] = skipped
    OBVIOUS
  <2> HIDE DEF place
  <2>2. 1..6 = {1, 2, 3, 4, 5, 6} OBVIOUS
  <2>3. \E k \in 1..6 : /\ t \in place[k]
                        /\ \A p \in 1..6 : t \in place[p] => p = k
    BY <2>1, <2>2 DEF Anywhere, Apart, Settled
  <2> QED BY <2>3
<1> QED BY <1>2, FS_Singleton

\* So is every transaction that has been sent.
LEMMA SentInOnePlace == ASSUME SInv PROVE InOnePlace
BY OnePlace DEF InOnePlace, SInv, PInv, Tracked, Sent

\* The inductive invariant holds in every reachable state of the service, with
\* whichever engine or adapter it runs.
THEOREM ServiceInvariance == Spec => []SInv
<1>1. Init => SInv BY SInvInit DEF Init
<1>2. SInv /\ [Next]_vars => SInv' BY SInvNext
<1> QED BY <1>1, <1>2, PTL DEF Spec

\* Every variable keeps its type: no handler signs without a nonce, and the
\* engine never passes on a transaction it has not received.
THEOREM ServiceTypeCorrect == Spec => []TypeOK
<1>1. SInv => TypeOK BY DEF SInv, NInv
<1> QED BY <1>1, ServiceInvariance, PTL

\* Whatever the interleaving of the handlers' reads of the pool with the commits
\* that reset it, the service never signs a nonce that the account has not
\* reached.
THEOREM NonceSafe == Spec => []NonceNotAhead
<1>1. SInv => NonceNotAhead BY DEF SInv, NInv
<1> QED BY <1>1, ServiceInvariance, PTL

\* Once the engine has received a transaction it is in exactly one place, for
\* every system, number of requests and size of block.
THEOREM NeverDroppedOrDuplicated == Spec => []InOnePlace
<1>1. SInv => InOnePlace BY SentInOnePlace
<1> QED BY <1>1, ServiceInvariance, PTL

\* What solo commits after, it has refused.
SkipInv == SkippedWithCause /\ (eng = "soloCommit" => ~inHand.decodes)

\* Every step keeps this.
LEMMA SkipInvNext == ASSUME SkipInv, [Next]_vars PROVE SkipInv'
<1> USE DEF SkipInv
<1>1. ASSUME UNCHANGED <<system, skipped>>,
             eng' = "soloCommit" => eng = "soloCommit" /\ UNCHANGED inHand
      PROVE  SkipInv'
  BY <1>1 DEF SkippedWithCause
<1>2. CASE Run \/ UNCHANGED vars
  BY <1>1, <1>2 DEF Run, OpenKeyStore, BeginGenesis, createGenesisAccounts,
     StartServers, vars, node, engine
<1>3. ASSUME NEW q \in Requests, Arrive(q) \/ Handler(q) PROVE SkipInv'
  BY <1>1, <1>3 DEF Arrive, Handler, makeHandler, accountHandler, lookupHandler,
     infoHandler, callHandler, LockForCall, Call, transactionHandler, GetPoolNonce,
     rawTransactionHandler, Submit, Answer, node, engine
<1>4. CASE \/ SubmitTx \/ CommitCh \/ BeginProcessBlock \/ ProcessBlock
           \/ StoreBlockFails \/ RaftRelay \/ RaftFuture
  BY <1>1, <1>4 DEF SubmitTx, CommitCh, BeginProcessBlock, ProcessBlock,
     StoreBlockFails, Respond, RaftRelay, RaftFuture, node
<1>5. CASE EndProcessBlock
  BY <1>5 DEF EndProcessBlock, Respond, SkippedWithCause, node
<1>6. CASE SoloApply
  BY <1>6 DEF SoloApply, ApplyTransaction, SkippedWithCause
<1>7. CASE SoloCommit
  BY <1>7 DEF SoloCommit, SkippedWithCause, node
<1>8. CASE FSMApply
  <2>1. /\ UNCHANGED <<system, eng, inHand>>
        /\ \/ UNCHANGED skipped
           \/ \E t \in ordered : ~t.decodes /\ skipped' = skipped \cup {t}
    BY <1>8 DEF FSMApply, ApplyTransaction
  <2> QED BY <2>1 DEF SkippedWithCause
<1>9. CASE CommitBlock
  <2>1. /\ UNCHANGED <<system, eng, inHand>> /\ system = "lachesis"
        /\ \/ UNCHANGED skipped
           \/ \E b \in Blocks(ordered) :
                 ~b[1].decodes /\ skipped' = skipped \cup Range(b)
    BY <1>9 DEF CommitBlock, ApplyTransaction
  <2> QED BY <2>1, BlocksTyped DEF SkippedWithCause
<1> QED BY <1>2, <1>3, <1>4, <1>5, <1>6, <1>7, <1>8, <1>9 DEF Next, serve, deliver

\* Whatever is in a block, what decodes is applied; only the lachesis adapter passes
\* it over, and then it has refused another one.
THEOREM NoneSkippedWithoutCause == Spec => []SkippedWithCause
<1>1. Init => SkipInv BY DEF Init, InitFrom, SkipInv, SkippedWithCause
<1>2. SkipInv /\ [Next]_vars => SkipInv' BY SkipInvNext
<1>3. SkipInv => SkippedWithCause BY DEF SkipInv
<1> QED BY <1>1, <1>2, <1>3, PTL DEF Spec

\* Nothing is taken back: no commit lowers a nonce, and a transaction that the
\* engine has received stays somewhere, whoever passes it on.
THEOREM NothingTakenBack == Spec => [][Steady]_vars
<1>1. SInv /\ [Next]_vars => [Steady]_vars BY SInvNext
<1> QED BY <1>1, ServiceInvariance, PTL DEF Spec
=============================================================================
