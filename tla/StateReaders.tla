---------------------------- MODULE StateReaders ----------------------------
(***************************************************************************)
(* State.GetBalance and State.GetNonce (src/state/state.go) beside the     *)
(* engine.  Neither takes commitMutex, and a StateDB is no passive data: to*)
(* read an account it looks in its map of objects, on a miss reads the trie*)
(* and then puts what it has read into the map.  GetBalance does so on     *)
(* s.ethState, which the engine only resets; GetNonce on s.was.ethState,   *)
(* where the engine is executing transactions.                             *)
(*                                                                         *)
(* EvmState takes a whole ApplyMessage on the write-ahead state as one     *)
(* step; here it is a step per access to an account.  Only transfers are   *)
(* executed.  A database write does not fail and the process does not stop *)
(* (the Go runtime may stop it when it notices two goroutines in one map): *)
(* EvmState has those.                                                     *)
(***************************************************************************)
EXTENDS Evm, Sequences, FiniteSetsExt

CONSTANTS Start,     \* the ledger the node starts with
          Blocks,    \* the blocks that arrive, as sequences of transactions
          Handler,   \* the account endpoints: the Service's mutex lets one
                     \* request run at a time, so one reader stands for all
          Web3,      \* goroutines of eth_getBalance, which takes no mutex
          Unset      \* no object

Readers == {Handler} \cup Web3

ASSUME ReadersAssumption ==
    /\ Start \in Ledger
    /\ Blocks \subseteq Seq(Tx)
    /\ \A t \in Tx : ~t.create /\ ~t.fails /\ t.signed /\ t.gas >= IntrinsicGas
    /\ Handler \notin Web3
    /\ Unset \notin Account

\* A StateDB: its trie, its map of objects, and the addresses the journal and the
\* set of dirty objects name.
StateDB == [trie : Ledger, objects : [Addr -> Account \cup {Unset}],
            journal : SUBSET Addr, dirty : SUBSET Addr]

VARIABLES
    db,         \* the ledger below the root key
    ethState,   \* s.ethState
    was,        \* s.was.ethState
    todo,       \* blocks that have not arrived
    pc,         \* where ProcessBlock is
    block,      \* the transactions of its block that are left
    step,       \* the next access of the transaction it executes
    phase,      \* where each reader is
    addr,       \* the account it reads
    got,        \* the object it has read from the trie and not stored
    shown,      \* the balance it has shown last
    \* History: what executing the transactions one after the other gives, the
    \* ledgers that have been committed, and whether a reader has stored in the
    \* map of the write-ahead state an object that was no longer current.
    expected, committed, raced

engine == <<todo, pc, block, step>>
readers == <<phase, addr, got, shown>>
history == <<expected, committed, raced>>
vars == <<db, ethState, was, engine, readers, history>>

Phases == {"idle", "balance", "storeEth", "nonce", "storeWas"}

TypeOK ==
    /\ db \in Ledger
    /\ ethState \in StateDB /\ was \in StateDB
    /\ todo \subseteq Blocks
    /\ pc \in {"select", "execute", "resetEth", "resetWas"}
    /\ block \in Seq(Tx) /\ step \in Nat
    /\ phase \in [Readers -> Phases]
    /\ addr \in [Readers -> Addr]
    /\ got \in [Readers -> Account \cup {Unset}]
    /\ shown \in [Readers -> Nat \cup {Unset}]
    /\ expected \in Ledger /\ committed \subseteq Ledger /\ raced \in BOOLEAN

-----------------------------------------------------------------------------
(* StateDB (go-ethereum 1.8.22) *)

\* state.New and StateDB.Reset: the trie of a root, and nothing else.
Fresh(root) == [trie |-> root, objects |-> [a \in Addr |-> Unset],
                journal |-> {}, dirty |-> {}]

\* The object getStateObject returns.
Object(s, a) == IF s.objects[a] = Unset THEN s.trie[a] ELSE s.objects[a]

\* setStateObject
Store(s, a, object) == [s EXCEPT !.objects[a] = object]

\* SetNonce, AddBalance, SubBalance: the object in the map is changed, with a
\* journal entry unless nothing changes.
Change(s, a, object) ==
    [Store(s, a, object) EXCEPT !.journal =
        IF object = Object(s, a) THEN @ ELSE @ \cup {a}]

\* The trie with the objects of the addresses D written to it.
Written(s, D) ==
    [a \in Addr |-> IF a \in D /\ s.objects[a] # Unset THEN s.objects[a]
                    ELSE s.trie[a]]

\* IntermediateRoot
Finalise(s) ==
    [s EXCEPT !.trie = Written(s, s.journal), !.dirty = @ \cup s.journal,
              !.journal = {}]

Init ==
    /\ db = Start
    /\ ethState = Fresh(Start) /\ was = Fresh(Start)
    /\ todo = Blocks
    /\ pc = "select" /\ block = <<>> /\ step = 1
    /\ phase = [r \in Readers |-> "idle"]
    /\ addr = [r \in Readers |-> Coinbase]
    /\ got = [r \in Readers |-> Unset]
    /\ shown = [r \in Readers |-> Unset]
    /\ expected = Start /\ committed = {Start} /\ raced = FALSE

-----------------------------------------------------------------------------
(* The engine *)

ProcessBlock ==
    /\ pc = "select"
    /\ \E b \in todo : block' = b /\ todo' = todo \ {b}
    /\ pc' = "execute" /\ step' = 1
    /\ UNCHANGED <<db, ethState, was, readers, history>>

\* What a transfer does to accounts, in the order ApplyMessage does it: buy the
\* gas, increment the nonce, move the value, return the gas, pay the fee.
Accesses(t) ==
    <<[to |-> t.from, nonce |-> 0, balance |-> -(t.gas * t.price)],
      [to |-> t.from, nonce |-> 1, balance |-> 0],
      [to |-> t.from, nonce |-> 0, balance |-> -t.value],
      [to |-> t.to, nonce |-> 0, balance |-> t.value],
      [to |-> t.from, nonce |-> 0, balance |-> (t.gas - t.used) * t.price],
      [to |-> Coinbase, nonce |-> 0, balance |-> t.used * t.price]>>

\* Mutant: a transaction is executed on credit.
Allowed_OnCredit(t) == step = 1 => Object(was, t.from).nonce = t.nonce

\* preCheck and buyGas come before the first access, CanTransfer before the value
\* is moved; what they read they get from the map as well.
Allowed(t) ==
    LET sender == Object(was, t.from) IN
    CASE step = 1 -> sender.nonce = t.nonce /\ sender.balance >= t.gas * t.price
      [] step = 3 -> sender.balance >= t.value
      [] OTHER -> TRUE

\* The rest of the transaction is left out; what it has done so far stays.
RejectTx ==
    /\ pc = "execute" /\ block # <<>>
    /\ ~Allowed(Head(block))
    /\ block' = Tail(block) /\ step' = 1
    /\ expected' = ApplyMessage(expected, Head(block).gas, Head(block)).ledger
    /\ UNCHANGED <<db, ethState, was, todo, pc, readers, committed, raced>>

Access ==
    /\ pc = "execute" /\ block # <<>>
    /\ step <= Len(Accesses(Head(block)))
    /\ Allowed(Head(block))
    /\ LET c == Accesses(Head(block))[step]
           old == Object(was, c.to)
       IN  was' = Change(was, c.to, [nonce |-> old.nonce + c.nonce,
                                     balance |-> old.balance + c.balance])
    /\ step' = step + 1
    /\ UNCHANGED <<db, ethState, todo, pc, block, readers, history>>

EndTx ==
    /\ pc = "execute" /\ block # <<>>
    /\ step > Len(Accesses(Head(block)))
    /\ was' = Finalise(was)
    /\ block' = Tail(block) /\ step' = 1
    /\ expected' = ApplyMessage(expected, Head(block).gas, Head(block)).ledger
    /\ UNCHANGED <<db, ethState, todo, pc, readers, committed, raced>>

\* StateDB.Commit writes the dirty objects of the map; then the root is stored.
Commit ==
    /\ pc = "execute" /\ block = <<>>
    /\ LET root == Written(was, was.journal \cup was.dirty) IN
          /\ db' = root
          /\ committed' = committed \cup {root}
          /\ was' = [was EXCEPT !.trie = root, !.journal = {}, !.dirty = {}]
    /\ pc' = "resetEth"
    /\ UNCHANGED <<ethState, todo, block, step, readers, expected, raced>>

ResetEthState ==
    /\ pc = "resetEth"
    /\ ethState' = Fresh(db)
    /\ pc' = "resetWas"
    /\ UNCHANGED <<db, was, todo, block, step, readers, history>>

\* Mutant: the write-ahead state starts as a copy of s.ethState, with whatever the
\* readers have put into that map.
ResetWAS_KeepObjects ==
    /\ pc = "resetWas"
    /\ was' = [Fresh(ethState.trie) EXCEPT !.objects = ethState.objects]
    /\ pc' = "select"
    /\ UNCHANGED <<db, ethState, todo, block, step, readers, history>>

ResetWAS ==
    /\ pc = "resetWas"
    /\ was' = Fresh(db)
    /\ pc' = "select"
    /\ UNCHANGED <<db, ethState, todo, block, step, readers, history>>

-----------------------------------------------------------------------------
(* The readers *)

\* A handler asks for balance and nonce, a Web3 call for the balance.
Ask(r, a) ==
    /\ phase[r] = "idle"
    /\ phase' = [phase EXCEPT ![r] = "balance"]
    /\ addr' = [addr EXCEPT ![r] = a]
    /\ shown' = [shown EXCEPT ![r] = Unset]
    /\ UNCHANGED <<db, ethState, was, engine, got, history>>

Show(r, balance) ==
    /\ shown' = [shown EXCEPT ![r] = balance]
    /\ phase' = [phase EXCEPT ![r] = IF r = Handler THEN "nonce" ELSE "idle"]

\* Mutant: the balance is read from the write-ahead state.
GetBalance_WAS(r) ==
    /\ phase[r] = "balance"
    /\ Show(r, Object(was, addr[r]).balance)
    /\ UNCHANGED <<db, ethState, was, engine, addr, got, history>>

\* getStateObject of s.ethState: a hit, or a miss and what the trie has; an
\* account that does not exist is not stored.
GetBalance(r) ==
    /\ phase[r] = "balance"
    /\ IF ethState.objects[addr[r]] = Unset /\ Exists(ethState.trie, addr[r])
       THEN /\ got' = [got EXCEPT ![r] = ethState.trie[addr[r]]]
            /\ phase' = [phase EXCEPT ![r] = "storeEth"]
            /\ UNCHANGED shown
       ELSE Show(r, Object(ethState, addr[r]).balance) /\ UNCHANGED got
    /\ UNCHANGED <<db, ethState, was, engine, addr, history>>

StoreEth(r) ==
    /\ phase[r] = "storeEth"
    /\ ethState' = Store(ethState, addr[r], got[r])
    /\ got' = [got EXCEPT ![r] = Unset]
    /\ Show(r, got[r].balance)
    /\ UNCHANGED <<db, was, engine, addr, history>>

\* The same on s.was.ethState; the handler then returns.
GetNonce(r) ==
    /\ phase[r] = "nonce"
    /\ IF was.objects[addr[r]] = Unset /\ Exists(was.trie, addr[r])
       THEN /\ got' = [got EXCEPT ![r] = was.trie[addr[r]]]
            /\ phase' = [phase EXCEPT ![r] = "storeWas"]
       ELSE phase' = [phase EXCEPT ![r] = "idle"] /\ UNCHANGED got
    /\ UNCHANGED <<db, ethState, was, engine, addr, shown, history>>

StoreWas(r) ==
    /\ phase[r] = "storeWas"
    /\ was' = Store(was, addr[r], got[r])
    /\ raced' = (raced \/ got[r] # Object(was, addr[r]))
    /\ got' = [got EXCEPT ![r] = Unset]
    /\ phase' = [phase EXCEPT ![r] = "idle"]
    /\ UNCHANGED <<db, ethState, engine, addr, shown, expected, committed>>

-----------------------------------------------------------------------------
Engine ==
    ProcessBlock \/ RejectTx \/ Access \/ EndTx \/ Commit \/ ResetEthState \/ ResetWAS

Reader(r) ==
    \/ \E a \in Addr : Ask(r, a)
    \/ GetBalance(r) \/ StoreEth(r) \/ GetNonce(r) \/ StoreWas(r)

Next == Engine \/ \E r \in Readers : Reader(r)

Spec == Init /\ [][Next]_vars

-----------------------------------------------------------------------------
(* Correctness *)

\* What the account endpoints and eth_getBalance show is never the balance of a
\* block in the middle of its execution: it has been committed, though perhaps
\* long ago.
ShownWasCommitted ==
    \A r \in Readers :
        shown[r] # Unset => \E l \in committed : l[addr[r]].balance = shown[r]

\* Between blocks the database is what executing the transactions one after the
\* other gives, unless a reader has stored an object in the map of the write-ahead
\* state after the engine had changed the account: no other interleaving of
\* readers and engine harms.
OnlyStoresHarm == pc = "select" /\ ~raced => db = expected

\* TestTransfer (state_test.go): what leaves the sender's balance arrives at the
\* recipient's, so that transfers keep the sum of all balances.
TransfersConserve ==
    MapThenSumSet(LAMBDA a : db[a].balance, Addr)
        = MapThenSumSet(LAMBDA a : Start[a].balance, Addr)
=============================================================================
