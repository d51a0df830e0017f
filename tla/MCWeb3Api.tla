----------------------------- MODULE MCWeb3Api -----------------------------
(* Instances of Web3Api.  A second is 4 units and time.Duration has 6 bits:  *)
(* 16 seconds overflow to 0, as 2^55 seconds do in 64 bits.                  *)
EXTENDS MCEvmService, Web3Api

BasicCall(id, m) ==
    [id |-> id, method |-> m, via |-> "http", from |-> "a", to |-> TRUE,
     gas |-> TRUE, gasPrice |-> TRUE, nonce |-> 0, data |-> "some",
     passwd |-> TRUE, duration |-> Unset, valid |-> TRUE, protected |-> TRUE]

Web3Scenario(sys, reqs, txs, calls) ==
    [system |-> sys, requests |-> reqs, foreign |-> txs, calls |-> calls]

\* Calls that contend for the lock of "a" and panic with it, and one whose
\* sender is unknown, beside a handler that panics with the Service's mutex.
Locks ==
    {[BasicCall(11, "eth_sendTransaction") EXCEPT !.nonce = Unset],
     [BasicCall(12, "personal_sendTransaction") EXCEPT !.nonce = Unset],
     [BasicCall(13, "personal_sendTransaction") EXCEPT !.nonce = Unset, !.from = "b"]}

\* Two that need the lock of "a", beside one that does not and is refused.
Beside ==
    {[BasicCall(11, "eth_sendTransaction") EXCEPT !.nonce = Unset],
     [BasicCall(12, "personal_sendTransaction") EXCEPT !.nonce = Unset],
     [BasicCall(17, "eth_sendTransaction") EXCEPT !.data = "both"]}

\* The key of "a" is locked and unlocked while transactions are signed.
Keys ==
    {BasicCall(14, "LockAccount"),
     [BasicCall(15, "UnlockAccount") EXCEPT !.passwd = FALSE],
     BasicCall(16, "eth_sendTransaction")}

\* "b" comes into the keystore and is unlocked: by default, for too long, for some
\* time.
Fresh ==
    {BasicCall(21, "NewAccount"),
     [BasicCall(22, "ImportRawKey") EXCEPT !.from = "b"],
     [BasicCall(23, "UnlockAccount") EXCEPT !.from = "b"],
     [BasicCall(24, "UnlockAccount") EXCEPT !.from = "b", !.duration = 16],
     [BasicCall(25, "UnlockAccount") EXCEPT !.from = "b", !.duration = 5]}

\* A raw transaction, a creation that is refused, one without a nonce, on a
\* websocket, and answers without an effect.
Raw == BasicCall(31, "eth_sendRawTransaction")
Others ==
    {[BasicCall(32, "eth_sendTransaction") EXCEPT !.to = FALSE],
     [BasicCall(33, "eth_sendTransaction") EXCEPT !.from = "b"]}
Refused ==
    {[Raw EXCEPT !.id = 34, !.valid = FALSE],
     BasicCall(35, "personal_signTransaction"),
     [BasicCall(36, "personal_sendTransaction") EXCEPT !.data = "both"]}
Answers == {BasicCall(37, "eth_sign"), BasicCall(38, "EcRecover"),
            BasicCall(39, "GetTransactionReceipt"), BasicCall(41, "DeriveAccount")}
OnSocket == {[BasicCall(40, "eth_sendTransaction") EXCEPT
                  !.gasPrice = FALSE, !.via = "ws"]}

TxNoData == [Basic(1, "tx") EXCEPT !.data = FALSE]
CallNoTo == [Basic(2, "call") EXCEPT !.to = FALSE]
CallNoData == [Basic(3, "call") EXCEPT !.data = FALSE]

FromB == [Basic(7, "tx") EXCEPT !.from = "b"]

Faults ==
    {Web3Scenario("socket", {TxNoData, Basic(5, "tx")}, Elsewhere, Locks),
     Web3Scenario("socket", {Basic(5, "tx"), Basic(8, "call")}, {}, Keys),
     Web3Scenario("inmem", {}, {}, Beside),
     Web3Scenario("inmem", {FromB}, {}, Fresh),
     Web3Scenario("socket", {CallNoTo, Basic(4, "info")}, Elsewhere, {Raw}),
     Web3Scenario("inmem", {CallNoTo, CallNoData, Basic(5, "tx")}, Elsewhere,
                  Others),
     Web3Scenario("lachesis", {CallNoTo}, Elsewhere, Refused),
     Web3Scenario("solo", {[Basic(6, "call") EXCEPT !.bad = TRUE]}, {}, Answers),
     Web3Scenario("raft", {Basic(5, "tx")}, Elsewhere, OnSocket)}

OneRaw == {Web3Scenario("socket", {}, {}, {Raw})}
=============================================================================
