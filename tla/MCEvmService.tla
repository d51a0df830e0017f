---------------------------- MODULE MCEvmService ----------------------------
(* Instances of EvmService: one controlled account and one that is not, and  *)
(* a few requests of each kind.                                              *)
EXTENDS EvmService

MCAddr == {"a", "b"}
MCControlled == {"a"}

Basic(id, op) ==
    [id |-> id, op |-> op, bad |-> FALSE, data |-> TRUE, to |-> TRUE,
     from |-> "a", nonce |-> Unset]

Scenario(sys, reqs, txs) == [system |-> sys, requests |-> reqs, foreign |-> txs]

\* A transaction that leaves its nonce to the service, twice, and a call, which
\* needs commitMutex.
Contending == {Basic(1, "tx"), Basic(2, "tx"), Basic(3, "call")}

\* Requests that end without a panic: found or not, a body that is not JSON or
\* hex, a transaction that carries its own nonce but whose account is not
\* controlled, raw bytes that do not decode.
Assorted ==
    {Basic(4, "account"), [Basic(5, "tx") EXCEPT !.bad = TRUE],
     [Basic(6, "tx") EXCEPT !.from = "b", !.nonce = 0],
     [Basic(7, "rawtx") EXCEPT !.nonce = 0, !.bad = TRUE]}

Consensual ==
    {Basic(4, "account"), Basic(8, "lookup"), Basic(9, "info"),
     [Basic(10, "rawtx") EXCEPT !.nonce = 0, !.data = FALSE]}

\* A body that decodes and has its call data in "input", which SendTxArgs says
\* clients should prefer: Data is nil.
InputOnly == {[Basic(1, "tx") EXCEPT !.data = FALSE], Basic(2, "account")}

OneRawTx == {[Basic(1, "rawtx") EXCEPT !.nonce = 0]}

\* Another node has sent a transaction of the controlled account, or bytes that
\* do not decode.
Elsewhere == {[id |-> 99, from |-> "a", nonce |-> 0, decodes |-> TRUE]}
Undecodable == {[id |-> 99, from |-> "a", nonce |-> 0, decodes |-> FALSE]}

\* Blocks of one transaction that decodes and one that does not.
Mixed == {Scenario(sys, OneRawTx, Undecodable) : sys \in {"socket", "lachesis"}}

AllRequests ==
    {Scenario("socket", Contending \cup {Basic(4, "account")}, Elsewhere),
     Scenario("inmem", Assorted \cup {Basic(1, "tx")}, Elsewhere),
     Scenario("solo", Consensual, {}),
     Scenario("raft", Consensual, Undecodable),
     Scenario("lachesis", Consensual, Undecodable)} \cup Mixed

PreferredInput == {Scenario("socket", InputOnly, {})}
SoloRawTx == {Scenario("solo", OneRawTx, {})}
=============================================================================
