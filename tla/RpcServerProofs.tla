-------------------------- MODULE RpcServerProofs --------------------------
(***************************************************************************)
(* RpcServer, for any number of callers, services, endpoints and faults:   *)
(* no method panics, a failed start leaves nothing open, and a waiter never *)
(* waits for a channel that nobody will close.                             *)
(***************************************************************************)
EXTENDS RpcServer, FiniteSetTheorems, TLAPS

\* A started server has its in-process handler and an open channel of its own;
\* channels are numbered in the order in which they are made.
Channels ==
    /\ started => inproc /\ stop # 0 /\ stop \notin closed
    /\ closed \subseteq 1..stop

\* Nobody misses the wake-up: the channel a caller of Wait is blocked on has
\* been closed, or it is the one the next Stop will close.
WaiterWakes ==
    \A c \in Callers :
        pc[c] = "blocked" => chan[c] \in closed \/ (started /\ chan[c] = stop)

RInv == TypeOK /\ Channels /\ NothingLeftOpen /\ WaiterWakes /\ NoPanic

-----------------------------------------------------------------------------
\* The endpoints that may fail to close are at most one, so they are counted.
LEMMA BadCounted ==
    ASSUME NEW E, NEW bad, bad \subseteq E \cap {"ipc"}
    PROVE  Cardinality(bad) \in Nat
<1>1. IsFiniteSet({"ipc"}) BY FS_Singleton
<1>2. IsFiniteSet(bad) BY <1>1, FS_Subset
<1> QED BY <1>2, FS_CardinalityType

\* Closing endpoints closes exactly those asked for, but for a stuck IPC
\* listener.
LEMMA ClosingLemma ==
    ASSUME TypeOK, NEW E, NEW bad, Closing(E, bad)
    PROVE  /\ endpoint' \in [Enabled -> {"nil", "up", "stuck"}]
           /\ \A e \in Enabled : e \in E => endpoint'[e] # "up"
           /\ \A e \in Enabled : endpoint[e] # "up" => endpoint'[e] # "up"
           /\ Cardinality(bad) \in Nat
<1>1. Cardinality(bad) \in Nat
  BY BadCounted DEF Closing
<1> QED BY <1>1 DEF Closing, TypeOK

\* A return that is not a panic and that changes nothing of the server keeps
\* the invariant.
LEMMA ReturnLemma ==
    ASSUME RInv, NEW c \in Callers, NEW r \in {"nil", "error"}, Return(c, r),
           UNCHANGED <<node, chan>>, faults' \in 0..MaxFaults
    PROVE  RInv'
<1> USE DEF RInv, Return, node
<1>1. TypeOK' BY DEF TypeOK
<1>2. Channels' BY DEF Channels
<1>3. NothingLeftOpen' BY DEF NothingLeftOpen
<1>4. WaiterWakes' BY DEF WaiterWakes, TypeOK
<1>5. NoPanic' BY DEF NoPanic, TypeOK
<1> QED BY <1>1, <1>2, <1>3, <1>4, <1>5

\* What a failed start returns is a result, not a panic.
LEMMA ResultLemma ==
    ASSUME NEW ks PROVE FailedStartResult(ks) \in {"nil", "error"}
BY DEF FailedStartResult

-----------------------------------------------------------------------------
\* The server NewRpcServer returns satisfies the invariant.
LEMMA RInvInit == Init => RInv
<1> SUFFICES ASSUME Init PROVE RInv
  OBVIOUS
<1>1. TypeOK
  <2>1. <<>> \in Seq(Kinds) OBVIOUS
  <2>2. services \subseteq Kinds BY DEF Init
  <2>3. stop \in 0..MaxEpochs /\ closed \subseteq 1..MaxEpochs /\ faults \in 0..MaxFaults
    BY RpcAssumption DEF Init
  <2>4. chan \in [Callers -> 0..MaxEpochs] BY RpcAssumption DEF Init
  <2> QED BY <2>1, <2>2, <2>3, <2>4 DEF Init, TypeOK
<1>2. Channels BY DEF Init, Channels
<1>3. NothingLeftOpen BY DEF Init, NothingLeftOpen
<1>4. WaiterWakes BY DEF Init, WaiterWakes
<1>5. NoPanic BY DEF Init, NoPanic
<1> QED BY <1>1, <1>2, <1>3, <1>4, <1>5 DEF RInv

\* Beginning a call changes only the caller.
LEMMA InvokeKeeps ==
    ASSUME RInv, NEW c \in Callers, NEW m \in Methods, Invoke(c, m) PROVE RInv'
<1> USE DEF RInv, Invoke, node
<1>1. TypeOK' BY DEF TypeOK
<1>2. Channels' BY DEF Channels
<1>3. NothingLeftOpen' BY DEF NothingLeftOpen
<1>4. WaiterWakes' BY DEF WaiterWakes, TypeOK, Methods
<1>5. NoPanic' BY DEF NoPanic, TypeOK
<1> QED BY <1>1, <1>2, <1>3, <1>4, <1>5

\* Register keeps the invariant.
LEMMA RegisterKeeps ==
    ASSUME RInv, NEW c \in Callers, NEW k \in Kinds, Register(c, k) PROVE RInv'
<1> USE DEF RInv, Register, Return
<1>1. TypeOK'
  <2>1. serviceFuncs' \in Seq(Kinds)
    <3>1. serviceFuncs \in Seq(Kinds) BY DEF TypeOK
    <3>2. Append(serviceFuncs, k) \in Seq(Kinds) BY <3>1
    <3> QED BY <3>1, <3>2
  <2>2. /\ pc' \in [Callers -> Methods \cup {"idle", "blocked", "restarting"}]
        /\ ret' \in [Callers -> {"none", "nil", "error", "panic"}]
    BY DEF TypeOK
  <2> QED BY <2>1, <2>2 DEF TypeOK
<1>2. Channels' BY DEF Channels
<1>3. NothingLeftOpen' BY DEF NothingLeftOpen
<1>4. WaiterWakes' BY DEF WaiterWakes, TypeOK
<1>5. NoPanic' BY DEF NoPanic, TypeOK
<1> QED BY <1>1, <1>2, <1>3, <1>4, <1>5

\* A start that opens everything makes a new channel, which is not closed.
LEMMA StartSucceedsKeeps ==
    ASSUME RInv, NEW c \in Callers, pc[c] \in {"Start", "restarting"}, StartSucceeds(c)
    PROVE  RInv'
<1> USE DEF RInv, StartSucceeds, Return
<1>1. TypeOK'
  <2>1. Range(serviceFuncs) \subseteq Kinds
    BY DEF TypeOK, Range
  <2>2. stop' \in 0..MaxEpochs
    BY RpcAssumption DEF TypeOK
  <2> QED BY <2>1, <2>2 DEF TypeOK
<1>2. Channels'
  BY RpcAssumption DEF Channels, TypeOK
<1>3. NothingLeftOpen' BY DEF NothingLeftOpen
<1>4. WaiterWakes' BY DEF WaiterWakes, TypeOK
<1>5. NoPanic' BY DEF NoPanic, TypeOK
<1> QED BY <1>1, <1>2, <1>3, <1>4, <1>5

\* A start that fails at an endpoint closes what it has opened.
LEMMA StartFailsKeeps ==
    ASSUME RInv, NEW c \in Callers, NEW e \in Enabled, NEW bad,
           pc[c] \in {"Start", "restarting"}, StartFails(c, e, bad)
    PROVE  RInv'
<1> USE DEF RInv, StartFails, Return
<1>1. /\ endpoint' \in [Enabled -> {"nil", "up", "stuck"}]
      /\ \A x \in Enabled : endpoint[x] # "up" => endpoint'[x] # "up"
      /\ Cardinality(bad) \in Nat
  BY ClosingLemma
<1>2. FailedStartResult(Range(serviceFuncs)) \in {"nil", "error"}
  BY ResultLemma
<1>3. TypeOK'
  <2>1. faults' \in 0..MaxFaults
    BY <1>1, RpcAssumption DEF TypeOK
  <2> QED BY <1>1, <1>2, <2>1 DEF TypeOK
<1>4. Channels' BY DEF Channels
<1>5. NothingLeftOpen' BY <1>1 DEF NothingLeftOpen
<1>6. WaiterWakes' BY DEF WaiterWakes, TypeOK
<1>7. NoPanic' BY <1>2 DEF NoPanic, TypeOK
<1> QED BY <1>3, <1>4, <1>5, <1>6, <1>7

\* Start keeps the invariant, however it ends.
LEMMA StartKeeps ==
    ASSUME RInv, NEW c \in Callers, Start(c) PROVE RInv'
<1>1. CASE started /\ Return(c, "error") /\ UNCHANGED <<node, chan, faults>>
  BY <1>1, ReturnLemma DEF RInv, TypeOK
<1>2. CASE StartRefused(c)
  <2>1. faults' \in 0..MaxFaults
    BY <1>2, RpcAssumption DEF StartRefused, RInv, TypeOK
  <2> QED BY <1>2, <2>1, ReturnLemma DEF StartRefused
<1>3. CASE InProcFails(c)
  <2>1. faults' \in 0..MaxFaults
    BY <1>3, RpcAssumption DEF InProcFails, RInv, TypeOK
  <2> QED BY <1>3, <2>1, ReturnLemma, ResultLemma DEF InProcFails
<1>4. CASE \E e \in Enabled : \E bad \in SUBSET Before(e) : StartFails(c, e, bad)
  BY <1>4, StartFailsKeeps DEF Start
<1>5. CASE StartSucceeds(c)
  BY <1>5, StartSucceedsKeeps DEF Start
<1> QED BY <1>1, <1>2, <1>3, <1>4, <1>5 DEF Start

\* Stop closes the channel of this start, which has not been closed before.
LEMMA StopKeeps ==
    ASSUME RInv, NEW c \in Callers, Stop(c) PROVE RInv'
<1>1. CASE ~started
  BY <1>1, ReturnLemma DEF Stop, RInv, TypeOK
<1>2. CASE started
  <2>1. PICK bad \in SUBSET Enabled :
            /\ Closing(Enabled, bad)
            /\ faults + Cardinality(bad) <= MaxFaults
            /\ faults' = faults + Cardinality(bad)
    BY <1>2 DEF Stop
  <2>2. /\ endpoint' \in [Enabled -> {"nil", "up", "stuck"}]
        /\ \A e \in Enabled : endpoint'[e] # "up"
        /\ Cardinality(bad) \in Nat
    BY <2>1, ClosingLemma DEF RInv
  <2>3. stop \notin closed /\ stop # 0
    BY <1>2 DEF RInv, Channels
  <2>4. /\ started' = FALSE /\ services' = {} /\ closed' = closed \cup {stop}
        /\ UNCHANGED <<serviceFuncs, inproc, stop, chan>>
    BY <1>2 DEF Stop
  <2>5. /\ pc' \in [Callers -> Methods \cup {"idle", "blocked", "restarting"}]
        /\ ret' \in [Callers -> {"none", "nil", "error", "panic"}]
        /\ pc'[c] # "blocked" /\ \A d \in Callers \ {c} : pc'[d] = pc[d]
        /\ \A d \in Callers : ret'[d] = "panic" => ret[d] = "panic"
    BY <1>2, <2>3 DEF Stop, Return, RInv, TypeOK
  <2>6. TypeOK'
    <3>1. faults' \in 0..MaxFaults
      BY <2>1, <2>2, RpcAssumption DEF RInv, TypeOK
    <3>2. closed' \subseteq 1..MaxEpochs
      BY <2>3, <2>4, RpcAssumption DEF RInv, TypeOK
    <3> QED BY <2>2, <2>4, <2>5, <3>1, <3>2 DEF RInv, TypeOK
  <2>7. Channels'
    BY <2>3, <2>4, RpcAssumption DEF RInv, TypeOK, Channels
  <2>8. NothingLeftOpen' BY <2>2, <2>4 DEF NothingLeftOpen
  <2>9. WaiterWakes' BY <2>4, <2>5 DEF RInv, WaiterWakes
  <2>10. NoPanic' BY <2>5 DEF RInv, NoPanic
  <2> QED BY <2>6, <2>7, <2>8, <2>9, <2>10 DEF RInv
<1> QED BY <1>1, <1>2

\* A caller of Wait blocks on the channel of the running server.
LEMMA WaitKeeps ==
    ASSUME RInv, NEW c \in Callers, Wait(c) PROVE RInv'
<1> USE DEF RInv, Wait, Return, node
<1>1. TypeOK' BY DEF TypeOK
<1>2. Channels' BY DEF Channels
<1>3. NothingLeftOpen' BY DEF NothingLeftOpen
<1>4. WaiterWakes' BY DEF WaiterWakes, TypeOK
<1>5. NoPanic' BY DEF NoPanic, TypeOK
<1> QED BY <1>1, <1>2, <1>3, <1>4, <1>5

\* A released waiter blocks on nothing.
LEMMA ReleasedKeeps ==
    ASSUME RInv, NEW c \in Callers, Released(c) PROVE RInv'
<1> USE DEF RInv, Released, Return, node
<1>1. TypeOK' BY RpcAssumption DEF TypeOK
<1>2. Channels' BY DEF Channels
<1>3. NothingLeftOpen' BY DEF NothingLeftOpen
<1>4. WaiterWakes' BY DEF WaiterWakes, TypeOK
<1>5. NoPanic' BY DEF NoPanic, TypeOK
<1> QED BY <1>1, <1>2, <1>3, <1>4, <1>5

\* Attach finds the in-process handler of a started server.
LEMMA AttachKeeps ==
    ASSUME RInv, NEW c \in Callers, Attach(c) PROVE RInv'
<1>1. (IF ~started THEN "error" ELSE IF inproc THEN "nil" ELSE "panic") \in {"nil", "error"}
  BY DEF RInv, Channels
<1> QED BY <1>1, ReturnLemma DEF Attach, RInv, TypeOK

-----------------------------------------------------------------------------
\* Every step of every caller keeps the invariant.
LEMMA RInvNext == RInv /\ [Next]_vars => RInv'
<1> SUFFICES ASSUME RInv, [Next]_vars PROVE RInv'
  OBVIOUS
<1>1. CASE Next
  <2>1. PICK c \in Callers : Step(c) \/ \E m \in Methods : Invoke(c, m)
    BY <1>1 DEF Next
  <2> QED BY <2>1, RegisterKeeps, StartKeeps, StopKeeps, WaitKeeps, ReleasedKeeps,
             AttachKeeps, InvokeKeeps DEF Step
<1>2. CASE UNCHANGED vars
  BY <1>2 DEF vars, node, RInv, TypeOK, Channels, NothingLeftOpen, WaiterWakes, NoPanic
<1> QED BY <1>1, <1>2

\* The invariant holds in every reachable state.
THEOREM RpcInvariance == Spec => []RInv
BY RInvInit, RInvNext, PTL DEF Spec

\* RpcServer is type-correct: in particular Stop closes only channels that
\* Start has made, and never the nil channel.
THEOREM RpcTypeCorrect == Spec => []TypeOK
<1>1. RInv => TypeOK BY DEF RInv
<1> QED BY <1>1, RpcInvariance, PTL

\* No order of calls to Register, Start, Stop, Wait, Restart and Attach, by any
\* number of goroutines, closes a closed channel or dials a nil handler.
THEOREM PanicFree == Spec => []NoPanic
<1>1. RInv => NoPanic BY DEF RInv
<1> QED BY <1>1, RpcInvariance, PTL

\* A started server has all its endpoints up; one that is stopped or whose
\* start has failed has none up.
THEOREM RollbackComplete == Spec => []NothingLeftOpen
<1>1. RInv => NothingLeftOpen BY DEF RInv
<1> QED BY <1>1, RpcInvariance, PTL

\* A blocked caller of Wait is never left behind by a Stop and a Start that
\* come between its read of n.stop and its receive.
THEOREM NoLostWakeup == Spec => []WaiterWakes
<1>1. RInv => WaiterWakes BY DEF RInv
<1> QED BY <1>1, RpcInvariance, PTL
=============================================================================
