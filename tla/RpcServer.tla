----------------------------- MODULE RpcServer -----------------------------
(***************************************************************************)
(* src/service/rpc_server.go: the life cycle of the web3 RPC server, called *)
(* from several goroutines.  Every method holds the lock from its first to *)
(* its last statement, so it is one step, except that Wait blocks on the   *)
(* channel it has read under the lock and Restart is Stop and then Start.  *)
(***************************************************************************)
EXTENDS Integers, Sequences, FiniteSets, Functions

CONSTANTS Callers,       \* the goroutines that call the server
          Kinds,         \* types of services a constructor may build
          FaultyStop,    \* those whose Stop returns an error; the two of the
                         \* program return nil
          Enabled,       \* endpoints configured: among "ipc", "http", "ws"
          MaxFuncs,      \* bound: constructors registered
          MaxEpochs,     \* bound: channels made by Start
          MaxFaults      \* bound: failures of the environment

ASSUME RpcAssumption ==
    /\ FaultyStop \subseteq Kinds
    /\ Enabled \subseteq {"ipc", "http", "ws"}
    /\ MaxFuncs \in Nat /\ MaxEpochs \in Nat /\ MaxFaults \in Nat

VARIABLES
    serviceFuncs,  \* the constructors, by the kind of service they build
    started,       \* n.started
    services,      \* n.services: kinds of the running services
    inproc,        \* whether n.inprocHandler is not nil
    endpoint,      \* "nil", "up" (listener and handler set, accepting), or
                   \* "stuck" (both still set because Close has failed)
    stop,          \* n.stop: number of the current channel, 0 for nil
    closed,        \* channels that have been closed
    pc, ret,       \* what each caller is doing, and the last result it got
    chan,          \* the channel it waits on
    faults         \* counter against MaxFaults

node == <<serviceFuncs, started, services, inproc, endpoint, stop, closed>>
vars == <<node, pc, ret, chan, faults>>

Methods == {"Register", "Start", "Stop", "Wait", "Restart", "Attach"}

TypeOK ==
    /\ serviceFuncs \in Seq(Kinds)
    /\ started \in BOOLEAN
    /\ services \subseteq Kinds
    /\ inproc \in BOOLEAN
    /\ endpoint \in [Enabled -> {"nil", "up", "stuck"}]
    /\ stop \in 0..MaxEpochs
    /\ closed \subseteq 1..MaxEpochs
    /\ pc \in [Callers -> Methods \cup {"idle", "blocked", "restarting"}]
    /\ ret \in [Callers -> {"none", "nil", "error", "panic"}]
    /\ chan \in [Callers -> 0..MaxEpochs]
    /\ faults \in 0..MaxFaults

Init ==
    /\ serviceFuncs = <<>>
    /\ started = FALSE /\ services = {}
    /\ inproc = FALSE
    /\ endpoint = [e \in Enabled |-> "nil"]
    /\ stop = 0 /\ closed = {}
    /\ pc = [c \in Callers |-> "idle"]
    /\ ret = [c \in Callers |-> "none"]
    /\ chan = [c \in Callers |-> 0]
    /\ faults = 0

-----------------------------------------------------------------------------
Invoke(c, m) ==
    /\ pc[c] = "idle"
    /\ pc' = [pc EXCEPT ![c] = m]
    /\ ret' = [ret EXCEPT ![c] = "none"]
    /\ UNCHANGED <<node, chan, faults>>

Return(c, r) ==
    /\ pc' = [pc EXCEPT ![c] = "idle"]
    /\ ret' = [ret EXCEPT ![c] = r]

Register(c, k) ==
    /\ pc[c] = "Register"
    /\ \/ started /\ Return(c, "error") /\ UNCHANGED serviceFuncs
       \/ /\ ~started /\ Len(serviceFuncs) < MaxFuncs
          /\ serviceFuncs' = Append(serviceFuncs, k)
          /\ Return(c, "nil")
    /\ UNCHANGED <<started, services, inproc, endpoint, stop, closed, chan, faults>>

-----------------------------------------------------------------------------
(* Start *)

\* stopWS, stopHTTP and stopIPC on the endpoints E, of which those in bad
\* cannot be closed: stopIPC then returns at once, the other two set their
\* fields to nil whatever Close says.
Closing(E, bad) ==
    /\ bad \subseteq E \cap {"ipc"}
    /\ endpoint' = [e \in Enabled |-> IF e \in bad THEN "stuck"
                                      ELSE IF e \in E THEN "nil"
                                      ELSE endpoint[e]]

\* startRPC opens the endpoints in this order, after the in-process handler.
Before(e) == CASE e = "ipc" -> {}
               [] e = "http" -> {"ipc"} \cap Enabled
               [] e = "ws" -> {"ipc", "http"} \cap Enabled

\* Two constructors build services of the same type: Start gives up before it
\* has opened anything.  So it does when a constructor fails.
Duplicate == ~IsInjective(serviceFuncs)

StartRefused(c) ==
    /\ ~started
    /\ \/ Duplicate /\ UNCHANGED faults
       \/ serviceFuncs # <<>> /\ faults < MaxFaults /\ faults' = faults + 1
    /\ Return(c, "error")
    /\ UNCHANGED <<node, chan>>

\* What Start returns when startRPC has failed: the error is overwritten by the
\* result of the last service.Stop().
FailedStartResult(ks) ==
    IF ks = {} \/ ks \cap FaultyStop # {} THEN "error" ELSE "nil"

\* startInProc fails to register an API: nothing has been opened.
InProcFails(c) ==
    /\ ~started /\ ~Duplicate
    /\ faults < MaxFaults
    /\ faults' = faults + 1
    /\ Return(c, FailedStartResult(Range(serviceFuncs)))
    /\ UNCHANGED <<node, chan>>

\* Mutant: when the websocket endpoint fails the HTTP endpoint is left open.
StartFails_KeepHTTP(c, e, bad) ==
    /\ ~started /\ ~Duplicate
    /\ faults + 1 + Cardinality(bad) <= MaxFaults
    /\ faults' = faults + 1 + Cardinality(bad)
    /\ bad = {}
    /\ endpoint' = [x \in Enabled |-> IF x = "http" /\ e = "ws" THEN "up"
                                      ELSE endpoint[x]]
    /\ inproc' = FALSE
    /\ Return(c, FailedStartResult(Range(serviceFuncs)))
    /\ UNCHANGED <<serviceFuncs, started, services, stop, closed, chan>>

\* startRPC fails at endpoint e: what was opened before it is closed again.
StartFails(c, e, bad) ==
    /\ ~started /\ ~Duplicate
    /\ faults + 1 + Cardinality(bad) <= MaxFaults
    /\ faults' = faults + 1 + Cardinality(bad)
    /\ Closing(Before(e), bad)
    /\ inproc' = FALSE
    /\ Return(c, FailedStartResult(Range(serviceFuncs)))
    /\ UNCHANGED <<serviceFuncs, started, services, stop, closed, chan>>

\* Mutant: the channel of an earlier start is used again.
StartSucceeds_OldChannel(c) ==
    /\ ~started /\ ~Duplicate
    /\ stop < MaxEpochs
    /\ started' = TRUE /\ services' = Range(serviceFuncs)
    /\ inproc' = TRUE
    /\ endpoint' = [e \in Enabled |-> "up"]
    /\ stop' = IF stop = 0 THEN 1 ELSE stop
    /\ Return(c, "nil")
    /\ UNCHANGED <<serviceFuncs, closed, chan, faults>>

StartSucceeds(c) ==
    /\ ~started /\ ~Duplicate
    /\ stop < MaxEpochs
    /\ started' = TRUE /\ services' = Range(serviceFuncs)
    /\ inproc' = TRUE
    /\ endpoint' = [e \in Enabled |-> "up"]
    /\ stop' = stop + 1
    /\ Return(c, "nil")
    /\ UNCHANGED <<serviceFuncs, closed, chan, faults>>

Start(c) ==
    /\ pc[c] \in {"Start", "restarting"}
    /\ \/ started /\ Return(c, "error") /\ UNCHANGED <<node, chan, faults>>
       \/ StartRefused(c)
       \/ InProcFails(c)
       \/ \E e \in Enabled : \E bad \in SUBSET Before(e) : StartFails(c, e, bad)
       \/ StartSucceeds(c)

-----------------------------------------------------------------------------
(* Stop, Wait, Restart and Attach *)

\* Mutant: Stop does not look whether the server is started.
Stop_Unchecked(c) ==
    /\ pc[c] \in {"Stop", "Restart"}
    /\ Closing(Enabled, {})
    /\ started' = FALSE /\ services' = {}
    /\ closed' = closed \cup {stop}
    /\ Return(c, "nil")
    /\ UNCHANGED <<serviceFuncs, inproc, stop, chan, faults>>

\* Closing a closed channel would panic.  Stop leaves the in-process handler.
Stop(c) ==
    /\ pc[c] \in {"Stop", "Restart"}
    /\ \/ ~started /\ Return(c, "error") /\ UNCHANGED <<node, faults>>
       \/ /\ started
          /\ \E bad \in SUBSET Enabled :
                /\ Closing(Enabled, bad)
                /\ faults + Cardinality(bad) <= MaxFaults
                /\ faults' = faults + Cardinality(bad)
          /\ started' = FALSE /\ services' = {}
          /\ closed' = closed \cup {stop}
          /\ \/ stop \in closed /\ Return(c, "panic")
             \/ stop \notin closed /\ services \cap FaultyStop # {}
                /\ Return(c, "error")
             \/ /\ stop \notin closed /\ services \cap FaultyStop = {}
                /\ IF pc[c] = "Stop" THEN Return(c, "nil")
                   ELSE pc' = [pc EXCEPT ![c] = "restarting"] /\ UNCHANGED ret
          /\ UNCHANGED <<serviceFuncs, inproc, stop>>
    /\ UNCHANGED chan

Wait(c) ==
    /\ pc[c] = "Wait"
    /\ \/ ~started /\ Return(c, "nil") /\ UNCHANGED chan
       \/ /\ started
          /\ chan' = [chan EXCEPT ![c] = stop]
          /\ pc' = [pc EXCEPT ![c] = "blocked"]
          /\ UNCHANGED ret
    /\ UNCHANGED <<node, faults>>

\* Mutant: n.stop is read again instead of the channel that was current.
Released_Reread(c) ==
    /\ pc[c] = "blocked"
    /\ stop \in closed
    /\ chan' = [chan EXCEPT ![c] = 0]
    /\ Return(c, "nil")
    /\ UNCHANGED <<node, faults>>

\* The receive from the closed channel.
Released(c) ==
    /\ pc[c] = "blocked"
    /\ chan[c] \in closed
    /\ chan' = [chan EXCEPT ![c] = 0]
    /\ Return(c, "nil")
    /\ UNCHANGED <<node, faults>>

\* DialInProc on a nil handler would panic.
Attach(c) ==
    /\ pc[c] = "Attach"
    /\ Return(c, IF ~started THEN "error" ELSE IF inproc THEN "nil" ELSE "panic")
    /\ UNCHANGED <<node, chan, faults>>

-----------------------------------------------------------------------------
Step(c) ==
    \/ \E k \in Kinds : Register(c, k)
    \/ Start(c) \/ Stop(c) \/ Wait(c) \/ Released(c) \/ Attach(c)

Next == \E c \in Callers : Step(c) \/ \E m \in Methods : Invoke(c, m)

\* A goroutine that can run does run.
Spec == Init /\ [][Next]_vars /\ \A c \in Callers : WF_vars(Step(c))

-----------------------------------------------------------------------------
(* Correctness *)

\* No sequence of calls, of any goroutines, makes a method panic: the channel
\* is closed once per start, and a started server has its in-process handler.
NoPanic == \A c \in Callers : ret[c] # "panic"

\* "Wait blocks the thread until the node is stopped": once the server has been
\* stopped, everybody who waited for it returns, even if it is started again
\* before the waiter runs.
WaitersReleased ==
    \A c \in Callers :
        (pc[c] = "blocked" /\ ~started) ~> (pc[c] # "blocked")

\* A started server serves every configured endpoint; a server that is not
\* started, be it stopped or rolled back from a failed start, has none open
\* but an IPC listener that could not be closed.
NothingLeftOpen ==
    /\ started => \A e \in Enabled : endpoint[e] = "up"
    /\ ~started => \A e \in Enabled : endpoint[e] # "up"
=============================================================================
