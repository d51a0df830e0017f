---------------------------- MODULE MCRpcServer ----------------------------
(* Instances of RpcServer: all three endpoints, two goroutines.              *)
EXTENDS RpcServer

Two == {"p", "q"}
AllEndpoints == {"ipc", "http", "ws"}
ProgramKinds == {"account", "chain"}
OneKind == {"account"}
=============================================================================
