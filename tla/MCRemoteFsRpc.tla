---------------------------- MODULE MCRemoteFsRpc ----------------------------
(* Model-checking instance of RemoteFsRpc: one FUSE thread besides main and *)
(* the keep-alive thread.                                                  *)
EXTENDS RemoteFsRpc

CONSTANTS f1

MCFuseThreads == {f1}
=============================================================================
