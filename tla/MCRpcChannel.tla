---------------------------- MODULE MCRpcChannel ----------------------------
(* A small instance of RpcChannel: its clients are interchangeable.         *)
EXTENDS RpcChannel, TLC

MCSymmetry == Permutations(Clients)
=============================================================================
