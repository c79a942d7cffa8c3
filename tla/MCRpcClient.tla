----------------------------- MODULE MCRpcClient -----------------------------
(* Small instances of RpcClient for TLC: one caller goes through an object  *)
(* of its own, the others share one.                                       *)
EXTENDS RpcClient

CONSTANTS shared, own, x1

MCClientOf == [c \in Tasks |-> IF c = x1 THEN own ELSE shared]
==============================================================================
