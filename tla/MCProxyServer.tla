---------------------------- MODULE MCProxyServer ----------------------------
(* The proxy's life cycle with three RPC calls.  A call happens once and     *)
(* the calls differ in nothing, so they are named in the order they come.    *)
EXTENDS ProxyServer

CONSTANTS o1, o2, o3

Unseen(o) == pc[o] = "idle"

InOrder ==
    /\ Unseen(o1) => pc'[o2] \in {"idle", "dead"}
    /\ Unseen(o2) => pc'[o3] \in {"idle", "dead"}
=============================================================================
