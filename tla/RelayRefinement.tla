-------------------------- MODULE RelayRefinement ---------------------------
(***************************************************************************)
(* The request path implements the relay's promise.  A request is asked    *)
(* once its goroutine runs; coalescing, batches, timers and fan-out are    *)
(* steps the caller does not see.                                          *)
(***************************************************************************)
EXTENDS GasRelay

Asked == {r \in Requests : pc[r] # "new"}
ProperAnswers == [r \in Requests |-> {x \in Responses : Fits(r, x)}]

Promise == INSTANCE RelayPromise WITH asked <- Asked, Proper <- ProperAnswers

(* Every call of relayRequest is answered exactly once and properly: the   *)
(* relay with its coalescing, batching and fan-out implements the promise, *)
(* as long as nothing restarts it.                                         *)
PromiseKept == Promise!FairSpec
=============================================================================
