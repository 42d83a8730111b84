--------------------------- MODULE MCGasTransport ---------------------------
(* A relaySingle, a ping of the heartbeat and a relayHTTP1 of a batch.     *)
EXTENDS GasTransport

CONSTANTS s, p, h

MCKind == [c \in Calls |-> CASE c = s -> "single" [] c = p -> "ping" [] c = h -> "http1"]
MCHash == [c \in Calls |-> IF c = p THEN 0 ELSE 1]
=============================================================================
