---------------------------- MODULE MCGASManager ----------------------------
(* GASManager with the loops a configuration may enable.                   *)
EXTENDS GASManager

BothLoops == {"failover", "rotate"}
=============================================================================
