------------------------------ MODULE MCCFPool ------------------------------
(* CFPool with a few addresses.                                             *)
EXTENDS CFPool
=============================================================================
