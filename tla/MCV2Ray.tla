------------------------------ MODULE MCV2Ray ------------------------------
(* The V2Ray manager with a few calls of each kind.                        *)
EXTENDS V2RayManager

CONSTANTS s1, s2

(* The calls of StartCore are alike: they are named in the order in which  *)
(* they begin.  A call looks only at whether a configuration is selected,  *)
(* so that it need not begin when there are two in the list: those are     *)
(* there to be edited.                                                     *)
InOrder ==
  /\ pc[s2] = "new" /\ pc'[s2] = "read" => pc[s1] # "new"
  /\ Len(store.configs) > 1 =>
       \A c \in Calls : pc[c] = "new" => pc'[c] \in {"new", "lost"}
=============================================================================
