--------------------------- MODULE MCRuleManager ---------------------------
(* The mixes of three operations, whichever thread does which.            *)
EXTENDS RuleManager, Sequences, TLC

CONSTANTS t1, t2, t3

Order == <<"match", "load", "setting", "auto", "refresh", "listen", "group", "upstream", "import">>

\* A second refresh meets little that one does not: it comes beside a match only.
OneRefresh(x) ==
  \/ \E i \in 1..3 : Order[x[i]] = "match"
  \/ \A i, j \in 1..3 : Order[x[i]] = "refresh" /\ x[i] = x[j] => i = j

MCSchedules ==
  {(t1 :> Order[x[1]]) @@ (t2 :> Order[x[2]]) @@ (t3 :> Order[x[3]]) :
     x \in {x \in [1..3 -> 1..Len(Order)] : x[1] <= x[2] /\ x[2] <= x[3] /\ OneRefresh(x)}}

\* Operations of one kind are told apart by nothing but their names: they begin
\* in the order of the names.
InOrder ==
  \/ crashed' # "no"
  \/ \A p \in {<<t1, t2>>, <<t2, t3>>} :
       kind[p[1]] = kind[p[2]] /\ pc[p[1]] = "new" => pc'[p[2]] = "new"
=============================================================================
