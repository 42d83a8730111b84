---------------------------- MODULE RelayPromise ----------------------------
(***************************************************************************)
(* What the relay promises whoever calls relayRequest, whatever path the   *)
(* request takes inside: it is answered once, with a response to a request *)
(* that is interchangeable with it or with an error, and it is answered.   *)
(***************************************************************************)
CONSTANTS Requests,
          Proper,   \* the answers that are right for each request
          Empty     \* no answer yet

VARIABLES asked, answer

vars == <<asked, answer>>

Init ==
  /\ asked = {}
  /\ answer = [r \in Requests |-> Empty]

Ask(r) ==
  /\ r \notin asked
  /\ asked' = asked \cup {r}
  /\ UNCHANGED answer

Answer(r) ==
  /\ r \in asked /\ answer[r] = Empty
  /\ \E x \in Proper[r] : answer' = [answer EXCEPT ![r] = x]
  /\ UNCHANGED asked

Next == \E r \in Requests : Ask(r) \/ Answer(r)

Spec == Init /\ [][Next]_vars
FairSpec == Spec /\ \A r \in Requests : WF_vars(Answer(r))
=============================================================================
