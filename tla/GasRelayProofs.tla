--------------------------- MODULE GasRelayProofs ---------------------------
(***************************************************************************)
(* Theorems about GasRelay, for every set of requests and keys, every      *)
(* batch size and every number of restarts.                                *)
(***************************************************************************)
EXTENDS RelayRefinement, TLAPS, SequenceTheorems

(* Facts about the sequences of items. *)
LEMMA ItemsAppend ==
  ASSUME NEW S, NEW s \in Seq(S), NEW e \in S
  PROVE  /\ Append(s, e) # <<>>
         /\ Items(Append(s, e)) = Items(s) \cup {e}
         /\ NoDup(s) /\ e \notin Items(s) => NoDup(Append(s, e))
  BY DEF Items, NoDup

LEMMA ItemsEmpty == Items(<<>>) = {} /\ NoDup(<<>>)
  BY DEF Items, NoDup

LEMMA ItemsTail ==
  ASSUME NEW S, NEW s \in Seq(S), s # <<>>
  PROVE  /\ Head(s) \in Items(s) /\ Items(s) \subseteq S
         /\ Tail(s) \in Seq(S) /\ Len(Tail(s)) = Len(s) - 1
         /\ Items(s) = Items(Tail(s)) \cup {Head(s)}
         /\ NoDup(s) => NoDup(Tail(s)) /\ Head(s) \notin Items(Tail(s))
<1>1. Len(s) \in Nat \ {0} /\ Head(s) = s[1]
  OBVIOUS
<1>2. Tail(s) \in Seq(S) /\ Len(Tail(s)) = Len(s) - 1 /\ \A i \in 1..Len(Tail(s)) : Tail(s)[i] = s[i+1]
  OBVIOUS
<1>3. \A i \in 1..Len(s) : i = 1 \/ (i - 1 \in 1..Len(Tail(s)) /\ s[i] = Tail(s)[i-1])
  BY <1>1, <1>2
<1>4. Items(s) = Items(Tail(s)) \cup {Head(s)}
  <2>1. Items(s) \subseteq Items(Tail(s)) \cup {Head(s)}
    BY <1>1, <1>3, SMTT(30) DEF Items
  <2>2. 1 \in 1..Len(s) /\ \A i \in 1..Len(Tail(s)) : i + 1 \in 1..Len(s)
    BY <1>1, <1>2
  <2>3. Items(Tail(s)) \cup {Head(s)} \subseteq Items(s)
    BY <1>1, <1>2, <2>2 DEF Items
  <2> QED
    BY <2>1, <2>3
<1>5. NoDup(s) => NoDup(Tail(s)) /\ Head(s) \notin Items(Tail(s))
  BY <1>1, <1>2 DEF NoDup, Items
<1> QED
  BY <1>1, <1>2, <1>4, <1>5 DEF Items

(* What the batcher's steps do to the items of a sequence. *)
LEMMA BatchResultsType ==
  ASSUME NEW items \in Seq(Requests), NEW res \in BatchResults(items)
  PROVE  /\ res \in Seq(Responses)
         /\ Len(res) = Len(items)
         /\ \A i \in 1..Len(items) : res[i] \in {items[i], Error}
<1>1. Len(items) \in Nat
  OBVIOUS
<1>2. res \in [1..Len(items) -> Responses]
  BY DEF BatchResults
<1>3. res \in Seq(Responses) /\ Len(res) = Len(items)
  BY <1>1, <1>2
<1> QED
  BY <1>3 DEF BatchResults

-----------------------------------------------------------------------------
(* Types and ownership of flushes go together: sending the next response   *)
(* needs that a flush with responses left has items left.                  *)
Basic == TypeOK /\ FlushIsOwn

LEMMA BasicInit == Init => Basic
  BY RelayAssumption
  DEF RelayAssumption, Init, Basic, TypeOK, FlushIsOwn, PCs, TimerStates, Responses

(* What Goto and Return do to the goroutine's state and its answer. *)
LEMMA GotoType ==
  ASSUME TypeOK, NEW r \in Requests, NEW label \in PCs, Goto(r, label)
  PROVE  /\ pc' \in [Requests -> PCs] /\ pc'[r] = label
         /\ \A q \in Requests : q # r => pc'[q] = pc[q]
  BY DEF TypeOK, Goto

LEMMA ReturnType ==
  ASSUME TypeOK, NEW r \in Requests, NEW x \in Responses \cup {Empty}, Return(r, x)
  PROVE  /\ pc' \in [Requests -> PCs] /\ pc'[r] = "done"
         /\ \A q \in Requests : q # r => pc'[q] = pc[q]
         /\ answer' \in [Requests -> Responses \cup {Empty}]
         /\ \A q \in Requests : answer'[q] = IF q = r THEN x ELSE answer[q]
<1>1. Goto(r, "done") /\ "done" \in PCs
  BY DEF Return, PCs
<1> QED
  BY <1>1, GotoType DEF TypeOK, Return

LEMMA TypeStep == ASSUME TypeOK, FlushIsOwn, [Next]_vars PROVE TypeOK'
<1> USE RelayAssumption DEF RelayAssumption, TypeOK
<1>1. ASSUME NEW r \in Requests, RelayRequest(r) PROVE TypeOK'
  BY <1>1 DEF RelayRequest, Goto, PCs, coalesceVars, batchVars
<1>2. ASSUME NEW r \in Requests, SingleReturns(r) PROVE TypeOK'
  BY <1>2, SMTT(30) DEF SingleReturns, Return, Goto, PCs, Responses, coalesceVars, batchVars
<1>3. ASSUME NEW r \in Requests, ChunkedReturns(r) PROVE TypeOK'
  <2>1. CASE Return(r, r)
    BY <1>3, <2>1, ReturnType DEF ChunkedReturns, Responses, coalesceVars, batchVars
  <2>2. CASE Goto(r, "dispatch") /\ UNCHANGED answer
    BY <1>3, <2>2, GotoType DEF ChunkedReturns, PCs, coalesceVars, batchVars
  <2> QED
    BY <1>3, <2>1, <2>2 DEF ChunkedReturns
<1>4. ASSUME NEW r \in Requests, ParallelReturns(r) PROVE TypeOK'
  <2>1. CASE \E x \in {r, Error} : Return(r, x)
    BY <1>4, <2>1, ReturnType DEF ParallelReturns, Responses, coalesceVars, batchVars
  <2>2. CASE Goto(r, "submit") /\ UNCHANGED answer
    BY <1>4, <2>2, GotoType DEF ParallelReturns, PCs, coalesceVars, batchVars
  <2> QED
    BY <1>4, <2>1, <2>2 DEF ParallelReturns
<1>5. ASSUME NEW r \in Requests, TryCoalesce(r) PROVE TypeOK'
  <2>1. pc' \in [Requests -> PCs]
    BY <1>5, GotoType DEF TryCoalesce, PCs
  <2>2. coalescing' \in SUBSET Keys /\ waiters' \in [Keys -> Seq(Requests)]
    <3>1. coalesceKey[r] \in Keys /\ Append(waiters[coalesceKey[r]], r) \in Seq(Requests)
      OBVIOUS
    <3>2. coalescing' \in SUBSET Keys
      BY <1>5, <3>1 DEF TryCoalesce
    <3>3. PICK w \in {<<>>, Append(waiters[coalesceKey[r]], r)} :
             waiters' = [waiters EXCEPT ![coalesceKey[r]] = w]
      BY <1>5 DEF TryCoalesce
    <3>4. w \in Seq(Requests)
      <4> HIDE RelayAssumption DEF TypeOK, RelayAssumption
      <4>1. CASE w = <<>>
        BY <4>1
      <4>2. CASE w = Append(waiters[coalesceKey[r]], r)
        BY <3>1, <4>2
      <4> QED
        BY <3>3, <4>1, <4>2
    <3>5. waiters' \in [Keys -> Seq(Requests)]
      BY <3>3, <3>4
    <3> QED
      BY <3>2, <3>5
  <2> QED
    BY <1>5, <2>1, <2>2 DEF TryCoalesce, batchVars
<1>6. ASSUME NEW r \in Requests, WaiterReceives(r) PROVE TypeOK'
  BY <1>6 DEF WaiterReceives, Return, Goto, PCs, coalesceVars, batchVars
<1>7. ASSUME NEW r \in Requests, WaiterTimesOut(r) PROVE TypeOK'
  BY <1>7 DEF WaiterTimesOut, Goto, PCs, coalesceVars, batchVars
<1>8. ASSUME NEW r \in Requests, LeaderTakesWaiters(r) PROVE TypeOK'
  <2>1. pc' \in [Requests -> PCs]
    BY <1>8, GotoType DEF LeaderTakesWaiters, PCs
  <2>2. coalescing' \in SUBSET Keys /\ waiters' \in [Keys -> Seq(Requests)]
    BY <1>8 DEF LeaderTakesWaiters
  <2>3. deliver' \in [Requests -> Seq(Requests)]
    BY <1>8 DEF LeaderTakesWaiters
  <2> QED
    BY <1>8, <2>1, <2>2, <2>3 DEF LeaderTakesWaiters, batchVars
<1>9. ASSUME NEW r \in Requests, LeaderDelivers(r) PROVE TypeOK'
  <2>1. CASE deliver[r] # <<>>
    <3>1. Head(deliver[r]) \in Requests /\ Tail(deliver[r]) \in Seq(Requests)
      BY <2>1
    <3>2. waiterCh' \in [Requests -> Responses \cup {Empty}]
      BY <1>9, <2>1, <3>1 DEF LeaderDelivers
    <3>3. deliver' \in [Requests -> Seq(Requests)]
      BY <1>9, <2>1, <3>1 DEF LeaderDelivers
    <3> QED
      BY <1>9, <2>1, <3>2, <3>3 DEF LeaderDelivers, batchVars
  <2>2. CASE deliver[r] = <<>>
    BY <1>9, <2>2, ReturnType DEF LeaderDelivers, batchVars
  <2> QED
    BY <2>1, <2>2
<1>10. ASSUME NEW r \in Requests, BatchSubmit(r) PROVE TypeOK'
  <2>1. pc' \in [Requests -> PCs]
    BY <1>10, GotoType DEF BatchSubmit, PCs
  <2>2. Append(pending, r) \in Seq(Requests)
    OBVIOUS
  <2>3. pending' \in Seq(Requests) /\ flight' \in [Requests -> Seq(Requests)]
    <3>1. pending' = <<>> \/ pending' = Append(pending, r)
      BY <1>10 DEF BatchSubmit
    <3>2. flight' \in [Requests -> Seq(Requests)]
      BY <1>10, <2>2 DEF BatchSubmit
    <3>3. pending' \in Seq(Requests)
      <4> HIDE RelayAssumption DEF TypeOK, RelayAssumption
      <4>1. CASE pending' = <<>>
        BY <4>1
      <4>2. CASE pending' = Append(pending, r)
        BY <2>2, <4>2
      <4> QED
        BY <3>1, <4>1, <4>2
    <3> QED
      BY <3>2, <3>3
  <2>4. batchTimer' \in Requests \cup {NoTimer} /\ timer' \in [Requests -> TimerStates]
    BY <1>10 DEF BatchSubmit, StopBatchTimer, TimerStates
  <2> QED
    BY <1>10, <2>1, <2>3, <2>4 DEF BatchSubmit, coalesceVars
<1>11. ASSUME NEW r \in Requests, BatchedReceives(r) PROVE TypeOK'
  BY <1>11 DEF BatchedReceives, Return, Goto, PCs, coalesceVars, batchVars
<1>12. ASSUME NEW o \in Requests, TimerFires(o) PROVE TypeOK'
  BY <1>12 DEF TimerFires, TimerStates, coalesceVars
<1>13. ASSUME NEW o \in Requests, TimerCallback(o) PROVE TypeOK'
  BY <1>13 DEF TimerCallback, TimerStates, coalesceVars
<1>14. ASSUME NEW o \in Requests, FlushReturns(o) PROVE TypeOK'
  <2>1. PICK res \in BatchResults(flight[o]) : results' = [results EXCEPT ![o] = res]
    BY <1>14 DEF FlushReturns
  <2>2. res \in Seq(Responses)
    BY <2>1, BatchResultsType
  <2> QED
    BY <1>14, <2>1, <2>2 DEF FlushReturns, coalesceVars
<1>15. ASSUME NEW o \in Requests, FlushSends(o) PROVE TypeOK'
  <2>1. flight[o] # <<>>
    BY <1>15 DEF FlushSends, FlushIsOwn
  <2>2. Head(flight[o]) \in Requests /\ Head(results[o]) \in Responses
    BY <1>15, <2>1, SMTT(30) DEF FlushSends
  <2>3. respCh' \in [Requests -> Responses \cup {Empty}]
    BY <1>15, <2>2 DEF FlushSends
  <2>4. flight' \in [Requests -> Seq(Requests)] /\ results' \in [Requests -> Seq(Responses)]
    BY <1>15, <2>1, SMTT(30) DEF FlushSends
  <2> QED
    BY <1>15, <2>3, <2>4 DEF FlushSends, coalesceVars
<1>16. ASSUME Restart PROVE TypeOK'
  BY <1>16 DEF Restart, StopBatchTimer, TimerStates, coalesceVars
<1>17. ASSUME UNCHANGED vars PROVE TypeOK'
  BY <1>17 DEF vars
<1> QED
  BY <1>1, <1>2, <1>3, <1>4, <1>5, <1>6, <1>7, <1>8, <1>9, <1>10, <1>11,
     <1>12, <1>13, <1>14, <1>15, <1>16, <1>17 DEF Next, Goroutine, Batcher, Finished

(* The states of a goroutine that has submitted its item, or never will.   *)
Past == {"leading", "delivering", "batched", "done"}

(* A step that leaves the batcher alone keeps FlushIsOwn, as no goroutine  *)
(* returns to a state before its submission.                               *)
LEMMA OwnQuiet ==
  ASSUME FlushIsOwn, UNCHANGED <<timer, flight, results>>,
         \A q \in Requests : pc[q] \in Past => pc'[q] \in Past
  PROVE  FlushIsOwn'
  BY DEF FlushIsOwn, Past

LEMMA OwnStep == ASSUME TypeOK, FlushIsOwn, [Next]_vars PROVE FlushIsOwn'
<1>1. ASSUME NEW r \in Requests, RelayRequest(r) PROVE FlushIsOwn'
  BY <1>1, OwnQuiet DEF RelayRequest, Goto, TypeOK, Past, batchVars
<1>2. ASSUME NEW r \in Requests, SingleReturns(r) PROVE FlushIsOwn'
  BY <1>2, OwnQuiet DEF SingleReturns, Return, Goto, TypeOK, Past, batchVars
<1>3. ASSUME NEW r \in Requests, ChunkedReturns(r) PROVE FlushIsOwn'
  BY <1>3, OwnQuiet DEF ChunkedReturns, Return, Goto, TypeOK, Past, batchVars
<1>4. ASSUME NEW r \in Requests, ParallelReturns(r) PROVE FlushIsOwn'
  BY <1>4, OwnQuiet DEF ParallelReturns, Return, Goto, TypeOK, Past, batchVars
<1>5. ASSUME NEW r \in Requests, TryCoalesce(r) PROVE FlushIsOwn'
  BY <1>5, OwnQuiet DEF TryCoalesce, Goto, TypeOK, Past, batchVars
<1>6. ASSUME NEW r \in Requests, WaiterReceives(r) PROVE FlushIsOwn'
  BY <1>6, OwnQuiet DEF WaiterReceives, Return, Goto, TypeOK, Past, batchVars
<1>7. ASSUME NEW r \in Requests, WaiterTimesOut(r) PROVE FlushIsOwn'
  BY <1>7, OwnQuiet DEF WaiterTimesOut, Goto, TypeOK, Past, batchVars
<1>8. ASSUME NEW r \in Requests, LeaderTakesWaiters(r) PROVE FlushIsOwn'
  BY <1>8, OwnQuiet DEF LeaderTakesWaiters, Goto, TypeOK, Past, batchVars
<1>9. ASSUME NEW r \in Requests, LeaderDelivers(r) PROVE FlushIsOwn'
  BY <1>9, OwnQuiet DEF LeaderDelivers, Return, Goto, TypeOK, Past, batchVars
<1>10. ASSUME NEW r \in Requests, BatchedReceives(r) PROVE FlushIsOwn'
  BY <1>10, OwnQuiet DEF BatchedReceives, Return, Goto, TypeOK, Past, batchVars
<1>11. ASSUME NEW r \in Requests, BatchSubmit(r) PROVE FlushIsOwn'
  <2>1. \A q \in Requests : pc[q] \in Past => pc'[q] \in Past
    BY <1>11 DEF BatchSubmit, Goto, TypeOK, Past
  <2>2. pc'[r] \in Past /\ timer[r] = "unset" /\ flight[r] = <<>> /\ results[r] = <<>>
    <3>1. pc'[r] \in Past
      BY <1>11 DEF BatchSubmit, Goto, TypeOK, Past
    <3>2. timer[r] = "unset" /\ flight[r] = <<>>
      BY <1>11 DEF BatchSubmit, FlushIsOwn
    <3>3. results[r] = <<>>
      BY <3>2 DEF FlushIsOwn, TypeOK
    <3> QED
      BY <3>1, <3>2, <3>3
  <2>3. CASE Len(Append(pending, r)) >= BatchMax
    <3>1. flight' = [flight EXCEPT ![r] = Append(pending, r)] /\ results' = results
      BY <1>11, <2>3, RelayAssumption DEF BatchSubmit, TypeOK, RelayAssumption
    <3>2. \A q \in Requests : timer'[q] \in {timer[q], "gone"}
      BY <1>11, <2>3, RelayAssumption DEF BatchSubmit, StopBatchTimer, TypeOK, RelayAssumption
    <3>3. timer'[r] = "unset"
      BY <1>11, <2>2, <2>3, RelayAssumption DEF BatchSubmit, StopBatchTimer, TypeOK, RelayAssumption
    <3>4. \A q \in Requests : timer[q] = "unset" => timer'[q] = "unset"
      BY <1>11, <2>3, RelayAssumption DEF BatchSubmit, StopBatchTimer, TypeOK, RelayAssumption
    <3> QED
      BY <2>1, <2>2, <3>1, <3>2, <3>3, <3>4 DEF FlushIsOwn, TypeOK, Past
  <2>4. CASE Len(Append(pending, r)) < BatchMax
    <3>1. UNCHANGED <<flight, results>>
      BY <1>11, <2>4, RelayAssumption DEF BatchSubmit, TypeOK, RelayAssumption
    <3>2. \A q \in Requests : q # r => timer'[q] = timer[q]
      BY <1>11, <2>4, RelayAssumption DEF BatchSubmit, TypeOK, RelayAssumption
    <3> QED
      BY <2>1, <2>2, <3>1, <3>2 DEF FlushIsOwn, Past
  <2> QED
    BY <2>3, <2>4, RelayAssumption DEF TypeOK, RelayAssumption
<1>12. ASSUME NEW o \in Requests, TimerFires(o) PROVE FlushIsOwn'
  BY <1>12 DEF TimerFires, TypeOK, FlushIsOwn
<1>13. ASSUME NEW o \in Requests, TimerCallback(o) PROVE FlushIsOwn'
  BY <1>13 DEF TimerCallback, TypeOK, FlushIsOwn
<1>14. ASSUME NEW o \in Requests, FlushReturns(o) PROVE FlushIsOwn'
  <2>1. PICK res \in BatchResults(flight[o]) : results' = [results EXCEPT ![o] = res]
    BY <1>14 DEF FlushReturns
  <2>2. Len(res) = Len(flight[o])
    BY <2>1, BatchResultsType DEF TypeOK
  <2> QED
    BY <1>14, <2>1, <2>2 DEF FlushReturns, TypeOK, FlushIsOwn
<1>15. ASSUME NEW o \in Requests, FlushSends(o) PROVE FlushIsOwn'
  <2>1. flight[o] # <<>> /\ results[o] # <<>>
    BY <1>15 DEF FlushSends, FlushIsOwn, TypeOK
  <2>2. Len(Tail(flight[o])) = Len(flight[o]) - 1 /\ Len(Tail(results[o])) = Len(results[o]) - 1
    BY <2>1, ItemsTail DEF TypeOK
  <2> QED
    BY <1>15, <2>1, <2>2 DEF FlushSends, TypeOK, FlushIsOwn
<1>16. ASSUME Restart PROVE FlushIsOwn'
  BY <1>16, RelayAssumption DEF Restart, StopBatchTimer, TypeOK, FlushIsOwn, RelayAssumption
<1>17. ASSUME UNCHANGED vars PROVE FlushIsOwn'
  BY <1>17 DEF vars, FlushIsOwn
<1> QED
  BY <1>1, <1>2, <1>3, <1>4, <1>5, <1>6, <1>7, <1>8, <1>9, <1>10, <1>11,
     <1>12, <1>13, <1>14, <1>15, <1>16, <1>17 DEF Next, Goroutine, Batcher, Finished

LEMMA BasicStep == Basic /\ [Next]_vars => Basic'
  BY TypeStep, OwnStep DEF Basic

LEMMA BasicAlways == Spec => []Basic
  BY BasicInit, BasicStep, PTL DEF Spec

(* Every variable of the relay keeps its type. *)
THEOREM TypeCorrect == Spec => []TypeOK
  BY BasicAlways, PTL DEF Basic

(* A flush belongs to one request and has one response for every item, so  *)
(* flushBatch never indexes past the responses relayBatch returned.        *)
THEOREM FlushesAreOwn == Spec => []FlushIsOwn
  BY BasicAlways, PTL DEF Basic

-----------------------------------------------------------------------------
(* The steps of a goroutine other than its submission.  They leave the     *)
(* batcher alone, and one that is blocked on its empty channel stays.      *)
Quiet(r) ==
  \/ RelayRequest(r) \/ SingleReturns(r) \/ ChunkedReturns(r) \/ ParallelReturns(r)
  \/ TryCoalesce(r) \/ WaiterReceives(r) \/ WaiterTimesOut(r)
  \/ LeaderTakesWaiters(r) \/ LeaderDelivers(r) \/ BatchedReceives(r)

Blocked(r) == Submitted(r) /\ respCh[r] = Empty

LEMMA QuietStep ==
  ASSUME TypeOK, NEW r \in Requests, Quiet(r)
  PROVE  /\ UNCHANGED <<batchVars, respCh, restarts>>
         /\ \A q \in Requests : Blocked(q)' <=> Blocked(q)
<1>1. CASE RelayRequest(r)
  BY <1>1 DEF RelayRequest, Goto, TypeOK, Blocked, Submitted, batchVars
<1>2. CASE SingleReturns(r)
  BY <1>2 DEF SingleReturns, Return, Goto, TypeOK, Blocked, Submitted, batchVars
<1>3. CASE ChunkedReturns(r)
  BY <1>3 DEF ChunkedReturns, Return, Goto, TypeOK, Blocked, Submitted, batchVars
<1>4. CASE ParallelReturns(r)
  BY <1>4 DEF ParallelReturns, Return, Goto, TypeOK, Blocked, Submitted, batchVars
<1>5. CASE TryCoalesce(r)
  BY <1>5 DEF TryCoalesce, Goto, TypeOK, Blocked, Submitted, batchVars
<1>6. CASE WaiterReceives(r)
  BY <1>6 DEF WaiterReceives, Return, Goto, TypeOK, Blocked, Submitted, batchVars
<1>7. CASE WaiterTimesOut(r)
  BY <1>7 DEF WaiterTimesOut, Goto, TypeOK, Blocked, Submitted, batchVars
<1>8. CASE LeaderTakesWaiters(r)
  BY <1>8 DEF LeaderTakesWaiters, Goto, TypeOK, Blocked, Submitted, batchVars
<1>9. CASE LeaderDelivers(r)
  BY <1>9 DEF LeaderDelivers, Return, Goto, TypeOK, Blocked, Submitted, batchVars
<1>10. CASE BatchedReceives(r)
  BY <1>10 DEF BatchedReceives, Return, Goto, TypeOK, Blocked, Submitted, batchVars
<1> QED
  BY <1>1, <1>2, <1>3, <1>4, <1>5, <1>6, <1>7, <1>8, <1>9, <1>10 DEF Quiet

(* The cases of a step, for the invariants of the batcher. *)
LEMMA StepCases ==
  ASSUME [Next]_vars
  PROVE  \/ \E r \in Requests : Quiet(r) \/ BatchSubmit(r) \/ Batcher(r)
         \/ Restart
         \/ UNCHANGED vars
  BY DEF Next, Goroutine, Quiet, Finished

-----------------------------------------------------------------------------
LEMMA TimedStep == ASSUME TypeOK, PendingIsTimed, [Next]_vars PROVE PendingIsTimed'
<1> USE RelayAssumption DEF RelayAssumption
<1>1. ASSUME NEW r \in Requests, Quiet(r) PROVE PendingIsTimed'
  BY <1>1, QuietStep DEF batchVars, PendingIsTimed
<1>2. ASSUME NEW r \in Requests, BatchSubmit(r) PROVE PendingIsTimed'
  <2>1. Append(pending, r) # <<>>
    BY ItemsAppend DEF TypeOK
  <2>2. CASE Len(Append(pending, r)) >= BatchMax
    BY <1>2, <2>2 DEF BatchSubmit, StopBatchTimer, PendingIsTimed, TypeOK
  <2>3. CASE Len(Append(pending, r)) < BatchMax
    BY <1>2, <2>1, <2>3, SMTT(30) DEF BatchSubmit, PendingIsTimed, TypeOK
  <2> QED
    BY <2>2, <2>3 DEF TypeOK
<1>3. ASSUME NEW o \in Requests, TimerFires(o) PROVE PendingIsTimed'
  BY <1>3 DEF TimerFires, PendingIsTimed, TypeOK
<1>4. ASSUME NEW o \in Requests, TimerCallback(o) PROVE PendingIsTimed'
  BY <1>4 DEF TimerCallback, PendingIsTimed
<1>5. ASSUME NEW o \in Requests, FlushReturns(o) \/ FlushSends(o) PROVE PendingIsTimed'
  BY <1>5 DEF FlushReturns, FlushSends, PendingIsTimed
<1>6. ASSUME Restart PROVE PendingIsTimed'
  BY <1>6 DEF Restart, StopBatchTimer, PendingIsTimed
<1>7. ASSUME UNCHANGED vars PROVE PendingIsTimed'
  BY <1>7 DEF vars, PendingIsTimed
<1> QED
  BY StepCases, <1>1, <1>2, <1>3, <1>4, <1>5, <1>6, <1>7 DEF Batcher

(* The pending batch always has a live timer: batchSubmit, the overflow    *)
(* flush, late timer callbacks and restart() together never strand it.     *)
THEOREM PendingAlwaysTimed == Spec => []PendingIsTimed
<1>1. Init => PendingIsTimed
  BY DEF Init, PendingIsTimed
<1> QED
  BY <1>1, TimedStep, BasicAlways, PTL DEF Spec, Basic

LEMMA BoundedStep == ASSUME TypeOK, BatchBounded, FlushIsOwn, [Next]_vars PROVE BatchBounded'
<1> USE RelayAssumption DEF RelayAssumption
<1>1. ASSUME NEW r \in Requests, Quiet(r) PROVE BatchBounded'
  BY <1>1, QuietStep DEF batchVars, BatchBounded
<1>2. ASSUME NEW r \in Requests, BatchSubmit(r) PROVE BatchBounded'
  <2>1. Len(Append(pending, r)) = Len(pending) + 1 /\ Len(pending) \in Nat
    BY DEF TypeOK
  <2>2. CASE Len(Append(pending, r)) >= BatchMax
    <3>1. pending' = <<>> /\ flight' = [flight EXCEPT ![r] = Append(pending, r)]
      BY <1>2, <2>1, <2>2 DEF BatchSubmit
    <3>2. Len(pending) < BatchMax /\ Len(Append(pending, r)) <= BatchMax
      BY <2>1 DEF BatchBounded
    <3> QED
      BY <3>1, <3>2 DEF BatchBounded, TypeOK
  <2>3. CASE Len(Append(pending, r)) < BatchMax
    BY <1>2, <2>3 DEF BatchSubmit, BatchBounded, TypeOK
  <2> QED
    BY <2>1, <2>2, <2>3
<1>3. ASSUME NEW o \in Requests, TimerFires(o) \/ FlushReturns(o) PROVE BatchBounded'
  BY <1>3 DEF TimerFires, FlushReturns, BatchBounded
<1>4. ASSUME NEW o \in Requests, TimerCallback(o) PROVE BatchBounded'
  BY <1>4 DEF TimerCallback, BatchBounded, TypeOK
<1>5. ASSUME NEW o \in Requests, FlushSends(o) PROVE BatchBounded'
  <2>1. flight[o] # <<>>
    BY <1>5 DEF FlushSends, FlushIsOwn, TypeOK
  <2>2. Len(Tail(flight[o])) = Len(flight[o]) - 1 /\ Len(flight[o]) \in Nat
    BY <2>1, ItemsTail DEF TypeOK
  <2> QED
    BY <1>5, <2>2 DEF FlushSends, BatchBounded, TypeOK
<1>6. ASSUME Restart PROVE BatchBounded'
  BY <1>6 DEF Restart, BatchBounded
<1>7. ASSUME UNCHANGED vars PROVE BatchBounded'
  BY <1>7 DEF vars, BatchBounded
<1> QED
  BY StepCases, <1>1, <1>2, <1>3, <1>4, <1>5, <1>6, <1>7 DEF Batcher

(* No batch sent to the script holds more than gasBatchMax requests. *)
THEOREM BatchesBounded == Spec => []BatchBounded
<1>1. Init => BatchBounded
  BY RelayAssumption DEF RelayAssumption, Init, BatchBounded
<1> QED
  BY <1>1, BoundedStep, BasicAlways, PTL DEF Spec, Basic

-----------------------------------------------------------------------------
(* A submission meets an item that is nowhere yet. *)
LEMMA Fresh ==
  ASSUME TypeOK, ItemInOnePlace, NEW r \in Requests, pc[r] \in {"lead", "submit"}
  PROVE  /\ r \notin Items(pending) /\ \A o \in Requests : r \notin Items(flight[o])
         /\ respCh[r] = Empty
  BY DEF ItemInOnePlace, Submitted

LEMMA OnePlaceQuiet ==
  ASSUME TypeOK, ItemInOnePlace, NEW r \in Requests, Quiet(r) PROVE ItemInOnePlace'
<1>1. UNCHANGED <<pending, flight, respCh>> /\ \A q \in Requests : Blocked(q)' <=> Blocked(q)
  BY QuietStep DEF batchVars
<1>2. \A q \in Requests : pc[q] \in Past => pc'[q] \in Past
  BY SMTT(30) DEF Quiet, RelayRequest, SingleReturns, ChunkedReturns, ParallelReturns, TryCoalesce,
     WaiterReceives, WaiterTimesOut, LeaderTakesWaiters, LeaderDelivers, BatchedReceives,
     Return, Goto, TypeOK, Past
<1> QED
  BY <1>1, <1>2 DEF ItemInOnePlace, Blocked, Past

LEMMA OnePlaceSubmit ==
  ASSUME TypeOK, FlushIsOwn, ItemInOnePlace, NEW r \in Requests, BatchSubmit(r)
  PROVE  ItemInOnePlace'
<1> USE RelayAssumption DEF RelayAssumption
<1> DEFINE items == Append(pending, r)
<1>1. /\ Items(items) = Items(pending) \cup {r} /\ NoDup(items)
      /\ \A o \in Requests : Items(flight[o]) \cap Items(items) = {}
  <2>1. NoDup(pending) /\ \A o \in Requests : Items(flight[o]) \cap Items(pending) = {}
    BY DEF ItemInOnePlace
  <2>2. r \notin Items(pending) /\ \A o \in Requests : r \notin Items(flight[o])
    BY Fresh DEF BatchSubmit
  <2>3. Items(items) = Items(pending) \cup {r} /\ NoDup(items)
    BY <2>1, <2>2, ItemsAppend DEF TypeOK
  <2> QED
    BY <2>1, <2>2, <2>3
<1>2. /\ respCh' = respCh /\ respCh[r] = Empty /\ flight[r] = <<>>
      /\ \A q \in Requests : q # r => pc'[q] = pc[q]
      /\ pc'[r] \in {"leading", "batched"}
  BY Fresh DEF BatchSubmit, Goto, TypeOK, FlushIsOwn
<1>3. \/ pending' = <<>> /\ flight' = [flight EXCEPT ![r] = items]
      \/ pending' = items /\ flight' = flight
  BY DEF BatchSubmit
<1>4. \A q \in Requests : \/ q \in Items(pending) \/ q = r
                          \/ \E o \in Requests : q \in Items(flight[o])
                          => pc'[q] \in {"leading", "batched"} /\ respCh'[q] = Empty
  BY <1>2 DEF ItemInOnePlace, Submitted
<1>5. CASE pending' = <<>> /\ flight' = [flight EXCEPT ![r] = items]
  <2>1. Items(pending') = {} /\ NoDup(pending')
    BY <1>5, ItemsEmpty
  <2>2. \A o \in Requests : flight'[o] = IF o = r THEN items ELSE flight[o]
    BY <1>5 DEF TypeOK
  <2> HIDE DEF items
  <2>3. \A o \in Requests : NoDup(flight'[o]) /\ Items(flight'[o]) \cap Items(pending') = {}
    BY <1>1, <2>1, <2>2 DEF ItemInOnePlace
  <2>4. \A o, p \in Requests : o # p => Items(flight'[o]) \cap Items(flight'[p]) = {}
    BY <1>1, <2>2 DEF ItemInOnePlace
  <2>5. \A q \in Requests :
          (\E o \in Requests : q \in Items(flight'[o])) =>
            q \in Items(pending) \/ q = r \/ \E o \in Requests : q \in Items(flight[o])
    BY <1>1, <2>2
  <2>6. \A q \in Requests :
          pc'[q] \notin {"leading", "delivering", "batched", "done"} => respCh'[q] = Empty
    BY <1>2 DEF ItemInOnePlace
  <2> QED
    BY <1>4, <2>1, <2>3, <2>4, <2>5, <2>6 DEF ItemInOnePlace, Submitted
<1>6. CASE pending' = items /\ flight' = flight
  <2> HIDE DEF items
  <2> QED
    BY <1>1, <1>2, <1>4, <1>6 DEF ItemInOnePlace, Submitted
<1> QED
  BY <1>3, <1>5, <1>6

LEMMA OnePlaceCallback ==
  ASSUME TypeOK, FlushIsOwn, ItemInOnePlace, NEW o \in Requests, TimerCallback(o)
  PROVE  ItemInOnePlace'
<1>1. /\ flight[o] = <<>> /\ pending' = <<>>
      /\ \A p \in Requests : flight'[p] = IF p = o THEN pending ELSE flight[p]
      /\ UNCHANGED <<pc, respCh>>
  BY DEF TimerCallback, FlushIsOwn, TypeOK
<1>2. Items(pending') = {} /\ NoDup(pending')
  BY <1>1, ItemsEmpty
<1> QED
  BY <1>1, <1>2 DEF ItemInOnePlace, Submitted

LEMMA OnePlaceSends ==
  ASSUME TypeOK, FlushIsOwn, ItemInOnePlace, NEW o \in Requests, FlushSends(o)
  PROVE  ItemInOnePlace'
<1> DEFINE h == Head(flight[o])
<1>1. flight[o] # <<>>
  BY DEF FlushSends, FlushIsOwn, TypeOK
<1>2. /\ h \in Requests /\ h \in Items(flight[o]) /\ h \notin Items(Tail(flight[o]))
      /\ NoDup(Tail(flight[o])) /\ Items(Tail(flight[o])) \subseteq Items(flight[o])
  BY <1>1, ItemsTail, SMTT(30) DEF TypeOK, ItemInOnePlace
<1>3. /\ \A p \in Requests : flight'[p] = IF p = o THEN Tail(flight[o]) ELSE flight[p]
      /\ \A q \in Requests : q # h => respCh'[q] = respCh[q]
      /\ UNCHANGED <<pc, pending>>
  BY <1>2 DEF FlushSends, TypeOK
<1>4. h \notin Items(pending) /\ \A p \in Requests : p # o => h \notin Items(flight[p])
  BY <1>2 DEF ItemInOnePlace
<1>5. Submitted(h)
  BY <1>2 DEF ItemInOnePlace
<1> HIDE DEF h
<1> QED
  BY <1>2, <1>3, <1>4, <1>5 DEF ItemInOnePlace, Submitted

LEMMA OnePlaceStep ==
  ASSUME TypeOK, FlushIsOwn, ItemInOnePlace, [Next]_vars PROVE ItemInOnePlace'
<1>1. ASSUME NEW o \in Requests, TimerFires(o) \/ FlushReturns(o) PROVE ItemInOnePlace'
  BY <1>1 DEF TimerFires, FlushReturns, ItemInOnePlace, Submitted
<1>2. ASSUME Restart PROVE ItemInOnePlace'
  BY <1>2, ItemsEmpty DEF Restart, ItemInOnePlace, Submitted
<1>3. ASSUME UNCHANGED vars PROVE ItemInOnePlace'
  BY <1>3 DEF vars, ItemInOnePlace, Submitted
<1> QED
  BY StepCases, OnePlaceQuiet, OnePlaceSubmit, OnePlaceCallback, OnePlaceSends,
     <1>1, <1>2, <1>3 DEF Batcher

LEMMA OnePlaceInit == Init => ItemInOnePlace
  BY ItemsEmpty DEF Init, ItemInOnePlace

(* No item is sent to the script twice and no flush blocks on a channel    *)
(* that is full already: an item is in the pending batch or in one flush.  *)
THEOREM ItemsInOnePlace == Spec => []ItemInOnePlace
  BY OnePlaceInit, OnePlaceStep, BasicAlways, PTL DEF Spec, Basic

(* The batches are sound for any requests, batch limit and number of       *)
(* restarts: well typed, within gasBatchMax, every item in one place       *)
(* (batchSubmit, its timer's callback, flushBatch).                        *)
THEOREM BatchesSound == Spec => []BatchSound
  BY TypeCorrect, BatchesBounded, ItemsInOnePlace, PTL DEF BatchSound

-----------------------------------------------------------------------------
LEMMA NotLostStep ==
  ASSUME TypeOK, FlushIsOwn, NoItemLost, [Next]_vars PROVE NoItemLost'
<1> USE RelayAssumption DEF RelayAssumption
<1>1. ASSUME NEW r \in Requests, Quiet(r) PROVE NoItemLost'
  <2>1. /\ UNCHANGED <<pending, flight, restarts>>
        /\ \A q \in Requests : Blocked(q)' <=> Blocked(q)
    BY <1>1, QuietStep DEF batchVars
  <2> QED
    BY <2>1 DEF NoItemLost, Blocked
<1>2. ASSUME NEW r \in Requests, BatchSubmit(r) PROVE NoItemLost'
  <2> DEFINE items == Append(pending, r)
  <2>1. Items(items) = Items(pending) \cup {r}
    BY ItemsAppend DEF TypeOK
  <2>2. /\ UNCHANGED <<respCh, restarts>> /\ flight[r] = <<>>
        /\ \A q \in Requests : q # r => pc'[q] = pc[q]
    BY <1>2 DEF BatchSubmit, Goto, TypeOK, FlushIsOwn
  <2>3. \/ pending' = <<>> /\ flight' = [flight EXCEPT ![r] = items]
        \/ pending' = items /\ flight' = flight
    BY <1>2 DEF BatchSubmit
  <2>4. CASE pending' = <<>> /\ flight' = [flight EXCEPT ![r] = items]
    <3>1. \A o \in Requests : flight'[o] = IF o = r THEN items ELSE flight[o]
      BY <2>4 DEF TypeOK
    <3> HIDE DEF items
    <3> QED
      BY <2>1, <2>2, <3>1, ItemsEmpty DEF NoItemLost, Submitted
  <2>5. CASE pending' = items /\ flight' = flight
    <3> HIDE DEF items
    <3> QED
      BY <2>1, <2>2, <2>5 DEF NoItemLost, Submitted
  <2> QED
    BY <2>3, <2>4, <2>5
<1>3. ASSUME NEW o \in Requests, TimerFires(o) \/ FlushReturns(o) PROVE NoItemLost'
  BY <1>3 DEF TimerFires, FlushReturns, NoItemLost, Submitted
<1>4. ASSUME NEW o \in Requests, TimerCallback(o) PROVE NoItemLost'
  <2>1. /\ flight[o] = <<>> /\ UNCHANGED <<pc, respCh, restarts>>
        /\ \A p \in Requests : flight'[p] = IF p = o THEN pending ELSE flight[p]
    BY <1>4 DEF TimerCallback, FlushIsOwn, TypeOK
  <2> QED
    BY <2>1, ItemsEmpty DEF NoItemLost, Submitted
<1>5. ASSUME NEW o \in Requests, FlushSends(o) PROVE NoItemLost'
  <2> DEFINE h == Head(flight[o])
  <2>1. flight[o] # <<>> /\ Head(results[o]) \in Responses
    BY <1>5 DEF FlushSends, FlushIsOwn, TypeOK
  <2>2. h \in Requests /\ Items(flight[o]) = Items(Tail(flight[o])) \cup {h}
    BY <2>1, ItemsTail DEF TypeOK
  <2>3. /\ \A p \in Requests : flight'[p] = IF p = o THEN Tail(flight[o]) ELSE flight[p]
        /\ \A q \in Requests : q # h => respCh'[q] = respCh[q]
        /\ respCh'[h] # Empty
        /\ UNCHANGED <<pc, pending, restarts>>
    BY <1>5, <2>1, <2>2, SMTT(30) DEF FlushSends, TypeOK, Responses
  <2> HIDE DEF h
  <2> QED
    BY <2>2, <2>3 DEF NoItemLost, Submitted
<1>6. ASSUME Restart PROVE NoItemLost'
  BY <1>6 DEF Restart, NoItemLost, TypeOK
<1>7. ASSUME UNCHANGED vars PROVE NoItemLost'
  BY <1>7 DEF vars, NoItemLost, Submitted
<1> QED
  BY StepCases, <1>1, <1>2, <1>3, <1>4, <1>5, <1>6, <1>7 DEF Batcher

(* As long as the relay is not restarted, a request that waits for its     *)
(* batch is in a batch somebody will flush.                                *)
THEOREM ItemsNotLost == Spec => []NoItemLost
<1>1. Init => NoItemLost
  BY DEF Init, NoItemLost, Submitted
<1> QED
  BY <1>1, NotLostStep, BasicAlways, PTL DEF Spec, Basic

-----------------------------------------------------------------------------
LEMMA ChannelFitsStep ==
  ASSUME TypeOK, FlushIsOwn, ChannelFits, [Next]_vars PROVE ChannelFits'
<1> USE RelayAssumption DEF RelayAssumption
<1>1. ASSUME NEW r \in Requests, Quiet(r) PROVE ChannelFits'
  BY <1>1, QuietStep DEF batchVars, ChannelFits
<1>2. ASSUME NEW r \in Requests, BatchSubmit(r) PROVE ChannelFits'
  <2>1. results[r] = <<>>
    <3>1. flight[r] = <<>>
      BY <1>2 DEF BatchSubmit, FlushIsOwn
    <3> QED
      BY <3>1 DEF FlushIsOwn, TypeOK
  <2>2. UNCHANGED <<respCh, results>> /\ \A o \in Requests : o # r => flight'[o] = flight[o]
    BY <1>2 DEF BatchSubmit, TypeOK
  <2> QED
    BY <2>1, <2>2 DEF ChannelFits
<1>3. ASSUME NEW o \in Requests, TimerFires(o) PROVE ChannelFits'
  BY <1>3 DEF TimerFires, ChannelFits
<1>4. ASSUME NEW o \in Requests, TimerCallback(o) PROVE ChannelFits'
  <2>1. results[o] = <<>>
    BY <1>4 DEF TimerCallback, FlushIsOwn, TypeOK
  <2>2. UNCHANGED <<respCh, results>> /\ \A p \in Requests : p # o => flight'[p] = flight[p]
    BY <1>4 DEF TimerCallback, TypeOK
  <2> QED
    BY <2>1, <2>2 DEF ChannelFits
<1>5. ASSUME NEW o \in Requests, FlushReturns(o) PROVE ChannelFits'
  <2>1. PICK res \in BatchResults(flight[o]) : results' = [results EXCEPT ![o] = res]
    BY <1>5 DEF FlushReturns
  <2>2. Len(res) = Len(flight[o]) /\ \A i \in 1..Len(flight[o]) : res[i] \in {flight[o][i], Error}
    BY <2>1, BatchResultsType DEF TypeOK
  <2>3. \A p \in Requests : results'[p] = IF p = o THEN res ELSE results[p]
    BY <2>1 DEF TypeOK
  <2> QED
    BY <1>5, <2>2, <2>3 DEF FlushReturns, ChannelFits
<1>6. ASSUME NEW o \in Requests, FlushSends(o) PROVE ChannelFits'
  <2> DEFINE h == Head(flight[o])
  <2>1. flight[o] # <<>> /\ results[o] # <<>> /\ Len(flight[o]) = Len(results[o])
    BY <1>6 DEF FlushSends, FlushIsOwn, TypeOK
  <2>2. h \in Requests /\ h = flight[o][1] /\ Head(results[o]) = results[o][1]
    BY <2>1 DEF TypeOK
  <2>3. Head(results[o]) \in {h, Error}
    BY <2>1, <2>2 DEF ChannelFits, TypeOK
  <2>4. /\ Len(Tail(results[o])) = Len(results[o]) - 1 /\ Len(results[o]) \in Nat
        /\ \A i \in 1..Len(Tail(results[o])) :
             /\ i + 1 \in 1..Len(results[o])
             /\ Tail(results[o])[i] = results[o][i+1]
             /\ Tail(flight[o])[i] = flight[o][i+1]
    BY <2>1 DEF TypeOK
  <2>5. \A i \in 1..Len(Tail(results[o])) : Tail(results[o])[i] \in {Tail(flight[o])[i], Error}
    BY <2>4 DEF ChannelFits
  <2>6. /\ \A p \in Requests : flight'[p] = IF p = o THEN Tail(flight[o]) ELSE flight[p]
        /\ \A p \in Requests : results'[p] = IF p = o THEN Tail(results[o]) ELSE results[p]
        /\ \A q \in Requests : respCh'[q] = IF q = h THEN Head(results[o]) ELSE respCh[q]
    BY <1>6, <2>2 DEF FlushSends, TypeOK
  <2> HIDE DEF h
  <2>7. \A q \in Requests : respCh'[q] \in {Empty, Error, q}
    BY <2>3, <2>6 DEF ChannelFits
  <2>8. ASSUME NEW p \in Requests, NEW i \in 1..Len(results'[p])
        PROVE  results'[p][i] \in {flight'[p][i], Error}
    <3>1. CASE p = o
      BY <2>5, <2>6, <2>8, <3>1
    <3>2. CASE p # o
      BY <2>6, <2>8, <3>2 DEF ChannelFits
    <3> QED
      BY <3>1, <3>2
  <2> QED
    BY <2>7, <2>8 DEF ChannelFits
<1>7. ASSUME Restart PROVE ChannelFits'
  BY <1>7 DEF Restart, ChannelFits
<1>8. ASSUME UNCHANGED vars PROVE ChannelFits'
  BY <1>8 DEF vars, ChannelFits
<1> QED
  BY StepCases, <1>1, <1>2, <1>3, <1>4, <1>5, <1>6, <1>7, <1>8 DEF Batcher

(* Each item of a batch is sent the response to its own payload, or an     *)
(* error: relayBatch's answers are matched to items by position, whatever  *)
(* the number of flushes under way.                                        *)
THEOREM ChannelsFit == Spec => []ChannelFits
<1>1. Init => ChannelFits
  BY DEF Init, ChannelFits
<1> QED
  BY <1>1, ChannelFitsStep, BasicAlways, PTL DEF Spec, Basic

-----------------------------------------------------------------------------
LEMMA TwinsFit ==
  ASSUME NEW r \in Requests, NEW s \in Requests, Twins(r, s) PROVE Fits(r, s)
  BY RelayAssumption DEF RelayAssumption, Twins, Shareable, Fits

LEMMA CoalescedIsShareable ==
  ASSUME NoRangedFanOut, NEW r \in Requests, Coalesces(r) PROVE Shareable(r)
  BY RelayAssumption DEF RelayAssumption, NoRangedFanOut, Coalesces, useParallel, Shareable

(* A step that moves one goroutine, and lets it ahead only if shareable.   *)
LEMMA CoalesceFitsQuiet ==
  ASSUME CoalesceFits, UNCHANGED coalesceVars, NEW r \in Requests,
         \A q \in Requests : q # r => pc'[q] = pc[q],
         pc'[r] \in {"chunked", "dispatch", "lead", "leading", "waiting"} => Shareable(r)
  PROVE  CoalesceFits'
  BY DEF CoalesceFits, coalesceVars

LEMMA CoalesceFitsStep ==
  ASSUME NoRangedFanOut, TypeOK, ChannelFits, CoalesceFits, [Next]_vars PROVE CoalesceFits'
<1> USE RelayAssumption DEF RelayAssumption
<1>1. ASSUME NEW r \in Requests, RelayRequest(r) PROVE CoalesceFits'
  <2>1. pc'[r] \in {"chunked", "dispatch"} => Shareable(r)
    BY <1>1, CoalescedIsShareable DEF RelayRequest, Goto, TypeOK, Shareable
  <2>2. pc'[r] \in {"single", "chunked", "dispatch", "submit"}
    BY <1>1 DEF RelayRequest, Goto, TypeOK
  <2> QED
    BY <1>1, <2>1, <2>2, CoalesceFitsQuiet DEF RelayRequest, Goto, TypeOK
<1>2. ASSUME NEW r \in Requests, SingleReturns(r) \/ ParallelReturns(r) PROVE CoalesceFits'
  BY <1>2, CoalesceFitsQuiet DEF SingleReturns, ParallelReturns, Return, Goto, TypeOK
<1>3. ASSUME NEW r \in Requests, ChunkedReturns(r) PROVE CoalesceFits'
  <2>1. Shareable(r)
    BY <1>3 DEF ChunkedReturns, CoalesceFits
  <2> QED
    BY <1>3, <2>1, CoalesceFitsQuiet DEF ChunkedReturns, Return, Goto, TypeOK
<1>4. ASSUME NEW r \in Requests, TryCoalesce(r) PROVE CoalesceFits'
  <2> DEFINE k == coalesceKey[r]
  <2>1. k \in Keys /\ Shareable(r)
    BY <1>4 DEF TryCoalesce, CoalesceFits
  <2>2. \A q \in Requests : q # r => pc'[q] = pc[q]
    BY <1>4 DEF TryCoalesce, Goto, TypeOK
  <2>3. \A j \in Keys : Items(waiters'[j]) \subseteq
                          IF j = k THEN Items(waiters[k]) \cup {r} ELSE Items(waiters[j])
    <3>1. CASE waiters' = [waiters EXCEPT ![k] = Append(waiters[k], r)]
      BY <2>1, <3>1, ItemsAppend DEF TypeOK
    <3>2. CASE waiters' = [waiters EXCEPT ![k] = <<>>]
      BY <2>1, <3>2, ItemsEmpty DEF TypeOK
    <3> QED
      BY <1>4, <3>1, <3>2 DEF TryCoalesce
  <2>4. UNCHANGED <<waiterCh, deliver>>
    BY <1>4 DEF TryCoalesce
  <2> HIDE DEF k
  <2> QED
    BY <2>1, <2>2, <2>3, <2>4 DEF CoalesceFits, k
<1>5. ASSUME NEW r \in Requests, WaiterReceives(r) \/ WaiterTimesOut(r) \/ BatchedReceives(r)
      PROVE  CoalesceFits'
  BY <1>5, CoalesceFitsQuiet DEF WaiterReceives, WaiterTimesOut, BatchedReceives, Return, Goto, TypeOK
<1>6. ASSUME NEW r \in Requests, LeaderTakesWaiters(r) PROVE CoalesceFits'
  <2> DEFINE k == coalesceKey[r]
  <2>1. k \in Keys /\ Shareable(r)
    BY <1>6 DEF LeaderTakesWaiters, CoalesceFits
  <2>2. /\ \A q \in Requests : q # r => pc'[q] = pc[q]
        /\ pc'[r] = "delivering" /\ waiterCh' = waiterCh
    BY <1>6 DEF LeaderTakesWaiters, Goto, TypeOK
  <2>3. \A j \in Keys : Items(waiters'[j]) \subseteq Items(waiters[j])
    BY <1>6, <2>1, ItemsEmpty DEF LeaderTakesWaiters, TypeOK
  <2>4. \A q \in Requests : deliver'[q] = IF q = r THEN waiters[k] ELSE deliver[q]
    BY <1>6 DEF LeaderTakesWaiters, TypeOK
  <2>5. \A w \in Items(waiters[k]) : Twins(w, r)
    BY <2>1 DEF CoalesceFits, Twins
  <2> HIDE DEF k
  <2> QED
    BY <2>2, <2>3, <2>4, <2>5, SMTT(30) DEF CoalesceFits
<1>7. ASSUME NEW r \in Requests, LeaderDelivers(r) PROVE CoalesceFits'
  <2>1. CASE deliver[r] # <<>>
    <3> DEFINE w == Head(deliver[r])
    <3>1. w \in Requests /\ w \in Items(deliver[r]) /\ Items(Tail(deliver[r])) \subseteq Items(deliver[r])
      BY <2>1, ItemsTail DEF TypeOK
    <3>2. respCh[r] # Empty => Fits(w, respCh[r])
      BY <3>1, TwinsFit DEF ChannelFits, CoalesceFits, Fits
    <3>3. /\ UNCHANGED <<pc, waiters>>
          /\ \A q \in Requests : waiterCh'[q] = IF q = w THEN respCh[r] ELSE waiterCh[q]
          /\ \A q \in Requests : deliver'[q] = IF q = r THEN Tail(deliver[r]) ELSE deliver[q]
      BY <1>7, <2>1, <3>1 DEF LeaderDelivers, TypeOK
    <3> HIDE DEF w
    <3> QED
      BY <3>1, <3>2, <3>3 DEF CoalesceFits
  <2>2. CASE deliver[r] = <<>>
    BY <1>7, <2>2, CoalesceFitsQuiet DEF LeaderDelivers, Return, Goto, TypeOK, coalesceVars
  <2> QED
    BY <2>1, <2>2
<1>8. ASSUME NEW r \in Requests, BatchSubmit(r) PROVE CoalesceFits'
  <2>1. pc[r] = "lead" => Shareable(r)
    BY DEF CoalesceFits
  <2>2. \A q \in Requests : q # r => pc'[q] = pc[q]
    BY <1>8 DEF BatchSubmit, Goto, TypeOK
  <2>3. pc'[r] = IF pc[r] = "lead" THEN "leading" ELSE "batched"
    BY <1>8 DEF BatchSubmit, Goto, TypeOK
  <2> QED
    BY <1>8, <2>1, <2>2, <2>3, CoalesceFitsQuiet DEF BatchSubmit
<1>9. ASSUME NEW o \in Requests, Batcher(o) PROVE CoalesceFits'
  BY <1>9 DEF Batcher, TimerFires, TimerCallback, FlushReturns, FlushSends, coalesceVars, CoalesceFits
<1>10. ASSUME Restart PROVE CoalesceFits'
  BY <1>10 DEF Restart, coalesceVars, CoalesceFits
<1>11. ASSUME UNCHANGED vars PROVE CoalesceFits'
  BY <1>11 DEF vars, CoalesceFits
<1> QED
  BY StepCases, <1>1, <1>2, <1>3, <1>4, <1>5, <1>6, <1>7, <1>8, <1>9, <1>10, <1>11 DEF Quiet

LEMMA AnswerFitsStep ==
  ASSUME TypeOK, ChannelFits, CoalesceFits, AnswerFits, [Next]_vars PROVE AnswerFits'
<1>1. ASSUME NEW r \in Requests, NEW x, Return(r, x), x # Empty => Fits(r, x) PROVE AnswerFits'
  <2>1. \A q \in Requests : answer'[q] = IF q = r THEN x ELSE answer[q]
    BY <1>1 DEF Return, TypeOK
  <2> QED
    BY <1>1, <2>1 DEF AnswerFits
<1>2. ASSUME UNCHANGED answer PROVE AnswerFits'
  BY <1>2 DEF AnswerFits
<1>3. ASSUME NEW r \in Requests, SingleReturns(r) \/ ChunkedReturns(r) \/ ParallelReturns(r)
      PROVE  AnswerFits'
  BY <1>1, <1>2, <1>3 DEF SingleReturns, ChunkedReturns, ParallelReturns, Fits
<1>4. ASSUME NEW r \in Requests, WaiterReceives(r) PROVE AnswerFits'
  BY <1>1, <1>4 DEF WaiterReceives, CoalesceFits
<1>5. ASSUME NEW r \in Requests, LeaderDelivers(r) \/ BatchedReceives(r) PROVE AnswerFits'
  BY <1>1, <1>2, <1>5 DEF LeaderDelivers, BatchedReceives, ChannelFits, Fits
<1>6. ASSUME NEW r \in Requests, \/ RelayRequest(r) \/ TryCoalesce(r) \/ WaiterTimesOut(r)
                                 \/ LeaderTakesWaiters(r) \/ BatchSubmit(r) \/ Batcher(r)
      PROVE  AnswerFits'
  BY <1>2, <1>6 DEF RelayRequest, TryCoalesce, WaiterTimesOut, LeaderTakesWaiters, BatchSubmit,
     Batcher, TimerFires, TimerCallback, FlushReturns, FlushSends
<1>7. ASSUME Restart \/ UNCHANGED vars PROVE AnswerFits'
  BY <1>2, <1>7 DEF Restart, vars
<1> QED
  BY StepCases, <1>3, <1>4, <1>5, <1>6, <1>7 DEF Quiet

(* Every request is answered with the response to its own payload, to an   *)
(* identical one, or with an error, as long as no ranged request takes the *)
(* fan-out path of relayRequest, which coalesces without a look at Range.  *)
THEOREM AnswersFit == NoRangedFanOut /\ Spec => []AnswerFits
<1>1. Init => CoalesceFits /\ AnswerFits
  BY ItemsEmpty DEF Init, CoalesceFits, AnswerFits
<1>2. NoRangedFanOut /\ TypeOK /\ ChannelFits /\ CoalesceFits /\ AnswerFits /\ [Next]_vars
      => CoalesceFits' /\ AnswerFits'
  BY CoalesceFitsStep, AnswerFitsStep
<1>3. NoRangedFanOut => NoRangedFanOut'
  BY DEF NoRangedFanOut
<1> QED
  BY <1>1, <1>2, <1>3, ChannelsFit, BasicAlways, PTL DEF Spec, Basic

-----------------------------------------------------------------------------
(* tryCoalesce: leaders and waiters.                                       *)

(* A leader delivers the response it has received, not the nil of an empty *)
(* channel.                                                                *)
DeliversResponse == \A r \in Requests : pc[r] = "delivering" => respCh[r] # Empty

CoalesceInv == CoalesceSound /\ DeliversResponse

(* A step of a goroutine that neither leads nor waits afterwards unless it *)
(* did before, and leaves the lists alone. *)
LEMMA CoalesceQuiet ==
  ASSUME CoalesceInv, UNCHANGED <<coalesceVars, respCh>>, NEW r \in Requests,
         \A q \in Requests : q # r => pc'[q] = pc[q],
         Leads(r) <=> Leads(r)', pc'[r] \notin {"waiting", "delivering"},
         pc[r] = "delivering" => deliver[r] = <<>>
  PROVE  CoalesceInv'
<1> USE DEF CoalesceInv, CoalesceSound, coalesceVars
<1>1. OneLeaderPerKey'
  BY DEF OneLeaderPerKey, Leads
<1>2. WaiterIsKnown'
  BY ItemsEmpty DEF WaiterIsKnown
<1>3. DeliversResponse'
  BY DEF DeliversResponse
<1> QED
  BY <1>1, <1>2, <1>3

LEMMA CoalesceJoins ==
  ASSUME TypeOK, CoalesceInv, NEW r \in Requests, TryCoalesce(r) PROVE CoalesceInv'
<1> USE RelayAssumption DEF RelayAssumption, CoalesceInv, CoalesceSound
<1> DEFINE k == coalesceKey[r]
<1>1. /\ k \in Keys /\ pc[r] = "dispatch" /\ UNCHANGED <<waiterCh, deliver, respCh>>
      /\ \A q \in Requests : q # r => pc'[q] = pc[q]
  BY DEF TryCoalesce, Goto, TypeOK
<1>2. CASE k \in coalescing
  <2>1. /\ pc'[r] = "waiting" /\ coalescing' = coalescing
        /\ \A j \in Keys : waiters'[j] = IF j = k THEN Append(waiters[k], r) ELSE waiters[j]
    BY <1>1, <1>2 DEF TryCoalesce, Goto, TypeOK
  <2>2. Items(Append(waiters[k], r)) = Items(waiters[k]) \cup {r}
    BY <1>1, ItemsAppend DEF TypeOK
  <2>3. OneLeaderPerKey'
    BY <1>1, <2>1 DEF OneLeaderPerKey, Leads
  <2>4. WaiterIsKnown'
    BY <1>1, <1>2, <2>1, <2>2 DEF WaiterIsKnown
  <2>5. DeliversResponse'
    BY <1>1, <2>1 DEF DeliversResponse
  <2> QED
    BY <2>3, <2>4, <2>5
<1>3. CASE k \notin coalescing
  <2>1. /\ pc'[r] = "lead" /\ coalescing' = coalescing \cup {k}
        /\ \A j \in Keys : waiters'[j] = IF j = k THEN <<>> ELSE waiters[j]
    BY <1>1, <1>3 DEF TryCoalesce, Goto, TypeOK
  <2>2. OneLeaderPerKey'
    BY <1>1, <1>3, <2>1 DEF OneLeaderPerKey, Leads
  <2>3. WaiterIsKnown'
    BY <1>1, <1>3, <2>1 DEF WaiterIsKnown
  <2>4. DeliversResponse'
    BY <1>1, <2>1 DEF DeliversResponse
  <2> QED
    BY <2>2, <2>3, <2>4
<1> QED
  BY <1>2, <1>3

LEMMA CoalesceTakes ==
  ASSUME TypeOK, CoalesceInv, NEW r \in Requests, LeaderTakesWaiters(r) PROVE CoalesceInv'
<1> USE RelayAssumption DEF RelayAssumption, CoalesceInv, CoalesceSound
<1> DEFINE k == coalesceKey[r]
<1>1. /\ k \in Keys /\ pc[r] = "leading" /\ pc'[r] = "delivering" /\ respCh[r] # Empty
      /\ UNCHANGED <<waiterCh, respCh>> /\ coalescing' = coalescing \ {k}
      /\ \A q \in Requests : q # r => pc'[q] = pc[q]
      /\ \A q \in Requests : deliver'[q] = IF q = r THEN waiters[k] ELSE deliver[q]
      /\ \A j \in Keys : j # k => waiters'[j] = waiters[j]
  BY DEF LeaderTakesWaiters, Goto, TypeOK
<1>2. OneLeaderPerKey'
  BY <1>1 DEF OneLeaderPerKey, Leads
<1>3. WaiterIsKnown'
  BY <1>1 DEF WaiterIsKnown
<1>4. DeliversResponse'
  BY <1>1 DEF DeliversResponse
<1> QED
  BY <1>2, <1>3, <1>4

LEMMA CoalesceDelivers ==
  ASSUME TypeOK, CoalesceInv, NEW r \in Requests, LeaderDelivers(r) PROVE CoalesceInv'
<1>1. CASE deliver[r] # <<>>
  <2> DEFINE w == Head(deliver[r])
  <2>1. w \in Requests /\ Items(deliver[r]) = Items(Tail(deliver[r])) \cup {w}
    BY <1>1, ItemsTail, SMTT(30) DEF TypeOK
  <2>2. respCh[r] # Empty
    BY DEF LeaderDelivers, CoalesceInv, DeliversResponse
  <2>3. /\ UNCHANGED <<pc, waiters, coalescing, respCh>>
        /\ \A q \in Requests : waiterCh'[q] = IF q = w THEN respCh[r] ELSE waiterCh[q]
        /\ \A q \in Requests : deliver'[q] = IF q = r THEN Tail(deliver[r]) ELSE deliver[q]
    BY <1>1, <2>1 DEF LeaderDelivers, TypeOK
  <2> HIDE DEF w
  <2>4. OneLeaderPerKey' /\ DeliversResponse'
    BY <2>3 DEF CoalesceInv, CoalesceSound, OneLeaderPerKey, DeliversResponse, Leads
  <2>5. WaiterIsKnown'
    BY <2>1, <2>2, <2>3 DEF CoalesceInv, CoalesceSound, WaiterIsKnown
  <2> QED
    BY <2>4, <2>5 DEF CoalesceInv, CoalesceSound
<1>2. CASE deliver[r] = <<>>
  <2>1. /\ UNCHANGED <<coalesceVars, respCh>> /\ pc[r] = "delivering" /\ pc'[r] = "done"
        /\ \A q \in Requests : q # r => pc'[q] = pc[q]
    BY <1>2 DEF LeaderDelivers, Return, Goto, TypeOK, coalesceVars
  <2> QED
    BY <1>2, <2>1, CoalesceQuiet DEF Leads
<1> QED
  BY <1>1, <1>2

LEMMA CoalesceStep ==
  ASSUME TypeOK, FlushIsOwn, CoalesceInv, [Next]_vars PROVE CoalesceInv'
<1>1. ASSUME NEW r \in Requests, RelayRequest(r) \/ SingleReturns(r) \/ ChunkedReturns(r)
                                \/ ParallelReturns(r)
      PROVE  CoalesceInv'
  <2>1. /\ UNCHANGED <<coalesceVars, respCh>> /\ pc[r] \in {"new", "single", "chunked", "parallel"}
        /\ pc'[r] \in {"single", "chunked", "dispatch", "submit", "done"}
        /\ \A q \in Requests : q # r => pc'[q] = pc[q]
    BY <1>1 DEF RelayRequest, SingleReturns, ChunkedReturns, ParallelReturns, Return, Goto, TypeOK
  <2> QED
    BY <2>1, CoalesceQuiet DEF Leads
<1>2. ASSUME NEW r \in Requests, WaiterReceives(r) \/ WaiterTimesOut(r) \/ BatchedReceives(r)
      PROVE  CoalesceInv'
  <2>1. /\ UNCHANGED <<coalesceVars, respCh>> /\ pc[r] \in {"waiting", "batched"}
        /\ pc'[r] \in {"parallel", "submit", "done"}
        /\ \A q \in Requests : q # r => pc'[q] = pc[q]
    BY <1>2 DEF WaiterReceives, WaiterTimesOut, BatchedReceives, Return, Goto, TypeOK
  <2> QED
    BY <2>1, CoalesceQuiet DEF Leads
<1>3. ASSUME NEW r \in Requests, BatchSubmit(r) PROVE CoalesceInv'
  <2>1. /\ UNCHANGED <<coalesceVars, respCh>> /\ pc[r] \in {"lead", "submit"}
        /\ pc'[r] = IF pc[r] = "lead" THEN "leading" ELSE "batched"
        /\ \A q \in Requests : q # r => pc'[q] = pc[q]
    BY <1>3 DEF BatchSubmit, Goto, TypeOK
  <2> QED
    BY <2>1, CoalesceQuiet DEF Leads
<1>4. ASSUME NEW r \in Requests, TryCoalesce(r) \/ LeaderTakesWaiters(r) \/ LeaderDelivers(r)
      PROVE  CoalesceInv'
  BY <1>4, CoalesceJoins, CoalesceTakes, CoalesceDelivers
<1>5. CASE UNCHANGED <<pc, coalesceVars>> /\ \A q \in Requests : respCh[q] # Empty => respCh'[q] # Empty
  BY <1>5 DEF CoalesceInv, CoalesceSound, OneLeaderPerKey, WaiterIsKnown, DeliversResponse, Leads,
              coalesceVars
<1>6. ASSUME NEW o \in Requests, FlushSends(o) PROVE CoalesceInv'
  <2>1. Head(flight[o]) \in Requests /\ Head(results[o]) \in Responses
    BY <1>6 DEF FlushSends, FlushIsOwn, TypeOK
  <2>2. \A q \in Requests : respCh[q] # Empty => respCh'[q] # Empty
    BY <1>6, <2>1, RelayAssumption DEF FlushSends, TypeOK, Responses, RelayAssumption
  <2> QED
    BY <1>5, <1>6, <2>2 DEF FlushSends
<1>7. ASSUME NEW o \in Requests, TimerFires(o) \/ TimerCallback(o) \/ FlushReturns(o)
      PROVE  CoalesceInv'
  BY <1>5, <1>7 DEF TimerFires, TimerCallback, FlushReturns
<1>8. CASE Restart \/ UNCHANGED vars
  BY <1>5, <1>8 DEF Restart, vars, coalesceVars
<1> QED
  BY StepCases, <1>1, <1>2, <1>3, <1>4, <1>6, <1>7, <1>8 DEF Quiet, Batcher

LEMMA CoalesceAlways == Spec => []CoalesceInv
<1>1. Init => CoalesceInv
  BY DEF Init, CoalesceInv, CoalesceSound, OneLeaderPerKey, WaiterIsKnown, DeliversResponse, Leads
<1> QED
  BY <1>1, CoalesceStep, BasicAlways, PTL DEF Spec, Basic

(* For any number of requests and keys one request at a time leads for a   *)
(* key of r.coalesce, and a waiter without a response is on a list that a  *)
(* leader serves, whatever timeouts and restarts come between              *)
(* (tryCoalesce, gas_relay.go:1068-1097).                                  *)
THEOREM CoalescingSound == Spec => []CoalesceSound
  BY CoalesceAlways, PTL DEF CoalesceInv

-----------------------------------------------------------------------------
(* The request path implements the relay's promise, as to safety.          *)

(* A goroutine that has not returned has not answered.                     *)
AnswerIsLast ==
  \A r \in Requests : pc[r] # "done" => answer[r] = Empty

(* A request that returns a proper answer is a step of the promise. *)
LEMMA ReturnIsAnswer ==
  ASSUME TypeOK, AnswerIsLast, NEW r \in Requests, NEW x \in Responses, Fits(r, x), Return(r, x),
         pc[r] \notin {"new", "done"}
  PROVE  Promise!Answer(r)
<1>1. \A q \in Requests : pc'[q] = IF q = r THEN "done" ELSE pc[q]
  BY DEF Return, Goto, TypeOK
<1>2. Asked' = Asked /\ r \in Asked
  BY <1>1 DEF Asked
<1>3. x \in ProperAnswers[r]
  BY DEF ProperAnswers
<1>4. answer' = [answer EXCEPT ![r] = x]
  BY DEF Return
<1>5. answer[r] = Empty
  BY DEF AnswerIsLast
<1> QED
  BY <1>2, <1>3, <1>4, <1>5 DEF Promise!Answer

(* Every step of the relay is the request being asked, being answered, or  *)
(* one the caller does not see. *)
LEMMA StepIsPromised ==
  ASSUME TypeOK, ChannelFits, CoalesceFits, CoalesceInv, AnswerIsLast, [Next]_vars
  PROVE  [Promise!Next]_Promise!vars /\ AnswerIsLast'
<1> USE RelayAssumption DEF RelayAssumption
<1>1. ASSUME NEW r \in Requests, NEW x \in Responses, Return(r, x), Fits(r, x),
             pc[r] \notin {"new", "done"}
      PROVE  [Promise!Next]_Promise!vars /\ AnswerIsLast'
  <2>1. Promise!Next
    BY <1>1, ReturnIsAnswer DEF Promise!Next
  <2>2. AnswerIsLast'
    BY <1>1 DEF AnswerIsLast, Return, Goto, TypeOK
  <2> QED
    BY <2>1, <2>2
<1>2. ASSUME UNCHANGED answer, \A q \in Requests : pc[q] = pc'[q] \/ {pc[q], pc'[q]} \cap {"new", "done"} = {}
      PROVE  [Promise!Next]_Promise!vars /\ AnswerIsLast'
  <2>1. UNCHANGED Promise!vars
    BY <1>2 DEF Promise!vars, Asked
  <2>2. AnswerIsLast'
    BY <1>2 DEF AnswerIsLast
  <2> QED
    BY <2>1, <2>2
<1>3. ASSUME NEW r \in Requests, RelayRequest(r) PROVE [Promise!Next]_Promise!vars /\ AnswerIsLast'
  <2>1. /\ \A q \in Requests : q # r => pc'[q] = pc[q]
        /\ pc[r] = "new" /\ pc'[r] \notin {"new", "done"} /\ answer' = answer
    BY <1>3 DEF RelayRequest, Goto, TypeOK
  <2>2. r \notin Asked /\ Asked' = Asked \cup {r}
    BY <2>1 DEF Asked
  <2>3. Promise!Next
    BY <2>1, <2>2 DEF Promise!Next, Promise!Ask
  <2>4. AnswerIsLast'
    BY <2>1 DEF AnswerIsLast
  <2> QED
    BY <2>3, <2>4
<1>4. ASSUME NEW r \in Requests, SingleReturns(r) \/ ChunkedReturns(r) \/ ParallelReturns(r)
      PROVE  [Promise!Next]_Promise!vars /\ AnswerIsLast'
  <2>1. pc[r] \in {"single", "chunked", "parallel"}
    BY <1>4 DEF SingleReturns, ChunkedReturns, ParallelReturns
  <2>2. \/ \E x \in {r, Error} : Return(r, x)
        \/ UNCHANGED answer /\ \E label \in {"dispatch", "submit"} : Goto(r, label)
    BY <1>4 DEF SingleReturns, ChunkedReturns, ParallelReturns
  <2>3. CASE \E x \in {r, Error} : Return(r, x)
    BY <1>1, <2>1, <2>3 DEF Responses, Fits
  <2>4. CASE UNCHANGED answer /\ \E label \in {"dispatch", "submit"} : Goto(r, label)
    BY <1>2, <2>1, <2>4 DEF Goto, TypeOK
  <2> QED
    BY <2>2, <2>3, <2>4
<1>5. ASSUME NEW r \in Requests, WaiterReceives(r) PROVE [Promise!Next]_Promise!vars /\ AnswerIsLast'
  <2>1. waiterCh[r] \in Responses /\ Fits(r, waiterCh[r])
    BY <1>5 DEF WaiterReceives, CoalesceFits, TypeOK
  <2> QED
    BY <1>1, <1>5, <2>1 DEF WaiterReceives
<1>6. ASSUME NEW r \in Requests, BatchedReceives(r) PROVE [Promise!Next]_Promise!vars /\ AnswerIsLast'
  <2>1. respCh[r] \in Responses /\ Fits(r, respCh[r])
    BY <1>6 DEF BatchedReceives, ChannelFits, Responses, Fits
  <2> QED
    BY <1>1, <1>6, <2>1 DEF BatchedReceives
<1>7. ASSUME NEW r \in Requests, LeaderDelivers(r) PROVE [Promise!Next]_Promise!vars /\ AnswerIsLast'
  <2>1. CASE deliver[r] # <<>>
    BY <1>2, <1>7, <2>1 DEF LeaderDelivers
  <2>2. CASE deliver[r] = <<>>
    <3>1. respCh[r] \in Responses /\ Fits(r, respCh[r])
      BY <1>7 DEF LeaderDelivers, CoalesceInv, DeliversResponse, ChannelFits, Responses, Fits
    <3> QED
      BY <1>1, <1>7, <2>2, <3>1 DEF LeaderDelivers
  <2> QED
    BY <2>1, <2>2
<1>8. ASSUME NEW r \in Requests, TryCoalesce(r) \/ WaiterTimesOut(r) \/ LeaderTakesWaiters(r)
                                \/ BatchSubmit(r)
      PROVE  [Promise!Next]_Promise!vars /\ AnswerIsLast'
  <2>1. /\ UNCHANGED answer /\ pc[r] \notin {"new", "done"} /\ pc'[r] \notin {"new", "done"}
        /\ \A q \in Requests : q # r => pc'[q] = pc[q]
    BY <1>8, SMTT(30) DEF TryCoalesce, WaiterTimesOut, LeaderTakesWaiters, BatchSubmit, Goto, TypeOK
  <2> QED
    BY <1>2, <2>1
<1>9. ASSUME UNCHANGED <<pc, answer>> PROVE [Promise!Next]_Promise!vars /\ AnswerIsLast'
  BY <1>2, <1>9
<1>10. ASSUME NEW o \in Requests, Batcher(o) PROVE UNCHANGED <<pc, answer>>
  BY <1>10 DEF Batcher, TimerFires, TimerCallback, FlushReturns, FlushSends
<1>11. ASSUME Restart \/ UNCHANGED vars PROVE UNCHANGED <<pc, answer>>
  BY <1>11 DEF Restart, vars
<1> QED
  BY StepCases, <1>3, <1>4, <1>5, <1>6, <1>7, <1>8, <1>9, <1>10, <1>11 DEF Quiet

(* Refinement: with any number of requests, keys and restarts the relay's  *)
(* coalescing, batching and fan-out do nothing a caller of relayRequest    *)
(* could tell from being answered at most once, with a proper answer, if   *)
(* no ranged request takes the fan-out path (gas_relay.go:558-715).        *)
THEOREM RelayImplementsPromise == NoRangedFanOut /\ Spec => Promise!Spec
<1>1. Init => Promise!Init /\ CoalesceFits /\ AnswerIsLast
  BY ItemsEmpty DEF Init, Promise!Init, Asked, CoalesceFits, AnswerIsLast
<1>2. NoRangedFanOut /\ TypeOK /\ ChannelFits /\ CoalesceFits /\ [Next]_vars => CoalesceFits'
  BY CoalesceFitsStep
<1>3. TypeOK /\ ChannelFits /\ CoalesceFits /\ CoalesceInv /\ AnswerIsLast /\ [Next]_vars
      => [Promise!Next]_Promise!vars /\ AnswerIsLast'
  BY StepIsPromised
<1>4. NoRangedFanOut => NoRangedFanOut'
  BY DEF NoRangedFanOut
<1> QED
  BY <1>1, <1>2, <1>3, <1>4, ChannelsFit, CoalesceAlways, TypeCorrect, PTL DEF Spec, Promise!Spec
=============================================================================
