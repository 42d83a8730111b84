------------------------------ MODULE GasRelay ------------------------------
(***************************************************************************)
(* The request path of the GAS relay engine (proxy/gas_relay.go): one      *)
(* goroutine per proxied request runs relayRequest, which answers it       *)
(*   - by a request of its own (relaySingle) when it is stateful,          *)
(*   - in parallel chunks (relayChunked) when it is a large download,      *)
(*   - by joining an identical request in flight (tryCoalesce),            *)
(*   - by a fan-out over the scripts (relaySingleParallel), or             *)
(*   - through the batcher (batchSubmit, its timer, flushBatch).           *)
(* restart(), called by the heartbeat and by the fail-over loop, throws    *)
(* the pending batch away.                                                 *)
(*                                                                         *)
(* A response is named by the request whose payload it answers; Error      *)
(* stands for every generated 502.  A critical section of batchMu or       *)
(* coalesceMu is one action.  The transport under relaySingle, relayBatch  *)
(* and relayHTTP1 is abstracted to "it returns an answer or an error".     *)
(***************************************************************************)
EXTENDS Naturals, Sequences, FiniteSets

CONSTANTS Requests,     \* the calls of relayRequest
          Keys,         \* the values coalesceKey can return
          kind,         \* what relayRequest tells apart about a request
          coalesceKey,  \* URL and negotiation headers of a request
          range,        \* its Range header (NoRange: it has none)
          NoRange,
          MultiScript,  \* len(r.scriptIDs) > 1
          BatchMax,     \* gasBatchMax
          MaxRestarts,  \* bound: how often restart() runs
          Error, Empty, NoTimer

(* "head": HEAD of a static asset; "get": GET of one, without Range;       *)
(* "ranged": GET with Range; "large": a "get" gasIsLargeFileExt accepts;   *)
(* "stateful": isStatefulRequest holds (a body makes a request stateful,   *)
(* so the large-body branch of relayRequest is never reached).             *)
Kinds == {"stateful", "head", "get", "ranged", "large"}

ASSUME RelayAssumption ==
  /\ kind \in [Requests -> Kinds]
  /\ coalesceKey \in [Requests -> Keys]
  /\ \A r \in Requests : kind[r] # "ranged" => range[r] = NoRange
  /\ MultiScript \in BOOLEAN
  /\ BatchMax \in Nat \ {0}
  /\ MaxRestarts \in Nat
  /\ Error \notin Requests
  /\ Empty \notin Requests \cup {Error}
  /\ NoTimer \notin Requests

VARIABLES
  pc,         \* where each request's goroutine is
  coalescing, \* the keys present in r.coalesce
  waiters,    \* r.coalesce[k]: the requests that wait for the key's answer
  waiterCh,   \* the channel of a waiter
  deliver,    \* the waiters a leader has still to send the response to
  pending,    \* r.batchPending
  batchTimer, \* r.batchTimer: named by the request that armed it
  timer,      \* the state of the timer each request may arm
  flight,     \* items still to be answered by the flushBatch a request or timer began
  results,    \* their responses, once relaySingle/relayBatch returned
  respCh,     \* the channel of a batch item
  answer,     \* what relayRequest returned
  restarts

batchVars == <<pending, batchTimer, timer, flight, results>>
coalesceVars == <<coalescing, waiters, waiterCh, deliver>>
vars == <<pc, coalescing, waiters, waiterCh, deliver, pending, batchTimer,
          timer, flight, results, respCh, answer, restarts>>

Responses == Requests \cup {Error}
PCs == {"new", "single", "chunked", "dispatch", "lead", "leading", "delivering",
        "waiting", "parallel", "submit", "batched", "done"}
TimerStates == {"unset", "armed", "fired", "gone"}

(* The relay's maps, its pending batch and the channels have their types:  *)
(* a channel holds an answer of the right kind or nothing.                 *)
TypeOK ==
  /\ pc \in [Requests -> PCs]
  /\ coalescing \in SUBSET Keys
  /\ waiters \in [Keys -> Seq(Requests)]
  /\ waiterCh \in [Requests -> Responses \cup {Empty}]
  /\ deliver \in [Requests -> Seq(Requests)]
  /\ pending \in Seq(Requests)
  /\ batchTimer \in Requests \cup {NoTimer}
  /\ timer \in [Requests -> TimerStates]
  /\ flight \in [Requests -> Seq(Requests)]
  /\ results \in [Requests -> Seq(Responses)]
  /\ respCh \in [Requests -> Responses \cup {Empty}]
  /\ answer \in [Requests -> Responses \cup {Empty}]
  /\ restarts \in 0..MaxRestarts

Init ==
  /\ pc = [r \in Requests |-> "new"]
  /\ coalescing = {}
  /\ waiters = [k \in Keys |-> <<>>]
  /\ waiterCh = [r \in Requests |-> Empty]
  /\ deliver = [r \in Requests |-> <<>>]
  /\ pending = <<>>
  /\ batchTimer = NoTimer
  /\ timer = [r \in Requests |-> "unset"]
  /\ flight = [r \in Requests |-> <<>>]
  /\ results = [r \in Requests |-> <<>>]
  /\ respCh = [r \in Requests |-> Empty]
  /\ answer = [r \in Requests |-> Empty]
  /\ restarts = 0

Goto(r, label) == pc' = [pc EXCEPT ![r] = label]

Return(r, response) ==
  /\ Goto(r, "done")
  /\ answer' = [answer EXCEPT ![r] = response]

-----------------------------------------------------------------------------
(* relayRequest: which path a request takes.                               *)

(* GET without body, parallelNum > 1 and more than one script.             *)
useParallel(r) == kind[r] \in {"get", "ranged", "large"} /\ MultiScript

(* The single-script path asks for a GET without Range; the fan-out path   *)
(* calls tryCoalesce for every GET.                                        *)
Coalesces(r) == useParallel(r) \/ kind[r] \in {"get", "large"}

RelayRequest(r) ==
  /\ pc[r] = "new"
  /\ \/ kind[r] = "stateful" /\ Goto(r, "single")
     \/ kind[r] = "large" /\ MultiScript /\ Goto(r, "chunked")
     \/ /\ kind[r] # "stateful" /\ ~(kind[r] = "large" /\ MultiScript)
        /\ Goto(r, IF Coalesces(r) THEN "dispatch" ELSE "submit")
  /\ UNCHANGED <<coalesceVars, batchVars, respCh, answer, restarts>>

SingleReturns(r) ==
  /\ pc[r] = "single"
  /\ \E response \in {r, Error} : Return(r, response)
  /\ UNCHANGED <<coalesceVars, batchVars, respCh, restarts>>

(* relayChunked returns the assembled file, or nil when the HEAD or one    *)
(* of the chunks failed or the file is small: then the request goes on.    *)
ChunkedReturns(r) ==
  /\ pc[r] = "chunked"
  /\ \/ Return(r, r)
     \/ Goto(r, "dispatch") /\ UNCHANGED answer
  /\ UNCHANGED <<coalesceVars, batchVars, respCh, restarts>>

(* relaySingleParallel: the first success, else the batch.                 *)
ParallelReturns(r) ==
  /\ pc[r] = "parallel"
  /\ \/ \E response \in {r, Error} : Return(r, response)
     \/ Goto(r, "submit") /\ UNCHANGED answer
  /\ UNCHANGED <<coalesceVars, batchVars, respCh, restarts>>

-----------------------------------------------------------------------------
(* tryCoalesce.                                                            *)

(* Mutant: the extended waiter list is not stored back into the map.       *)
TryCoalesceForgetsWaiter(r) ==
  LET k == coalesceKey[r] IN
  /\ pc[r] = "dispatch"
  /\ coalescing' = coalescing \cup {k}
  /\ Goto(r, IF k \in coalescing THEN "waiting" ELSE "lead")
  /\ UNCHANGED <<waiters, waiterCh, deliver, batchVars, respCh, answer, restarts>>

TryCoalesce(r) ==
  LET k == coalesceKey[r] IN
  /\ pc[r] = "dispatch"
  /\ \/ /\ k \in coalescing
        /\ waiters' = [waiters EXCEPT ![k] = Append(@, r)]
        /\ Goto(r, "waiting")
        /\ UNCHANGED coalescing
     \/ /\ k \notin coalescing
        /\ coalescing' = coalescing \cup {k}
        /\ waiters' = [waiters EXCEPT ![k] = <<>>]
        /\ Goto(r, "lead")
  /\ UNCHANGED <<waiterCh, deliver, batchVars, respCh, answer, restarts>>

WaiterReceives(r) ==
  /\ pc[r] = "waiting"
  /\ waiterCh[r] # Empty
  /\ Return(r, waiterCh[r])
  /\ UNCHANGED <<coalesceVars, batchVars, respCh, restarts>>

(* The 30 s of a waiter run out.  select may also take this branch when    *)
(* the response is already in the channel.                                 *)
WaiterTimesOut(r) ==
  /\ pc[r] = "waiting"
  /\ Goto(r, IF useParallel(r) THEN "parallel" ELSE "submit")
  /\ UNCHANGED <<coalesceVars, batchVars, respCh, answer, restarts>>

(* The leader has its response: it takes the waiters and frees the key.    *)
LeaderTakesWaiters(r) ==
  LET k == coalesceKey[r] IN
  /\ pc[r] = "leading"
  /\ respCh[r] # Empty
  /\ deliver' = [deliver EXCEPT ![r] = waiters[k]]
  /\ waiters' = [waiters EXCEPT ![k] = <<>>]
  /\ coalescing' = coalescing \ {k}
  /\ Goto(r, "delivering")
  /\ UNCHANGED <<waiterCh, batchVars, respCh, answer, restarts>>

LeaderDelivers(r) ==
  /\ pc[r] = "delivering"
  /\ \/ /\ deliver[r] # <<>>
        /\ waiterCh[Head(deliver[r])] = Empty   \* the send blocks on a full channel
        /\ waiterCh' = [waiterCh EXCEPT ![Head(deliver[r])] = respCh[r]]
        /\ deliver' = [deliver EXCEPT ![r] = Tail(@)]
        /\ UNCHANGED <<pc, answer>>
     \/ /\ deliver[r] = <<>>
        /\ Return(r, respCh[r])
        /\ UNCHANGED <<waiterCh, deliver>>
  /\ UNCHANGED <<coalescing, waiters, batchVars, respCh, restarts>>

-----------------------------------------------------------------------------
(* batchSubmit, the batch timer and flushBatch.                            *)

(* Timer.Stop: a timer that has fired is not stopped, its callback runs.   *)
StopBatchTimer ==
  /\ batchTimer' = NoTimer
  /\ timer' = [t \in Requests |->
                 IF t = batchTimer /\ timer[t] = "armed" THEN "gone" ELSE timer[t]]

(* Mutant: the full batch is taken without the item that filled it.        *)
BatchSubmitTakesOldBatch(r) ==
  LET items == Append(pending, r) IN
  /\ pc[r] \in {"lead", "submit"}
  /\ Goto(r, IF pc[r] = "lead" THEN "leading" ELSE "batched")
  /\ \/ /\ Len(items) >= BatchMax
        /\ pending' = <<>>
        /\ StopBatchTimer
        /\ flight' = [flight EXCEPT ![r] = pending]
     \/ /\ Len(items) < BatchMax
        /\ pending' = items
        /\ IF batchTimer = NoTimer
           THEN batchTimer' = r /\ timer' = [timer EXCEPT ![r] = "armed"]
           ELSE UNCHANGED <<batchTimer, timer>>
        /\ UNCHANGED flight
  /\ UNCHANGED <<coalesceVars, results, respCh, answer, restarts>>

BatchSubmit(r) ==
  LET items == Append(pending, r) IN
  /\ pc[r] \in {"lead", "submit"}
  /\ Goto(r, IF pc[r] = "lead" THEN "leading" ELSE "batched")
  /\ \/ /\ Len(items) >= BatchMax
        /\ pending' = <<>>
        /\ StopBatchTimer
        /\ flight' = [flight EXCEPT ![r] = items]
     \/ /\ Len(items) < BatchMax
        /\ pending' = items
        /\ IF batchTimer = NoTimer
           THEN batchTimer' = r /\ timer' = [timer EXCEPT ![r] = "armed"]
           ELSE UNCHANGED <<batchTimer, timer>>
        /\ UNCHANGED flight
  /\ UNCHANGED <<coalesceVars, results, respCh, answer, restarts>>

TimerFires(t) ==
  /\ timer[t] = "armed"
  /\ timer' = [timer EXCEPT ![t] = "fired"]
  /\ UNCHANGED <<pc, coalesceVars, pending, batchTimer, flight, results,
                 respCh, answer, restarts>>

(* Mutant: the callback copies the pending items and does not clear them.  *)
TimerCallbackKeepsPending(t) ==
  /\ timer[t] = "fired"
  /\ timer' = [timer EXCEPT ![t] = "gone"]
  /\ flight' = [flight EXCEPT ![t] = pending]
  /\ batchTimer' = NoTimer
  /\ UNCHANGED <<pending, pc, coalesceVars, results, respCh, answer, restarts>>

(* Mutant: the callback leaves r.batchTimer set.                           *)
TimerCallbackKeepsTimer(t) ==
  /\ timer[t] = "fired"
  /\ timer' = [timer EXCEPT ![t] = "gone"]
  /\ flight' = [flight EXCEPT ![t] = pending]
  /\ pending' = <<>>
  /\ UNCHANGED <<batchTimer, pc, coalesceVars, results, respCh, answer, restarts>>

TimerCallback(t) ==
  /\ timer[t] = "fired"
  /\ timer' = [timer EXCEPT ![t] = "gone"]
  /\ flight' = [flight EXCEPT ![t] = pending]
  /\ pending' = <<>>
  /\ batchTimer' = NoTimer
  /\ UNCHANGED <<pc, coalesceVars, results, respCh, answer, restarts>>

(* Mutant: the answers come back in any order.                             *)
BatchResultsUnordered(items) ==
  {res \in [1..Len(items) -> Responses] :
     \A i \in 1..Len(items) : res[i] \in {items[j] : j \in 1..Len(items)} \cup {Error}}

(* relaySingle for a batch of one, relayBatch otherwise: either every item *)
(* gets the error, or item i gets what the script returned at place i,     *)
(* which may itself be an error.  The script answers with one object per   *)
(* item, as Code.gs does: parseBatchBody checks the number, and would skip *)
(* what is not an object.                                                  *)
BatchResults(items) ==
  {res \in [1..Len(items) -> Responses] :
     \A i \in 1..Len(items) : res[i] \in {items[i], Error}}

FlushReturns(o) ==
  /\ flight[o] # <<>>
  /\ results[o] = <<>>
  /\ \E res \in BatchResults(flight[o]) : results' = [results EXCEPT ![o] = res]
  /\ UNCHANGED <<pc, coalesceVars, pending, batchTimer, timer, flight,
                 respCh, answer, restarts>>

(* item.respCh <- results[i], item after item; the channel holds one.      *)
FlushSends(o) ==
  /\ results[o] # <<>>
  /\ respCh[Head(flight[o])] = Empty
  /\ respCh' = [respCh EXCEPT ![Head(flight[o])] = Head(results[o])]
  /\ flight' = [flight EXCEPT ![o] = Tail(@)]
  /\ results' = [results EXCEPT ![o] = Tail(@)]
  /\ UNCHANGED <<pc, coalesceVars, pending, batchTimer, timer, answer, restarts>>

BatchedReceives(r) ==
  /\ pc[r] = "batched"
  /\ respCh[r] # Empty
  /\ Return(r, respCh[r])
  /\ UNCHANGED <<coalesceVars, batchVars, respCh, restarts>>

(* restart(): batchPending is cleared, nobody answers its items.           *)
Restart ==
  /\ restarts < MaxRestarts
  /\ restarts' = restarts + 1
  /\ pending' = <<>>
  /\ StopBatchTimer
  /\ UNCHANGED <<pc, coalesceVars, flight, results, respCh, answer>>

-----------------------------------------------------------------------------
Goroutine(r) ==
  \/ SingleReturns(r) \/ ChunkedReturns(r) \/ ParallelReturns(r)
  \/ TryCoalesce(r) \/ WaiterReceives(r)
  \/ LeaderTakesWaiters(r) \/ LeaderDelivers(r)
  \/ BatchSubmit(r) \/ BatchedReceives(r)

Batcher(o) == TimerFires(o) \/ TimerCallback(o) \/ FlushReturns(o) \/ FlushSends(o)

Finished == (\A r \in Requests : pc[r] = "done") /\ UNCHANGED vars

Next ==
  \/ \E r \in Requests : RelayRequest(r) \/ Goroutine(r) \/ WaiterTimesOut(r) \/ Batcher(r)
  \/ Restart
  \/ Finished

(* The Go scheduler runs every runnable goroutine, timers fire, and the    *)
(* transport returns (the relay timeouts, see the README for the case of   *)
(* an HTTP/1.1 peer that stays silent).  Clients need not send requests    *)
(* and restart need not happen.                                            *)
Fairness ==
  \A r \in Requests :
    /\ WF_vars(Goroutine(r))
    /\ WF_vars(WaiterTimesOut(r))
    /\ WF_vars(TimerFires(r)) /\ WF_vars(TimerCallback(r))
    /\ WF_vars(FlushReturns(r)) /\ WF_vars(FlushSends(r))

Spec == Init /\ [][Next]_vars
FairSpec == Spec /\ Fairness

-----------------------------------------------------------------------------
(* Properties.                                                             *)

Items(s) == {s[i] : i \in 1..Len(s)}
NoDup(s) == \A i, j \in 1..Len(s) : s[i] = s[j] => i = j

Submitted(r) == pc[r] \in {"leading", "batched"}
Leads(r) == pc[r] \in {"lead", "leading"}

(* A request begins at most one flush, by filling a batch or by the        *)
(* callback of the timer it armed, and a flush has as many responses as    *)
(* items: indexing results[i] in flushBatch (gas_relay.go) stays in range  *)
(* also when a late timer callback and a full batch flush at once.         *)
FlushIsOwn ==
  \A o \in Requests :
    /\ results[o] # <<>> => Len(results[o]) = Len(flight[o])
    /\ timer[o] \in {"armed", "fired"} => flight[o] = <<>>
    /\ pc[o] \notin {"leading", "delivering", "batched", "done"} =>
         timer[o] = "unset" /\ flight[o] = <<>>

(* A submitted item is at one place at a time: once in the pending batch   *)
(* or once in one flush, and only while its channel is empty, and nobody   *)
(* answers an item before it is submitted.  So no item is sent to the      *)
(* script twice and no flush blocks on a full channel, even when a stopped *)
(* timer's callback runs late (batchSubmit, gas_relay.go).                 *)
ItemInOnePlace ==
  /\ NoDup(pending)
  /\ \A o \in Requests : NoDup(flight[o]) /\ Items(flight[o]) \cap Items(pending) = {}
  /\ \A o, p \in Requests : o # p => Items(flight[o]) \cap Items(flight[p]) = {}
  /\ \A r \in Requests :
       (r \in Items(pending) \/ \E o \in Requests : r \in Items(flight[o]))
         => Submitted(r) /\ respCh[r] = Empty
  /\ \A r \in Requests :
       pc[r] \notin {"leading", "delivering", "batched", "done"} => respCh[r] = Empty

(* The pending batch is never stranded: r.batchTimer is set exactly while  *)
(* items are pending, and that timer is armed or its callback is on its    *)
(* way, although late callbacks also reset r.batchTimer.                   *)
PendingIsTimed ==
  /\ pending # <<>> <=> batchTimer # NoTimer
  /\ batchTimer # NoTimer => timer[batchTimer] \in {"armed", "fired"}

(* The 5 ms window holds fewer than gasBatchMax items, a flush at most     *)
(* gasBatchMax.                                                            *)
BatchBounded ==
  /\ Len(pending) < BatchMax
  /\ \A o \in Requests : Len(flight[o]) <= BatchMax

(* Until the relay restarts, a request blocked on its batch channel is in  *)
(* the pending batch or in a flush: somebody will answer it.               *)
NoItemLost ==
  \A r \in Requests :
    restarts = 0 /\ Submitted(r) /\ respCh[r] = Empty =>
      r \in Items(pending) \/ \E o \in Requests : r \in Items(flight[o])

(* A key of r.coalesce has exactly one leader, a request that leads has    *)
(* its key there: identical requests in flight are fetched once.           *)
OneLeaderPerKey ==
  /\ \A r \in Requests : Leads(r) => coalesceKey[r] \in coalescing
  /\ \A k \in coalescing : \E r \in Requests : Leads(r) /\ coalesceKey[r] = k
  /\ \A r, s \in Requests :
       Leads(r) /\ Leads(s) /\ coalesceKey[r] = coalesceKey[s] => r = s

(* A waiter that has no response yet is registered where a leader will     *)
(* find it: under its key, or in the list the leader is working off.       *)
WaiterIsKnown ==
  \A r \in Requests :
    pc[r] = "waiting" /\ waiterCh[r] = Empty =>
      \/ coalesceKey[r] \in coalescing /\ r \in Items(waiters[coalesceKey[r]])
      \/ \E l \in Requests : pc[l] = "delivering" /\ r \in Items(deliver[l])

(* x is a proper answer to r: an error, or the response to a payload with  *)
(* the same URL, negotiation headers and range; a stateful request is      *)
(* never answered with, nor its response used for, another one.            *)
Fits(r, x) ==
  \/ x \in {Error, r}
  \/ /\ x \in Requests
     /\ coalesceKey[x] = coalesceKey[r] /\ range[x] = range[r]
     /\ kind[x] # "stateful" /\ kind[r] # "stateful"

(* Every request gets an answer of its own: coalescing and batching never  *)
(* hand it the response to a different payload.                            *)
AnswerFits == \A r \in Requests : answer[r] # Empty => Fits(r, answer[r])

(* The same of the answers on their way: a batch channel gets the          *)
(* response to its own item, item i of a flush the response at place i.    *)
ChannelFits ==
  /\ \A r \in Requests : respCh[r] \in {Empty, Error, r}
  /\ \A o \in Requests : \A i \in 1..Len(results[o]) :
       results[o][i] \in {flight[o][i], Error}

(* Coalesced requests are interchangeable: same key, no range, no state.   *)
Shareable(r) == kind[r] \in {"get", "large"}
Twins(r, s) == Shareable(r) /\ Shareable(s) /\ coalesceKey[r] = coalesceKey[s]

(* tryCoalesce brings only interchangeable requests together.              *)
CoalesceFits ==
  /\ \A r \in Requests :
       /\ pc[r] \in {"chunked", "dispatch", "lead", "leading", "waiting"} => Shareable(r)
       /\ \A w \in Items(deliver[r]) : Twins(w, r)
       /\ waiterCh[r] # Empty => Fits(r, waiterCh[r])
  /\ \A k \in Keys : \A w \in Items(waiters[k]) : Shareable(w) /\ coalesceKey[w] = k

(* No ranged request takes the fan-out path, which coalesces all of them.  *)
NoRangedFanOut == MultiScript => \A r \in Requests : kind[r] # "ranged"

(* The batches are sound: every item of batchSubmit is in one place and    *)
(* sent once, no batch exceeds gasBatchMax, and what is on the channels is *)
(* an answer (gas_relay.go:836-900).                                       *)
BatchSound == TypeOK /\ ItemInOnePlace /\ BatchBounded

(* Coalescing is sound: one request at a time leads for a key, and whoever *)
(* waits for it is on the list it will serve (gas_relay.go:1068-1097).     *)
CoalesceSound == OneLeaderPerKey /\ WaiterIsKnown
=============================================================================
