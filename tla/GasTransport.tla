---------------------------- MODULE GasTransport ----------------------------
(***************************************************************************)
(* The transport below the GAS relay (proxy/gas_relay.go): relaySingle and *)
(* pingRelay over the HTTP/2 client with its circuit breaker, then over    *)
(* the pool of HTTP/1.1 connections (relayHTTP1, acquireConn,              *)
(* releaseConn), the choice and the black list of the scripts, restart and *)
(* close.  relayHTTP1 alone is what the goroutines of relaySingleParallel, *)
(* relayChunked and relayBatch call.                                       *)
(*                                                                         *)
(* A section of h2Mu or poolMu is one action.  Of a response it matters    *)
(* whether it came, whether it is an error of the script, and whether it   *)
(* is a redirect.  Time is left out: a backoff and a black list entry end  *)
(* at some moment, a pooled connection is expired or not.  A connection    *)
(* the peer has closed looks open here, as it does to the code: only a     *)
(* write or a read on it fails.                                            *)
(***************************************************************************)
EXTENDS Naturals, Sequences, FiniteSets, SequencesExt

CONSTANTS Calls,        \* calls of the three functions
          Kind,         \* which function: "single", "ping", "http1"
          Hash,         \* the script that the key of a call hashes to
          Scripts,      \* number of scripts
          Conns,        \* connections
          PoolMax,      \* gasPoolMax
          MaxFails,     \* bound on h2FailCount
          Nil

ASSUME TransportAssumption ==
  /\ Kind \in [Calls -> {"single", "ping", "http1"}]
  /\ Scripts \in Nat \ {0} /\ Hash \in [Calls -> 0..Scripts-1]
  /\ PoolMax \in Nat \ {0} /\ MaxFails \in Nat \ {0}
  /\ Conns # {} /\ Nil \notin Conns

VARIABLES
  pc,           \* where each call is
  script,       \* the index of the script in its path
  again,        \* "no", or the transport on which it switched to another script last
  conn,         \* the variable conn of relayHTTP1
  conn2,        \* its conn2, used after a failed read
  stage,        \* which acquireConn: 1 the first, 2 after a write, 3 after a read
  writes,       \* how often the request was sent, less two for each redirect followed
  net,          \* connection -> "open", "closed" (by this side)
  pool,         \* r.pool
  h2Client, h2FailCount,
  h2Backoff,    \* seconds of the backoff that runs, 0 if none does
  scriptIdx, sidBlacklist,
  relayFail,    \* consecutive failures of the heartbeat
  closed,       \* close() was called
  fault         \* the process died of: "unlock", "nil"; or "none"

h2Vars == <<h2Client, h2FailCount, h2Backoff>>
scriptVars == <<scriptIdx, sidBlacklist>>
connVars == <<conn, conn2, net, pool>>
callVars == <<script, again, stage, writes>>
restVars == <<relayFail, closed>>
vars == <<pc, callVars, connVars, h2Vars, scriptVars, restVars, fault>>

(* The transport's state has its type: the back-off never exceeds 30 s and *)
(* the heartbeat counts to five.                                           *)
TypeOK ==
  /\ pc \in [Calls -> {"new", "h2", "ensure", "reply", "acquire", "write", "read", "giveback",
                       "h2answer", "answer", "failed", "restart", "done"}]
  /\ script \in [Calls -> 0..Scripts-1] /\ again \in [Calls -> {"no", "h2", "http1"}]
  /\ conn \in [Calls -> Conns \cup {Nil}] /\ conn2 \in [Calls -> Conns \cup {Nil}]
  /\ stage \in [Calls -> 1..3]
  /\ writes \in [Calls -> Nat]
  /\ net \in [Conns -> {"open", "closed"}]
  /\ pool \in Seq(Conns \cup {Nil})
  /\ h2Client \in BOOLEAN /\ h2FailCount \in 0..MaxFails /\ h2Backoff \in 0..30
  /\ scriptIdx \in 0..Scripts-1 /\ sidBlacklist \in SUBSET (0..Scripts-1)
  /\ relayFail \in 0..5
  /\ closed \in BOOLEAN /\ fault \in {"none", "unlock", "nil"}

(* A relay in use: the pool holds a connection, HTTP/2 and pings have      *)
(* failed.                                                                 *)
Init ==
  /\ pc = [c \in Calls |-> "new"]
  /\ script = Hash /\ again = [c \in Calls |-> "no"]
  /\ conn = [c \in Calls |-> Nil] /\ conn2 = [c \in Calls |-> Nil]
  /\ stage = [c \in Calls |-> 1]
  /\ writes = [c \in Calls |-> 0]
  /\ pool = <<CHOOSE k \in Conns : TRUE>>
  /\ net = [k \in Conns |-> IF k \in ToSet(pool) THEN "open" ELSE "closed"]
  /\ h2Client = FALSE /\ h2FailCount = MaxFails - 1 /\ h2Backoff = 0
  /\ scriptIdx = 0 /\ sidBlacklist = {}
  /\ relayFail \in {0, 4}
  /\ closed = FALSE /\ fault = "none"

Goto(c, label) == pc' = [pc EXCEPT ![c] = label]
At(c, label) == pc[c] = label /\ fault = "none"
Set(f, c, v) == [f EXCEPT ![c] = v]

-----------------------------------------------------------------------------
(* Scripts.                                                                *)

(* Every round of the loop of scriptIDForKey hashes the same key, so a     *)
(* black-listed script is replaced by the first one unless its entry has   *)
(* expired.                                                                *)
scriptIDForKey(c) ==
  \/ /\ Hash[c] \in sidBlacklist /\ Scripts > 1
     /\ script' = Set(script, c, 0) /\ UNCHANGED sidBlacklist
  \/ /\ script' = Set(script, c, Hash[c])
     /\ sidBlacklist' = sidBlacklist \ {Hash[c]}

blacklistSID(s) == sidBlacklist' = IF Scripts = 1 THEN sidBlacklist ELSE sidBlacklist \cup {s}

retryWithNextScript(c, transport) ==
  /\ scriptIdx' = (scriptIdx + 1) % Scripts
  /\ script' = Set(script, c, IF Scripts = 1 THEN script[c] ELSE scriptIdx')
  /\ again' = Set(again, c, transport)

(* execPath, then HTTP/2; relayHTTP1 comes with a path.                    *)
Begin(c) ==
  /\ At(c, "new")
  /\ IF Kind[c] = "http1" THEN Goto(c, "acquire") /\ UNCHANGED <<script, sidBlacklist>>
                          ELSE Goto(c, "h2") /\ scriptIDForKey(c)
  /\ UNCHANGED <<again, stage, writes, connVars, h2Vars, scriptIdx, restVars, fault>>

-----------------------------------------------------------------------------
(* HTTP/2: h2Request in its sections.                                      *)

Lesser(a, b) == IF a < b THEN a ELSE b

(* 1 << min(n, 5) seconds, at most 30, after the n-th failure.             *)
Backoff(n) == Lesser(<<2, 4, 8, 16, 32>>[Lesser(n, 5)], 30)

resetH2 ==
  /\ h2Client' = FALSE
  /\ h2FailCount' = Lesser(h2FailCount + 1, MaxFails)
  /\ h2Backoff' = Backoff(h2FailCount + 1)

(* What a look at the clock may find: the backoff has ended or it has not. *)
BackoffEnds == h2Backoff' \in {h2Backoff, 0}

(* A failed h2Request: HTTP/1.1.                                           *)
h2BackoffLeft(c) ==
  /\ At(c, "h2")
  /\ IF h2Client THEN UNCHANGED h2Backoff ELSE BackoffEnds
  /\ Goto(c, IF ~h2Client /\ h2Backoff' > 0 THEN "acquire" ELSE "ensure")
  /\ UNCHANGED <<callVars, connVars, h2Client, h2FailCount, scriptVars, restVars, fault>>

(* Mutant: the backoff is not looked at again under the lock.              *)
ensureH2Anyway(c) ==
  /\ At(c, "ensure")
  /\ h2Client' = TRUE
  /\ Goto(c, "reply") /\ writes' = Set(writes, c, writes[c] + 1)
  /\ UNCHANGED <<script, again, stage, connVars, h2FailCount, h2Backoff,
                 scriptVars, restVars, fault>>

(* The code reads the client in a section of its own: a reset before that  *)
(* has the effect of one before ensureH2.                                  *)
ensureH2(c) ==
  /\ At(c, "ensure")
  /\ IF h2Client THEN UNCHANGED h2Backoff ELSE BackoffEnds
  /\ h2Client' = (h2Client \/ h2Backoff' = 0)
  /\ IF h2Client'
     THEN Goto(c, "reply") /\ writes' = Set(writes, c, writes[c] + 1)
     ELSE Goto(c, "acquire") /\ UNCHANGED writes
  /\ UNCHANGED <<script, again, stage, connVars, h2FailCount, scriptVars, restVars, fault>>

(* No response: the breaker opens.                                         *)
h2Fails(c) ==
  /\ At(c, "reply")
  /\ resetH2
  /\ Goto(c, "acquire")
  /\ UNCHANGED <<callVars, connVars, scriptVars, restVars, fault>>

(* A response closes the breaker; its body may still be cut off.           *)
h2Answers(c) ==
  /\ At(c, "reply")
  /\ h2FailCount' = 0 /\ h2Backoff' = 0
  /\ Goto(c, "h2answer") \/ Goto(c, "acquire")
  /\ UNCHANGED <<callVars, connVars, h2Client, scriptVars, restVars, fault>>

(* relaySingle: an error of the script is answered by another script; the  *)
(* breaker closed by the response is opened again.                         *)
h2ScriptError(c) ==
  /\ At(c, "h2answer") /\ Kind[c] = "single" /\ again[c] = "no"
  /\ resetH2
  /\ blacklistSID(script[c]) /\ retryWithNextScript(c, "h2")
  /\ Goto(c, "h2")
  /\ UNCHANGED <<stage, writes, connVars, restVars, fault>>

-----------------------------------------------------------------------------
(* The HTTP/1.1 pool.                                                      *)

(* The connection the call works with.                                     *)
Current(c) == IF stage[c] = 3 THEN conn2[c] ELSE conn[c]
Take(c, k) ==
  IF stage[c] = 3 THEN conn2' = Set(conn2, c, k) /\ UNCHANGED conn
                  ELSE conn' = Set(conn, c, k) /\ UNCHANGED conn2

CloseConn(k) == net' = [n \in Conns |-> IF n = k THEN "closed" ELSE net[n]]

(* acquireConn takes the last connection.  An expired one is closed and    *)
(* the next one looked at.  The keep-alive check of another reads one byte *)
(* and looks at the count only, so a connection closed by either side      *)
(* passes; a byte leads out of the loop and to the second Unlock.  No call *)
(* works on a nil connection.                                              *)
AcquirePops(c) ==
  /\ At(c, "acquire") /\ pool # <<>>
  /\ pool' = Front(pool)
  /\ IF Last(pool) = Nil
     THEN fault' = "nil" /\ UNCHANGED <<pc, conn, conn2, net>>
     ELSE \/ Goto(c, "write") /\ Take(c, Last(pool)) /\ UNCHANGED <<net, fault>>
          \/ CloseConn(Last(pool)) /\ UNCHANGED <<pc, conn, conn2, fault>>
          \/ /\ net[Last(pool)] = "open" /\ CloseConn(Last(pool))
             /\ fault' = "unlock" /\ UNCHANGED <<pc, conn, conn2>>
  /\ UNCHANGED <<callVars, h2Vars, scriptVars, restVars>>

(* The connections nobody refers to any more stand for those not made yet. *)
Unused == {k \in Conns : /\ net[k] = "closed" /\ k \notin ToSet(pool)
                         /\ \A c \in Calls : k \notin {conn[c], conn2[c]}}

(* An empty pool: acquireConn dials.                                       *)
Dial(c) ==
  /\ At(c, "acquire") /\ pool = <<>> /\ Unused # {}
  /\ LET k == CHOOSE n \in Unused : TRUE IN net' = Set(net, k, "open") /\ Take(c, k)
  /\ Goto(c, "write")
  /\ UNCHANGED <<callVars, pool, h2Vars, scriptVars, restVars, fault>>

(* The dial fails.  On the first one the deferred release is not yet in    *)
(* place; on the second one conn is nil by then.                           *)
DialFails(c) ==
  /\ At(c, "acquire") /\ pool = <<>>
  /\ Goto(c, IF stage[c] = 1 THEN "failed" ELSE "giveback")
  /\ conn' = Set(conn, c, IF stage[c] = 3 THEN conn[c] ELSE Nil)
  /\ UNCHANGED <<callVars, conn2, net, pool, h2Vars, scriptVars, restVars, fault>>

Write(c) ==
  /\ At(c, "write") /\ net[Current(c)] # "closed"
  /\ writes' = Set(writes, c, writes[c] + 1)
  /\ Goto(c, "read")
  /\ UNCHANGED <<script, again, stage, connVars, h2Vars, scriptVars, restVars, fault>>

(* Mutant: a failed write is retried as long as it fails.                  *)
WriteFailsForEver(c) ==
  /\ At(c, "write")
  /\ CloseConn(Current(c))
  /\ Goto(c, "acquire")
  /\ UNCHANGED <<callVars, conn, conn2, pool, h2Vars, scriptVars, restVars, fault>>

(* A failed write is retried on another connection the first time.         *)
WriteFails(c) ==
  /\ At(c, "write")
  /\ CloseConn(Current(c))
  /\ IF stage[c] = 1
     THEN Goto(c, "acquire") /\ stage' = Set(stage, c, 2)
     ELSE Goto(c, "giveback") /\ UNCHANGED stage
  /\ UNCHANGED <<script, again, writes, conn, conn2, pool, h2Vars, scriptVars, restVars, fault>>

(* Mutant: the retry of a failed read keeps its stage.                     *)
ReadFailsForEver(c) ==
  /\ At(c, "read")
  /\ CloseConn(Current(c))
  /\ Goto(c, "acquire") /\ stage' = Set(stage, c, 2)
  /\ UNCHANGED <<script, again, writes, conn, conn2, pool, h2Vars, scriptVars, restVars, fault>>

ReadFails(c) ==
  /\ At(c, "read")
  /\ CloseConn(Current(c))
  /\ IF stage[c] < 3
     THEN Goto(c, "acquire") /\ stage' = Set(stage, c, 3)
     ELSE Goto(c, "giveback") /\ UNCHANGED stage
  /\ UNCHANGED <<script, again, writes, conn, conn2, pool, h2Vars, scriptVars, restVars, fault>>

releaseConn(k) ==
  IF Len(pool) < PoolMax
  THEN pool' = Append(pool, k) /\ UNCHANGED <<net, fault>>
  ELSE /\ UNCHANGED pool /\ CloseConn(k)
       /\ fault' = IF k = Nil THEN "nil" ELSE fault

(* The call forgets its connections; a redirect starts over.               *)
Forget(c) == conn' = Set(conn, c, Nil) /\ conn2' = Set(conn2, c, Nil)

(* Mutant: the connection stays with the call, which releases it again     *)
(* when it returns.                                                        *)
ReadKeeps(c) ==
  /\ At(c, "read")
  /\ releaseConn(Current(c)) /\ UNCHANGED <<conn, conn2>>
  /\ Goto(c, "giveback")
  /\ UNCHANGED <<callVars, h2Vars, scriptVars, restVars>>

(* A response was read and the connection is released: the answer, or a    *)
(* redirect that leads nowhere.                                            *)
Read(c) ==
  /\ At(c, "read")
  /\ releaseConn(Current(c)) /\ Forget(c)
  /\ stage' = Set(stage, c, 1)
  /\ Goto(c, "answer") \/ Goto(c, "failed")
  /\ UNCHANGED <<script, again, writes, h2Vars, scriptVars, restVars>>

(* A redirect is followed by another relayHTTP1; nothing counts them.      *)
FollowRedirect(c) ==
  /\ At(c, "read")
  /\ releaseConn(Current(c)) /\ Forget(c)
  /\ stage' = Set(stage, c, 1)
  /\ writes' = Set(writes, c, IF writes[c] > 2 THEN writes[c] - 2 ELSE 0)
  /\ Goto(c, "acquire")
  /\ UNCHANGED <<script, again, h2Vars, scriptVars, restVars>>

(* The deferred release of a call that failed: conn is closed, or nil.     *)
GiveBack(c) ==
  /\ At(c, "giveback")
  /\ releaseConn(conn[c]) /\ Forget(c)
  /\ stage' = Set(stage, c, 1)
  /\ Goto(c, "failed")
  /\ UNCHANGED <<script, again, writes, h2Vars, scriptVars, restVars>>

-----------------------------------------------------------------------------
(* The ends of a call.                                                     *)

(* The variables of the call go with it.                                   *)
Finish(c) ==
  /\ Goto(c, "done")
  /\ script' = Set(script, c, Hash[c]) /\ again' = Set(again, c, "no")
  /\ writes' = Set(writes, c, 0)
  /\ UNCHANGED stage

(* Without a response over HTTP/1.1 relaySingle gives up, and blames the   *)
(* script unless it is the one of the last retry.                          *)
Return(c) ==
  /\ pc[c] \in {"h2answer", "answer", "failed"} /\ fault = "none" /\ Kind[c] # "ping"
  /\ Finish(c)
  /\ IF pc[c] = "failed" /\ Kind[c] = "single" /\ again[c] # "http1"
     THEN blacklistSID(script[c]) ELSE UNCHANGED sidBlacklist
  /\ UNCHANGED <<connVars, h2Vars, scriptIdx, restVars, fault>>

(* relaySingle: an error of the script over HTTP/1.1 is retried whether or *)
(* not one over HTTP/2 was.                                                *)
HTTP1ScriptError(c) ==
  /\ At(c, "answer") /\ Kind[c] = "single" /\ again[c] # "http1"
  /\ blacklistSID(script[c]) /\ retryWithNextScript(c, "http1")
  /\ Goto(c, "acquire")
  /\ UNCHANGED <<stage, writes, connVars, h2Vars, restVars, fault>>

PingOk(c) ==
  /\ pc[c] \in {"h2answer", "answer"} /\ fault = "none" /\ Kind[c] = "ping"
  /\ relayFail' = 0
  /\ Finish(c)
  /\ UNCHANGED <<connVars, h2Vars, scriptVars, closed, fault>>

(* Fewer than five failures in a row only reset HTTP/2.                    *)
PingFails(c) ==
  /\ At(c, "failed") /\ Kind[c] = "ping" /\ relayFail < 4
  /\ relayFail' = relayFail + 1
  /\ resetH2
  /\ Finish(c)
  /\ UNCHANGED <<connVars, scriptVars, closed, fault>>

EmptyPool ==
  /\ net' = [k \in Conns |-> IF k \in ToSet(pool) THEN "closed" ELSE net[k]]
  /\ pool' = <<>>
  /\ fault' = IF Nil \in ToSet(pool) THEN "nil" ELSE fault

(* restart(): its section of h2Mu, then that of poolMu; the batch is in     *)
(* GasRelay.                                                               *)
RestartH2(c) ==
  /\ At(c, "failed") /\ Kind[c] = "ping" /\ relayFail >= 4
  /\ h2Client' = FALSE /\ h2FailCount' = 0 /\ h2Backoff' = 0
  /\ Goto(c, "restart")
  /\ UNCHANGED <<callVars, connVars, scriptVars, restVars, fault>>

Restart(c) ==
  /\ At(c, "restart")
  /\ EmptyPool
  /\ relayFail' = 0 /\ sidBlacklist' = {}
  /\ Finish(c)
  /\ UNCHANGED <<conn, conn2, h2Vars, scriptIdx, closed>>

(* close(): idle connections of the client and those of the pool.          *)
Close ==
  /\ fault = "none" /\ ~closed
  /\ closed' = TRUE
  /\ EmptyPool /\ sidBlacklist' = {}
  /\ UNCHANGED <<pc, callVars, conn, conn2, h2Vars, scriptIdx, relayFail>>

-----------------------------------------------------------------------------
H2Step(c) ==
  \/ h2BackoffLeft(c) \/ ensureH2(c)
  \/ h2Fails(c) \/ h2Answers(c) \/ h2ScriptError(c)

HTTP1Step(c) ==
  \/ AcquirePops(c) \/ Dial(c) \/ DialFails(c)
  \/ Write(c) \/ WriteFails(c) \/ Read(c) \/ FollowRedirect(c) \/ ReadFails(c) \/ GiveBack(c)

EndStep(c) ==
  Return(c) \/ HTTP1ScriptError(c) \/ PingOk(c) \/ PingFails(c) \/ RestartH2(c) \/ Restart(c)

Next ==
  \/ \E c \in Calls : Begin(c) \/ H2Step(c) \/ HTTP1Step(c) \/ EndStep(c)
  \/ Close

Spec == Init /\ [][Next]_vars

(* Dials have a timeout and so has a request over HTTP/2.  A read over     *)
(* HTTP/1.1 has none: that the peer answers or closes is assumed of it.    *)
FairSpec ==
  Spec /\ WF_vars(\E c \in Calls : H2Step(c) \/ HTTP1Step(c) \/ EndStep(c))

-----------------------------------------------------------------------------
(* A connection belongs to one place: it is in the pool once and with no   *)
(* call, or it is the connection of one call (gas_relay.go:1016-1066).     *)
(* Two calls on one connection would get each other's responses.           *)
Uses(k) == {c \in Calls : k = Current(c)}
InPool(k) == {i \in DOMAIN pool : pool[i] = k}

ConnExclusive == \A k \in Conns : Cardinality(Uses(k)) + Cardinality(InPool(k)) <= 1

(* A connection that was not closed can be found again: in the pool or     *)
(* with a call, whatever failed, restarted or closed in between            *)
(* (gas_relay.go:936-1066, 1440-1501).                                     *)
NoConnLeak ==
  \A k \in Conns : net[k] # "closed" => Uses(k) # {} \/ InPool(k) # {}

(* The pool keeps its limit although calls dial without asking how many    *)
(* connections are out (gas_relay.go:1058-1066).                           *)
PoolBounded == Len(pool) <= PoolMax

(* While the circuit breaker is open there is no HTTP/2 client, so no call *)
(* starts a request over HTTP/2 before the backoff has ended, whichever    *)
(* calls failed, succeeded or restarted meanwhile                          *)
(* (gas_relay.go:248-323, 353-360).                                        *)
BreakerShut == h2Backoff > 0 => ~h2Client

(* What one payload costs: relaySingle sends it at most twice over HTTP/2, *)
(* then at most twice in each of two relayHTTP1, and twice more for each   *)
(* redirect it follows (gas_relay.go:717-771, 936-1013), of which there is *)
(* no bound.  A POST may be executed that often.                           *)
SendsBounded ==
  \A c \in Calls : writes[c] <= CASE Kind[c] = "single" -> 6
                                  [] Kind[c] = "ping" -> 3
                                  [] OTHER -> 2

(* Calls that were begun end, by an answer or an error, unless the process *)
(* has died or one of them is sent from redirect to redirect for ever:     *)
(* relayHTTP1 follows each by calling itself (gas_relay.go:717-771,        *)
(* 936-1056).                                                              *)
CallsEnd ==
  \/ []<>((\A c \in Calls : pc[c] \in {"new", "done"}) \/ fault # "none")
  \/ \E c \in Calls : []<><<FollowRedirect(c)>>_vars

(* The connections are accounted for: an open one is in the pool or with   *)
(* one call, never both, and the pool keeps its limit                      *)
(* (gas_relay.go:936-1066, 1440-1501).                                     *)
ConnOwned == TypeOK /\ ConnExclusive /\ NoConnLeak /\ PoolBounded
=============================================================================
