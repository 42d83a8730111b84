------------------------- MODULE GasTransportProofs -------------------------
(***************************************************************************)
(* Theorems about GasTransport, for any number of calls, scripts and       *)
(* connections, any limit of the pool and any number of redirects.  And    *)
(* about the manager that creates and closes the relay, GASManager.        *)
(***************************************************************************)
EXTENDS GasTransport, GASManager, TLAPS, FiniteSetTheorems

(* Outside relayHTTP1 a call has no connection.                            *)
Outside == {"new", "h2", "ensure", "reply", "h2answer", "answer", "failed", "restart", "done"}

Gone(k) == k # Nil => net[k] = "closed"

(* What a call holds where it is: one connection while it writes or reads, *)
(* and otherwise only variables whose connection it has closed.            *)
Holding ==
  \A c \in Calls :
    /\ pc[c] \in Outside => stage[c] = 1 /\ conn[c] = Nil /\ conn2[c] = Nil
    /\ stage[c] # 3 => conn2[c] = Nil
    /\ pc[c] = "acquire" => Gone(conn[c]) /\ conn2[c] = Nil
    /\ pc[c] \in {"write", "read"} => Current(c) # Nil /\ (stage[c] = 3 => Gone(conn[c]))
    /\ pc[c] = "giveback" => Gone(conn[c]) /\ Gone(conn2[c])

(* No connection is referred to from two places, closed ones included.     *)
Apart ==
  /\ \A c, d \in Calls : c # d =>
       /\ conn[c] = conn[d] => conn[c] = Nil
       /\ conn[c] = conn2[d] => conn[c] = Nil
       /\ conn2[c] = conn2[d] => conn2[c] = Nil
  /\ \A c \in Calls : conn[c] = conn2[c] => conn[c] = Nil
  /\ \A c \in Calls : \A i \in 1..Len(pool) :
       pool[i] # Nil => pool[i] # conn[c] /\ pool[i] # conn2[c]
  /\ \A i, j \in 1..Len(pool) : pool[i] = pool[j] /\ pool[i] # Nil => i = j

(* An open connection is with a call or in the pool.                       *)
Found ==
  \A k \in Conns : net[k] = "open" =>
    (\E c \in Calls : Current(c) = k) \/ (\E i \in 1..Len(pool) : pool[i] = k)

CInv == TypeOK /\ Holding /\ Apart /\ Found /\ PoolBounded

(* The sends a call may have made before its present relayHTTP1, not       *)
(* counting redirects: once for a ping over HTTP/2, twice for relaySingle, *)
(* and twice more once it has tried another script over HTTP/1.1.          *)
Base(c) ==
  CASE Kind[c] = "single" -> IF again[c] = "http1" THEN 4 ELSE 2
    [] Kind[c] = "ping" -> 1
    [] OTHER -> 0

(* The sends of the present relayHTTP1.                                    *)
Round(c) ==
  CASE pc[c] \in {"acquire", "write"} -> IF stage[c] = 3 THEN 1 ELSE 0
    [] pc[c] = "read" -> IF stage[c] = 3 THEN 2 ELSE 1
    [] OTHER -> 2

(* The sends over HTTP/2.                                                  *)
Tries(c) == (IF again[c] = "no" THEN 0 ELSE 1) + (IF pc[c] \in {"reply", "h2answer"} THEN 1 ELSE 0)

CountedOf(c) ==
  /\ pc[c] \in {"new", "done"} => writes[c] = 0
  /\ pc[c] = "new" => again[c] = "no"
  /\ pc[c] \in {"h2", "ensure", "reply", "h2answer"} =>
       /\ Kind[c] # "http1" /\ again[c] # "http1"
       /\ writes[c] <= Tries(c)
  /\ pc[c] \in {"acquire", "write", "read", "giveback", "answer", "failed",
                "restart"} => writes[c] <= Base(c) + Round(c)
  /\ Kind[c] # "single" => again[c] = "no"
  /\ pc[c] \in Outside => stage[c] = 1

Counted == \A c \in Calls : CountedOf(c)

-----------------------------------------------------------------------------
(* What the helpers return.                                                *)

(* min of two numbers. *)
LEMMA LesserIs ==
  ASSUME NEW a \in Nat, NEW b \in Nat
  PROVE  Lesser(a, b) \in Nat /\ Lesser(a, b) <= a /\ Lesser(a, b) <= b
                              /\ Lesser(a, b) \in {a, b}
BY DEF Lesser

(* A backoff takes at least two seconds and at most thirty. *)
LEMMA BackoffIs ==
  ASSUME NEW n \in Nat \ {0}
  PROVE  Backoff(n) \in 2..30
<1> DEFINE m == Lesser(n, 5)
<1>1. m \in 1..5
  BY DEF Lesser
<1> HIDE DEF m
<1>2. <<2, 4, 8, 16, 32>>[m] \in {2, 4, 8, 16, 32}
  BY <1>1
<1>3. Backoff(n) = Lesser(<<2, 4, 8, 16, 32>>[m], 30)
  BY DEF Backoff, m
<1> QED
  BY <1>2, <1>3 DEF Lesser

(* The pool without its last connection. *)
LEMMA PoolPops ==
  ASSUME TypeOK, pool # <<>>
  PROVE  /\ Front(pool) \in Seq(Conns \cup {Nil})
         /\ Len(Front(pool)) = Len(pool) - 1 /\ Len(pool) \in Nat \ {0}
         /\ \A i \in 1..Len(pool) - 1 : Front(pool)[i] = pool[i]
         /\ Last(pool) = pool[Len(pool)] /\ Last(pool) \in Conns \cup {Nil}
<1>1. pool \in Seq(Conns \cup {Nil}) /\ Len(pool) \in Nat /\ Len(pool) # 0
  BY DEF TypeOK
<1>2. Front(pool) = [i \in 1..Len(pool) - 1 |-> pool[i]]
  BY <1>1 DEF Front
<1> QED
  BY <1>1, <1>2 DEF Last

-----------------------------------------------------------------------------
(* Types.                                                                  *)

LEMMA TypeInit == Init => TypeOK
<1> SUFFICES ASSUME Init PROVE TypeOK
  OBVIOUS
<1> USE TransportAssumption DEF TransportAssumption
<1>1. (CHOOSE k \in Conns : TRUE) \in Conns
  OBVIOUS
<1>2. pool \in Seq(Conns \cup {Nil})
  BY <1>1 DEF Init
<1>3. net \in [Conns -> {"open", "closed"}]
  BY DEF Init
<1>4. h2FailCount \in 0..MaxFails /\ h2Backoff \in 0..30 /\ relayFail \in 0..5
  BY DEF Init
<1>5. scriptIdx \in 0..Scripts-1 /\ sidBlacklist \in SUBSET (0..Scripts-1)
  BY DEF Init
<1>6. stage \in [Calls -> 1..3]
  BY DEF Init
<1> QED
  BY <1>2, <1>3, <1>4, <1>5, <1>6 DEF Init, TypeOK

(* The three parts of the type invariant: the calls, their connections,    *)
(* and what they share. *)
CallTypes ==
  /\ pc \in [Calls -> {"new", "h2", "ensure", "reply", "acquire", "write", "read", "giveback",
                       "h2answer", "answer", "failed", "restart", "done"}]
  /\ script \in [Calls -> 0..Scripts-1] /\ again \in [Calls -> {"no", "h2", "http1"}]
  /\ stage \in [Calls -> 1..3]
  /\ writes \in [Calls -> Nat]
ConnTypes ==
  /\ conn \in [Calls -> Conns \cup {Nil}] /\ conn2 \in [Calls -> Conns \cup {Nil}]
  /\ net \in [Conns -> {"open", "closed"}]
  /\ pool \in Seq(Conns \cup {Nil})
BreakerTypes == h2Client \in BOOLEAN /\ h2FailCount \in 0..MaxFails /\ h2Backoff \in 0..30
RestTypes ==
  /\ scriptIdx \in 0..Scripts-1 /\ sidBlacklist \in SUBSET (0..Scripts-1)
  /\ relayFail \in 0..5
  /\ closed \in BOOLEAN /\ fault \in {"none", "unlock", "nil"}

LEMMA TypeParts == TypeOK <=> CallTypes /\ ConnTypes /\ BreakerTypes /\ RestTypes
BY DEF TypeOK, CallTypes, ConnTypes, BreakerTypes, RestTypes

(* resetH2 leaves an open breaker. *)
LEMMA ResetIs ==
  ASSUME BreakerTypes, resetH2
  PROVE  BreakerTypes' /\ h2Client' = FALSE
<1> USE TransportAssumption DEF TransportAssumption
<1>1. h2FailCount + 1 \in Nat \ {0} /\ MaxFails \in Nat
  BY DEF BreakerTypes
<1>2. Lesser(h2FailCount + 1, MaxFails) \in 0..MaxFails
  BY <1>1, LesserIs, SMTT(30)
<1>3. Backoff(h2FailCount + 1) \in 0..30
  BY <1>1, BackoffIs
<1> QED
  BY <1>2, <1>3 DEF BreakerTypes, resetH2

LEMMA CallTypesNext ==
  ASSUME TypeOK, NEW c \in Calls, Begin(c) \/ H2Step(c) \/ HTTP1Step(c) \/ EndStep(c)
  PROVE  CallTypes'
<1>0. CallTypes /\ RestTypes
  BY TypeParts
<1> USE <1>0, TransportAssumption DEF TransportAssumption, CallTypes, Goto, Set, callVars
<1>1. CASE Begin(c)
  BY <1>1 DEF Begin, scriptIDForKey
<1>2. CASE h2BackoffLeft(c)
  BY <1>2 DEF h2BackoffLeft
<1>3. CASE ensureH2(c)
  BY <1>3 DEF ensureH2
<1>4. CASE h2Fails(c) \/ h2Answers(c)
  BY <1>4 DEF h2Fails, h2Answers
<1>5. CASE h2ScriptError(c) \/ HTTP1ScriptError(c)
  <2>1. (scriptIdx + 1) % Scripts \in 0..Scripts-1
    BY DEF RestTypes
  <2> QED
    BY <1>5, <2>1 DEF h2ScriptError, HTTP1ScriptError, retryWithNextScript
<1>6. CASE AcquirePops(c)
  BY <1>6 DEF AcquirePops
<1>7. CASE Dial(c) \/ DialFails(c)
  <2>1. UNCHANGED callVars /\ \E label \in {"write", "failed", "giveback"} : Goto(c, label)
    BY <1>7 DEF Dial, DialFails
  <2> QED
    BY <2>1
<1>11. CASE Write(c)
  BY <1>11 DEF Write
<1>8. CASE WriteFails(c) \/ ReadFails(c)
  BY <1>8 DEF WriteFails, ReadFails
<1>9. CASE Read(c) \/ FollowRedirect(c) \/ GiveBack(c)
  BY <1>9 DEF Read, FollowRedirect, GiveBack
<1>10. CASE Return(c) \/ PingOk(c) \/ PingFails(c) \/ RestartH2(c) \/ Restart(c)
  BY <1>10 DEF Return, PingOk, PingFails, RestartH2, Restart, Finish
<1> QED
  BY <1>1, <1>2, <1>3, <1>4, <1>5, <1>6, <1>7, <1>8, <1>9, <1>10, <1>11 DEF H2Step, HTTP1Step, EndStep

(* What a step may do to the pool: a connection is released or taken out,  *)
(* the pool is emptied, or it stays. *)
LEMMA ReleaseTypes ==
  ASSUME ConnTypes, NEW k \in Conns \cup {Nil}, releaseConn(k)
  PROVE  net' \in [Conns -> {"open", "closed"}] /\ pool' \in Seq(Conns \cup {Nil})
BY DEF ConnTypes, releaseConn, CloseConn

LEMMA ConnTypesNext ==
  ASSUME TypeOK, NEW c \in Calls, Begin(c) \/ H2Step(c) \/ HTTP1Step(c) \/ EndStep(c)
  PROVE  ConnTypes'
<1>0. CallTypes /\ ConnTypes
  BY TypeParts
<1> USE <1>0 DEF ConnTypes, Set, connVars
<1>1. CASE Begin(c) \/ H2Step(c)
  BY <1>1 DEF Begin, H2Step, h2BackoffLeft, ensureH2, h2Fails, h2Answers, h2ScriptError
<1>2. CASE AcquirePops(c)
  BY <1>2, PoolPops, SMTT(30) DEF AcquirePops, Take, CloseConn
<1>3. CASE Dial(c)
  <2>1. (CHOOSE n \in Unused : TRUE) \in Conns
    BY <1>3 DEF Dial, Unused
  <2> QED
    BY <1>3, <2>1 DEF Dial, Take
<1>4. CASE DialFails(c) \/ Write(c)
  BY <1>4 DEF DialFails, Write
<1>5. CASE WriteFails(c) \/ ReadFails(c)
  BY <1>5 DEF WriteFails, ReadFails, CloseConn
<1>6. CASE Read(c) \/ FollowRedirect(c) \/ GiveBack(c)
  <2>1. Current(c) \in Conns \cup {Nil} /\ conn[c] \in Conns \cup {Nil}
    BY DEF Current
  <2>2. conn' = [conn EXCEPT ![c] = Nil] /\ conn2' = [conn2 EXCEPT ![c] = Nil]
    BY <1>6 DEF Read, FollowRedirect, GiveBack, Forget
  <2>3. \E k \in Conns \cup {Nil} : releaseConn(k)
    BY <1>6, <2>1 DEF Read, FollowRedirect, GiveBack
  <2> QED
    BY <2>2, <2>3, ReleaseTypes
<1>7. CASE Restart(c)
  BY <1>7 DEF Restart, EmptyPool
<1>8. CASE Return(c) \/ HTTP1ScriptError(c) \/ PingOk(c) \/ PingFails(c) \/ RestartH2(c)
  BY <1>8 DEF Return, HTTP1ScriptError, PingOk, PingFails, RestartH2
<1> QED
  BY <1>1, <1>2, <1>3, <1>4, <1>5, <1>6, <1>7, <1>8 DEF HTTP1Step, EndStep

LEMMA BreakerTypesNext ==
  ASSUME TypeOK, NEW c \in Calls, Begin(c) \/ H2Step(c) \/ HTTP1Step(c) \/ EndStep(c)
  PROVE  BreakerTypes'
<1>0. BreakerTypes
  BY TypeParts
<1>1. CASE UNCHANGED h2Vars
  BY <1>0, <1>1 DEF BreakerTypes, h2Vars
<1>2. CASE h2BackoffLeft(c) \/ ensureH2(c)
  <2>1. h2FailCount' = h2FailCount /\ h2Backoff' \in {h2Backoff, 0}
    BY <1>2 DEF h2BackoffLeft, ensureH2, BackoffEnds
  <2>2. h2Client' = h2Client \/ h2Client' = (h2Client \/ h2Backoff' = 0)
    BY <1>2 DEF h2BackoffLeft, ensureH2
  <2>3. h2Client' \in BOOLEAN
    BY <1>0, <2>2 DEF BreakerTypes
  <2> QED
    BY <1>0, <2>1, <2>3 DEF BreakerTypes
<1>3. CASE resetH2
  BY <1>0, <1>3, ResetIs
<1>4. CASE h2Answers(c) \/ RestartH2(c)
  <2>1. h2Client' \in {h2Client, FALSE} /\ h2FailCount' = 0 /\ h2Backoff' = 0
    BY <1>4 DEF h2Answers, RestartH2
  <2>2. h2Client' \in BOOLEAN
    BY <1>0, <2>1 DEF BreakerTypes
  <2> QED
    BY <2>1, <2>2, TransportAssumption DEF BreakerTypes, TransportAssumption
<1> QED
  BY <1>1, <1>2, <1>3, <1>4
     DEF H2Step, HTTP1Step, EndStep, Begin, h2Fails, h2ScriptError, AcquirePops, Dial, DialFails,
         Write, WriteFails, ReadFails, Read, FollowRedirect, GiveBack, Return, HTTP1ScriptError,
         PingOk, PingFails, Restart

LEMMA RestTypesNext ==
  ASSUME TypeOK, NEW c \in Calls, Begin(c) \/ H2Step(c) \/ HTTP1Step(c) \/ EndStep(c)
  PROVE  RestTypes'
<1>0. CallTypes /\ RestTypes
  BY TypeParts
<1> USE <1>0, TransportAssumption DEF TransportAssumption, RestTypes, scriptVars, restVars
<1>1. CASE Begin(c)
  BY <1>1 DEF Begin, scriptIDForKey
<1>2. CASE h2BackoffLeft(c) \/ ensureH2(c) \/ h2Fails(c) \/ h2Answers(c)
  BY <1>2 DEF h2BackoffLeft, ensureH2, h2Fails, h2Answers
<1>3. CASE h2ScriptError(c) \/ HTTP1ScriptError(c)
  <2>1. (scriptIdx + 1) % Scripts \in 0..Scripts-1 /\ script[c] \in 0..Scripts-1
    BY DEF CallTypes
  <2> QED
    BY <1>3, <2>1 DEF h2ScriptError, HTTP1ScriptError, retryWithNextScript, blacklistSID
<1>4. CASE AcquirePops(c)
  BY <1>4 DEF AcquirePops
<1>5. CASE Dial(c) \/ DialFails(c) \/ Write(c) \/ WriteFails(c) \/ ReadFails(c)
  BY <1>5 DEF Dial, DialFails, Write, WriteFails, ReadFails
<1>6. CASE Read(c) \/ FollowRedirect(c) \/ GiveBack(c)
  BY <1>6 DEF Read, FollowRedirect, GiveBack, releaseConn
<1>7. CASE Return(c)
  <2>1. script[c] \in 0..Scripts-1
    BY DEF CallTypes
  <2> QED
    BY <1>7, <2>1 DEF Return, blacklistSID
<1>8. CASE PingOk(c) \/ PingFails(c)
  <2>1. UNCHANGED <<scriptVars, closed, fault>> /\ relayFail' \in {0, relayFail + 1}
    BY <1>8 DEF PingOk, PingFails
  <2>2. relayFail' \in 0..5
    BY <1>8, <2>1 DEF PingOk, PingFails
  <2> QED
    BY <2>1, <2>2
<1>9. CASE RestartH2(c)
  BY <1>9 DEF RestartH2
<1>10. CASE Restart(c)
  BY <1>10 DEF Restart, EmptyPool
<1> QED
  BY <1>1, <1>2, <1>3, <1>4, <1>5, <1>6, <1>7, <1>8, <1>9, <1>10 DEF H2Step, HTTP1Step, EndStep

LEMMA TypeNext == TypeOK /\ [Next]_vars => TypeOK'
<1> SUFFICES ASSUME TypeOK, [Next]_vars PROVE TypeOK'
  OBVIOUS
<1>1. CASE Close
  <2>1. CallTypes' /\ BreakerTypes'
    BY <1>1, TypeParts DEF Close, CallTypes, BreakerTypes, callVars, h2Vars
  <2>2. ConnTypes'
    BY <1>1, TypeParts DEF Close, EmptyPool, ConnTypes
  <2>3. RestTypes'
    BY <1>1, TypeParts DEF Close, EmptyPool, RestTypes
  <2> QED
    BY <2>1, <2>2, <2>3 DEF TypeOK, CallTypes, ConnTypes, BreakerTypes, RestTypes
<1>2. CASE UNCHANGED vars
  BY <1>2 DEF TypeOK, vars, callVars, connVars, h2Vars, scriptVars, restVars
<1>3. CASE \E c \in Calls : Begin(c) \/ H2Step(c) \/ HTTP1Step(c) \/ EndStep(c)
  <2>1. CallTypes' /\ ConnTypes' /\ BreakerTypes' /\ RestTypes'
    BY <1>3, CallTypesNext, ConnTypesNext, BreakerTypesNext, RestTypesNext
  <2> QED
    BY <2>1 DEF TypeOK, CallTypes, ConnTypes, BreakerTypes, RestTypes
<1> QED
  BY <1>1, <1>2, <1>3 DEF Next

(* The transport's state stays well typed: the back-off never exceeds 30 s *)
(* however many failures there are (gas_relay.go:319-323).                 *)
THEOREM TransportTypeCorrect == Spec => []TypeOK
BY TypeInit, TypeNext, PTL DEF Spec

-----------------------------------------------------------------------------
(* The circuit breaker.                                                    *)

LEMMA BreakerNext == TypeOK /\ BreakerShut /\ [Next]_vars => BreakerShut'
<1> SUFFICES ASSUME TypeOK, BreakerShut, [Next]_vars PROVE BreakerShut'
  OBVIOUS
<1>1. CASE UNCHANGED h2Vars
  BY <1>1 DEF BreakerShut, h2Vars
<1>2. ASSUME NEW c \in Calls, h2BackoffLeft(c) PROVE BreakerShut'
  BY <1>2 DEF BreakerShut, h2BackoffLeft, BackoffEnds
<1>3. ASSUME NEW c \in Calls, ensureH2(c) PROVE BreakerShut'
  <2>1. CASE h2Client
    BY <1>3, <2>1 DEF BreakerShut, ensureH2
  <2>2. CASE ~h2Client
    <3>1. h2Client' = (h2Backoff' = 0)
      BY <1>3, <2>2 DEF ensureH2
    <3>2. h2Backoff' > 0 => ~(h2Backoff' = 0)
      OBVIOUS
    <3> QED
      BY <3>1, <3>2, Zenon DEF BreakerShut
  <2> QED
    BY <2>1, <2>2
<1>4. CASE resetH2
  BY <1>4 DEF BreakerShut, resetH2
<1>5. ASSUME NEW c \in Calls, h2Answers(c) \/ RestartH2(c) PROVE BreakerShut'
  BY <1>5 DEF BreakerShut, h2Answers, RestartH2
<1> QED
  BY <1>1, <1>2, <1>3, <1>4, <1>5
     DEF Next, H2Step, HTTP1Step, EndStep, Begin, h2Fails, h2ScriptError, AcquirePops, Dial,
         DialFails, Write, WriteFails, ReadFails, Read, FollowRedirect, GiveBack, Return,
         HTTP1ScriptError, PingOk, PingFails, Restart, Close, vars, h2Vars

(* While the breaker is open there is no HTTP/2 client, whichever of any   *)
(* number of calls fail, succeed or restart the relay meanwhile            *)
(* (gas_relay.go:248-323).                                                 *)
THEOREM BreakerAlwaysShut == Spec => []BreakerShut
<1>1. Init => BreakerShut
  BY DEF Init, BreakerShut
<1> QED
  BY <1>1, BreakerNext, TransportTypeCorrect, PTL DEF Spec

-----------------------------------------------------------------------------
(* Connections.                                                            *)

LEMMA ConnInit == Init => CInv
<1> SUFFICES ASSUME Init PROVE CInv
  OBVIOUS
<1> USE TransportAssumption DEF TransportAssumption
<1>1. TypeOK
  BY TypeInit
<1>2. pool = <<pool[1]>> /\ Len(pool) = 1
  BY DEF Init
<1>3. Holding
  BY DEF Init, Holding, Outside
<1>4. Apart
  BY <1>2 DEF Init, Apart
<1>5. ToSet(pool) = {pool[1]}
  BY <1>2 DEF ToSet
<1>6. Found
  <2>1. \A k \in Conns : net[k] = "open" => k = pool[1]
    BY <1>5 DEF Init
  <2>2. 1 \in 1..Len(pool)
    BY <1>2
  <2> QED
    BY <2>1, <2>2 DEF Found
<1>7. PoolBounded
  BY <1>2 DEF PoolBounded
<1> QED
  BY <1>1, <1>3, <1>4, <1>6, <1>7 DEF CInv

(* A step that leaves the connections alone and keeps the call outside     *)
(* relayHTTP1, or lets it begin one. *)
LEMMA ConnUntouched ==
  ASSUME CInv, NEW c \in Calls, NEW label, Goto(c, label), pc[c] \in Outside,
         label \in Outside \cup {"acquire"}, UNCHANGED <<connVars, stage>>, TypeOK'
  PROVE  CInv'
<1> USE DEF CInv, connVars
<1>1. /\ \A d \in Calls : pc'[d] = IF d = c THEN label ELSE pc[d]
      /\ conn' = conn /\ conn2' = conn2 /\ net' = net /\ pool' = pool /\ stage' = stage
  BY DEF Goto, TypeOK
<1>2. Holding'
  BY <1>1 DEF Holding, Gone, Current, Outside
<1>3. Apart' /\ Found' /\ PoolBounded'
  BY <1>1 DEF Apart, Found, Current, PoolBounded
<1> QED
  BY <1>2, <1>3

(* Which variable takes a connection depends on the stage. *)
LEMMA TakeIs ==
  ASSUME TypeOK, NEW c \in Calls, NEW k, Take(c, k)
  PROVE  /\ \A d \in Calls : conn'[d] = IF d = c /\ stage[c] # 3 THEN k ELSE conn[d]
         /\ \A d \in Calls : conn2'[d] = IF d = c /\ stage[c] = 3 THEN k ELSE conn2[d]
<1>1. CASE stage[c] = 3
  BY <1>1 DEF Take, Set, TypeOK
<1>2. CASE stage[c] # 3
  BY <1>2 DEF Take, Set, TypeOK
<1> QED
  BY <1>1, <1>2

(* acquireConn takes the last connection of the pool: the call works with  *)
(* it, or it is closed. *)
LEMMA ConnPops ==
  ASSUME CInv, NEW c \in Calls, AcquirePops(c), TypeOK'
  PROVE  CInv'
<1> DEFINE k == Last(pool)
           n == Len(pool)
<1>0. TypeOK /\ Holding /\ Apart /\ Found /\ PoolBounded
  BY DEF CInv
<1>1. /\ n \in Nat \ {0} /\ k = pool[n] /\ k \in Conns \cup {Nil}
      /\ Len(pool') = n - 1 /\ \A i \in 1..n-1 : pool'[i] = pool[i]
  BY <1>0, PoolPops DEF AcquirePops
<1>2. stage' = stage /\ pc[c] = "acquire"
  BY DEF AcquirePops, callVars, At
<1>3. PoolBounded'
  BY <1>0, <1>1, TransportAssumption DEF PoolBounded, TransportAssumption
<1>4. \/ k = Nil /\ UNCHANGED <<pc, conn, conn2, net>>
      \/ k # Nil /\ Goto(c, "write") /\ Take(c, k) /\ UNCHANGED net
      \/ k # Nil /\ CloseConn(k) /\ UNCHANGED <<pc, conn, conn2>>
  BY DEF AcquirePops
<1> HIDE DEF k, n
<1>5. CASE k = Nil /\ UNCHANGED <<pc, conn, conn2, net>>
  <2>1. Holding'
    BY <1>0, <1>2, <1>5 DEF Holding, Gone, Current
  <2>2. Apart'
    BY <1>0, <1>1, <1>5 DEF Apart, n
  <2>3. Found'
    <3> SUFFICES ASSUME NEW m \in Conns, net'[m] = "open"
                 PROVE  (\E d \in Calls : Current(d)' = m) \/ (\E i \in 1..n-1 : pool'[i] = m)
      BY <1>1 DEF Found, n
    <3>1. m # k
      BY <1>5, TransportAssumption DEF TransportAssumption
    <3>2. (\E d \in Calls : Current(d) = m) \/ (\E i \in 1..n : pool[i] = m)
      BY <1>0, <1>5 DEF Found, n
    <3>3. \A d \in Calls : Current(d)' = Current(d)
      BY <1>2, <1>5 DEF Current
    <3> QED
      BY <1>1, <3>1, <3>2, <3>3
  <2> QED
    BY <1>3, <2>1, <2>2, <2>3 DEF CInv
<1>6. CASE k # Nil /\ CloseConn(k) /\ UNCHANGED <<pc, conn, conn2>>
  <2>1. \A m \in Conns : net'[m] = IF m = k THEN "closed" ELSE net[m]
    BY <1>6 DEF CloseConn
  <2>2. Holding'
    <3>1. \A d \in Calls : conn[d] \in Conns \cup {Nil} /\ conn2[d] \in Conns \cup {Nil}
      BY <1>0, SMTT(30) DEF TypeOK
    <3>2. \A d \in Calls : (Gone(conn[d]) => Gone(conn[d])') /\ (Gone(conn2[d]) => Gone(conn2[d])')
      BY <1>6, <2>1, <3>1 DEF Gone
    <3>3. \A d \in Calls : Current(d)' = Current(d)
      BY <1>2, <1>6 DEF Current
    <3> QED
      BY <1>0, <1>2, <1>6, <3>2, <3>3 DEF Holding
  <2>3. Apart'
    BY <1>0, <1>1, <1>6 DEF Apart, n
  <2>4. Found'
    BY <1>0, <1>1, <1>2, <1>6, <2>1 DEF Found, Current, n
  <2> QED
    BY <1>3, <2>2, <2>3, <2>4 DEF CInv
<1>7. CASE k # Nil /\ Goto(c, "write") /\ Take(c, k) /\ UNCHANGED net
  <2>1. \A d \in Calls : pc'[d] = IF d = c THEN "write" ELSE pc[d]
    BY <1>0, <1>7 DEF Goto, TypeOK
  <2>2. /\ \A d \in Calls : conn'[d] = IF d = c /\ stage[c] # 3 THEN k ELSE conn[d]
        /\ \A d \in Calls : conn2'[d] = IF d = c /\ stage[c] = 3 THEN k ELSE conn2[d]
    BY <1>0, <1>7, TakeIs
  <2>3. \A d \in Calls : k # conn[d] /\ k # conn2[d]
    BY <1>0, <1>1, <1>7 DEF Apart, n
  <2>4. \A i \in 1..n-1 : pool[i] # k
    BY <1>0, <1>1, <1>7 DEF Apart, n
  <2>5. Holding'
    BY <1>0, <1>2, <1>7, <2>1, <2>2 DEF Holding, Gone, Current, Outside
  <2>6. Apart'
    BY <1>0, <1>1, <2>2, <2>3, <2>4, SMTT(30) DEF Apart, n
  <2>7. Found'
    <3> SUFFICES ASSUME NEW m \in Conns, net'[m] = "open"
                 PROVE  (\E d \in Calls : Current(d)' = m) \/ (\E i \in 1..n-1 : pool'[i] = m)
      BY <1>1 DEF Found, n
    <3>1. CASE m = k
      BY <1>2, <2>2, <3>1 DEF Current
    <3>2. CASE \E i \in 1..n : pool[i] = m /\ m # k
      BY <1>1, <3>2
    <3>3. CASE \E d \in Calls : Current(d) = m
      <4> PICK d \in Calls : Current(d) = m
        BY <3>3
      <4>1. d # c
        BY <1>0, <1>2, <1>7, TransportAssumption DEF Holding, Gone, Current, TransportAssumption
      <4> QED
        BY <1>2, <2>2, <4>1 DEF Current
    <3> QED
      BY <1>0, <1>7, <3>1, <3>2, <3>3 DEF Found, n
  <2> QED
    BY <1>3, <2>5, <2>6, <2>7 DEF CInv
<1> QED
  BY <1>4, <1>5, <1>6, <1>7

(* An empty pool: the call dials. *)
LEMMA ConnDials ==
  ASSUME CInv, NEW c \in Calls, Dial(c), TypeOK'
  PROVE  CInv'
<1> DEFINE k == CHOOSE n \in Unused : TRUE
<1>0. TypeOK /\ Holding /\ Apart /\ Found /\ PoolBounded
  BY DEF CInv
<1>1. k \in Unused
  BY DEF Dial
<1>2. /\ stage' = stage /\ pc[c] = "acquire" /\ pool' = pool /\ pool = <<>>
      /\ net' = [net EXCEPT ![k] = "open"] /\ Take(c, k) /\ Goto(c, "write")
  BY DEF Dial, callVars, At, Set
<1> HIDE DEF k
<1>3. k \in Conns /\ k # Nil /\ \A d \in Calls : k # conn[d] /\ k # conn2[d]
  BY <1>1, TransportAssumption DEF Unused, TransportAssumption
<1>4. /\ \A d \in Calls : pc'[d] = IF d = c THEN "write" ELSE pc[d]
      /\ \A m \in Conns : net'[m] = IF m = k THEN "open" ELSE net[m]
  BY <1>0, <1>2 DEF Goto, TypeOK
<1>5. /\ \A d \in Calls : conn'[d] = IF d = c /\ stage[c] # 3 THEN k ELSE conn[d]
      /\ \A d \in Calls : conn2'[d] = IF d = c /\ stage[c] = 3 THEN k ELSE conn2[d]
  BY <1>0, <1>2, TakeIs
<1>6. Holding'
  BY <1>0, <1>2, <1>3, <1>4, <1>5 DEF Holding, Gone, Current, Outside, TypeOK
<1>7. Apart' /\ PoolBounded'
  BY <1>0, <1>2, <1>3, <1>5 DEF Apart, PoolBounded
<1>8. Found'
  <2> SUFFICES ASSUME NEW m \in Conns, net'[m] = "open"
               PROVE  \E d \in Calls : Current(d)' = m
    BY DEF Found
  <2>1. CASE m = k
    BY <1>2, <1>5, <2>1 DEF Current
  <2>2. CASE m # k
    <3> PICK d \in Calls : Current(d) = m
      BY <1>0, <1>2, <1>4, <2>2 DEF Found
    <3>1. d # c
      BY <1>0, <1>2, <1>4, <2>2, TransportAssumption
         DEF Holding, Gone, Current, TransportAssumption
    <3> QED
      BY <1>2, <1>5, <3>1 DEF Current
  <2> QED
    BY <2>1, <2>2
<1> QED
  BY <1>6, <1>7, <1>8 DEF CInv

(* A failed dial: the first connection was closed before, if there was one. *)
LEMMA ConnDialFails ==
  ASSUME CInv, NEW c \in Calls, DialFails(c), TypeOK'
  PROVE  CInv'
<1>0. TypeOK /\ Holding /\ Apart /\ Found /\ PoolBounded
  BY DEF CInv
<1>1. /\ stage' = stage /\ pc[c] = "acquire" /\ pool' = pool /\ net' = net /\ conn2' = conn2
      /\ \A d \in Calls : pc'[d] = IF d = c THEN (IF stage[c] = 1 THEN "failed" ELSE "giveback")
                                   ELSE pc[d]
      /\ \A d \in Calls : conn'[d] = IF d = c /\ stage[c] # 3 THEN Nil ELSE conn[d]
  BY <1>0 DEF DialFails, callVars, At, Set, Goto, TypeOK
<1>2. Holding'
  BY <1>0, <1>1, SMTT(30) DEF Holding, Gone, Current, Outside, TypeOK
<1>3. Apart' /\ PoolBounded'
  BY <1>0, <1>1 DEF Apart, PoolBounded
<1>4. Found'
  <2> SUFFICES ASSUME NEW m \in Conns, net[m] = "open", NEW d \in Calls, Current(d) = m
               PROVE  Current(d)' = m
    BY <1>0, <1>1 DEF Found
  <2>1. d # c
    BY <1>0, <1>1, TransportAssumption DEF Holding, Gone, Current, TransportAssumption
  <2> QED
    BY <1>1, <2>1 DEF Current
<1> QED
  BY <1>2, <1>3, <1>4 DEF CInv

(* The connection a call works with is closed: the call goes on with its   *)
(* next one, or gives up. *)
LEMMA ConnCloses ==
  ASSUME CInv, NEW c \in Calls, WriteFails(c) \/ ReadFails(c), TypeOK'
  PROVE  CInv'
<1> DEFINE k == Current(c)
<1>0. TypeOK /\ Holding /\ Apart /\ Found /\ PoolBounded
  BY DEF CInv
<1>1. /\ pool' = pool /\ conn' = conn /\ conn2' = conn2 /\ pc[c] \in {"write", "read"}
      /\ \A m \in Conns : net'[m] = IF m = k THEN "closed" ELSE net[m]
      /\ \A d \in Calls : d # c => pc'[d] = pc[d] /\ stage'[d] = stage[d]
  BY <1>0, SMTT(30) DEF WriteFails, ReadFails, CloseConn, At, Goto, Set, TypeOK
<1>2. \/ stage[c] # 3 /\ pc'[c] = "acquire" /\ stage'[c] \in {2, 3}
      \/ stage[c] # 1 /\ pc'[c] = "giveback" /\ stage'[c] = stage[c]
  BY <1>0 DEF WriteFails, ReadFails, Goto, Set, TypeOK
<1>3. k = (IF stage[c] = 3 THEN conn2[c] ELSE conn[c])
  BY DEF Current
<1> HIDE DEF k
<1>4. Holding'
  <2> SUFFICES ASSUME NEW d \in Calls
               PROVE  /\ pc'[d] \in Outside => stage'[d] = 1 /\ conn[d] = Nil /\ conn2[d] = Nil
                      /\ stage'[d] # 3 => conn2[d] = Nil
                      /\ pc'[d] = "acquire" => Gone(conn[d])' /\ conn2[d] = Nil
                      /\ pc'[d] \in {"write", "read"} =>
                           Current(d)' # Nil /\ (stage'[d] = 3 => Gone(conn[d])')
                      /\ pc'[d] = "giveback" => Gone(conn[d])' /\ Gone(conn2[d])'
    BY <1>1 DEF Holding
  <2>1. conn[d] \in Conns \cup {Nil} /\ conn2[d] \in Conns \cup {Nil}
    BY <1>0, SMTT(30) DEF TypeOK
  <2>2. /\ Gone(conn[d]) => Gone(conn[d])'
        /\ Gone(conn2[d]) => Gone(conn2[d])'
    BY <1>1, <2>1 DEF Gone
  <2>3. CASE d # c
    BY <1>0, <1>1, <2>2, <2>3 DEF Holding, Current
  <2>4. CASE d = c
    <3>1. k # Nil => net'[k] = "closed"
      BY <1>1, <1>3, <2>1, <2>4
    <3> QED
      BY <1>0, <1>1, <1>2, <1>3, <2>2, <2>4, <3>1 DEF Holding, Outside, Gone
  <2> QED
    BY <2>3, <2>4
<1>5. Apart' /\ PoolBounded'
  BY <1>0, <1>1 DEF Apart, PoolBounded
<1>6. Found'
  <2> SUFFICES ASSUME NEW m \in Conns, net[m] = "open", m # k, NEW d \in Calls, Current(d) = m
               PROVE  Current(d)' = m
    BY <1>0, <1>1 DEF Found
  <2>1. d # c
    BY DEF k
  <2> QED
    BY <1>1, <2>1 DEF Current
<1> QED
  BY <1>4, <1>5, <1>6 DEF CInv

(* A connection is released by the call that had it: into the pool, or     *)
(* closed when the pool is full. *)
LEMMA ConnReleased ==
  ASSUME CInv, NEW c \in Calls, NEW k, k \in {conn[c], conn2[c]},
         \A m \in {conn[c], conn2[c]} : m = k \/ Gone(m),
         releaseConn(k), Forget(c), stage' = Set(stage, c, 1),
         NEW label \in Outside \cup {"acquire"}, Goto(c, label), TypeOK'
  PROVE  CInv'
<1> DEFINE n == Len(pool)
<1>0. TypeOK /\ Holding /\ Apart /\ Found /\ PoolBounded /\ n \in Nat
  BY SMTT(30) DEF CInv, TypeOK
<1>1. /\ \A d \in Calls : pc'[d] = IF d = c THEN label ELSE pc[d]
      /\ \A d \in Calls : conn'[d] = IF d = c THEN Nil ELSE conn[d]
      /\ \A d \in Calls : conn2'[d] = IF d = c THEN Nil ELSE conn2[d]
      /\ \A d \in Calls : stage'[d] = IF d = c THEN 1 ELSE stage[d]
      /\ k \in Conns \cup {Nil}
  BY <1>0, SMTT(30) DEF Forget, Goto, Set, TypeOK
<1>2. \/ /\ n < PoolMax /\ Len(pool') = n + 1 /\ pool'[n+1] = k /\ net' = net
         /\ \A i \in 1..n : pool'[i] = pool[i]
      \/ /\ pool' = pool
         /\ \A m \in Conns : net'[m] = IF m = k THEN "closed" ELSE net[m]
  BY <1>0, <1>1, SMTT(30) DEF releaseConn, CloseConn, TypeOK
<1>3. \A d \in Calls : d # c => Current(d)' = Current(d)
  BY <1>1 DEF Current
<1>4. \A m \in Conns : net[m] = "closed" => net'[m] = "closed"
  BY <1>2
<1>5. Holding'
  <2>1. \A d \in Calls : conn[d] \in Conns \cup {Nil} /\ conn2[d] \in Conns \cup {Nil}
    BY <1>0, SMTT(30) DEF TypeOK
  <2>2. \A d \in Calls : (Gone(conn[d]) /\ conn[d] # Nil => net'[conn[d]] = "closed")
                       /\ (Gone(conn2[d]) /\ conn2[d] # Nil => net'[conn2[d]] = "closed")
    BY <1>4, <2>1 DEF Gone
  <2> QED
    BY <1>0, <1>1, <1>3, <2>2 DEF Holding, Outside, Gone
<1>6. PoolBounded'
  BY <1>0, <1>2, TransportAssumption DEF PoolBounded, TransportAssumption
<1>7. Apart'
  <2>1. CASE pool' = pool
    BY <1>0, <1>1, <2>1 DEF Apart
  <2>2. CASE /\ Len(pool') = n + 1 /\ pool'[n+1] = k
             /\ \A i \in 1..n : pool'[i] = pool[i]
    <3>1. \A d \in Calls : k # Nil => k # conn'[d] /\ k # conn2'[d]
      BY <1>0, <1>1 DEF Apart
    <3>2. \A i \in 1..n : k # Nil => pool[i] # k
      BY <1>0 DEF Apart
    <3>3. \A i \in 1..n+1 : i \in 1..n \/ i = n+1
      BY <1>0
    <3> QED
      BY <1>0, <1>1, <2>2, <3>1, <3>2, <3>3, SMTT(30) DEF Apart
  <2> QED
    BY <1>2, <2>1, <2>2
<1>8. Found'
  <2> SUFFICES ASSUME NEW m \in Conns, net'[m] = "open"
               PROVE  \/ \E d \in Calls : Current(d)' = m
                      \/ \E i \in 1..Len(pool') : pool'[i] = m
    BY DEF Found
  <2>1. CASE \E d \in Calls : Current(d) = m /\ d # c
    BY <1>3, <2>1
  <2>2. CASE Current(c) = m
    <3>1. m \in {conn[c], conn2[c]} /\ m # Nil /\ net[m] = "open"
      BY <1>2, <1>4, <2>2, TransportAssumption DEF Current, TransportAssumption
    <3>2. m = k
      BY <3>1 DEF Gone
    <3> QED
      BY <1>0, <1>2, <3>2
  <2>3. CASE \E i \in 1..n : pool[i] = m
    BY <1>0, <1>2, <2>3
  <2> QED
    BY <1>0, <1>2, <2>1, <2>2, <2>3 DEF Found
<1> QED
  BY <1>5, <1>6, <1>7, <1>8 DEF CInv

(* The pool is emptied by restart and by close, whatever the calls hold. *)
LEMMA ConnEmptied ==
  ASSUME CInv, EmptyPool, UNCHANGED <<conn, conn2, stage>>,
         \A d \in Calls : pc'[d] = pc[d] \/ (pc[d] \in Outside /\ pc'[d] \in Outside), TypeOK'
  PROVE  CInv'
<1>0. TypeOK /\ Holding /\ Apart /\ Found /\ PoolBounded
  BY DEF CInv
<1>1. /\ pool' = <<>> /\ ToSet(pool) = {pool[i] : i \in 1..Len(pool)}
      /\ \A k \in Conns : net'[k] = IF k \in ToSet(pool) THEN "closed" ELSE net[k]
  BY <1>0 DEF EmptyPool, ToSet, TypeOK
<1>2. \A d \in Calls : conn[d] \in Conns \cup {Nil} /\ conn2[d] \in Conns \cup {Nil}
  BY <1>0 DEF TypeOK
<1>3. \A k \in Conns : net[k] = "closed" => net'[k] = "closed"
  BY <1>1
<1>4. Holding'
  BY <1>0, <1>2, <1>3 DEF Holding, Gone, Current, Outside
<1>5. Apart' /\ PoolBounded'
  BY <1>0, <1>1, TransportAssumption DEF Apart, PoolBounded, TransportAssumption
<1>6. Found'
  BY <1>0, <1>1 DEF Found, Current
<1> QED
  BY <1>4, <1>5, <1>6 DEF CInv

LEMMA ConnNext == CInv /\ [Next]_vars => CInv'
<1> SUFFICES ASSUME CInv, [Next]_vars PROVE CInv'
  OBVIOUS
<1>0. TypeOK /\ TypeOK'
  BY TypeNext DEF CInv
<1>1. CASE Close
  BY <1>0, <1>1, ConnEmptied DEF Close, callVars
<1>2. CASE UNCHANGED vars
  <2>1. CInv' = CInv
    BY <1>2 DEF CInv, TypeOK, Holding, Apart, Found, PoolBounded, Gone, Current,
                vars, callVars, connVars, h2Vars, scriptVars, restVars
  <2> QED
    BY <2>1
<1>3. ASSUME NEW c \in Calls, Begin(c) \/ H2Step(c) \/ HTTP1Step(c) \/ EndStep(c)
      PROVE  CInv'
  <2>1. CASE Begin(c) \/ H2Step(c)
    <3>1. /\ pc[c] \in Outside /\ UNCHANGED <<connVars, stage>>
          /\ \E label \in Outside \cup {"acquire"} : Goto(c, label)
      BY <2>1 DEF Begin, H2Step, h2BackoffLeft, ensureH2, h2Fails, h2Answers, h2ScriptError, At,
                  Outside, callVars
    <3> QED
      BY <1>0, <3>1, ConnUntouched
  <2>2. CASE AcquirePops(c) \/ Dial(c) \/ DialFails(c)
    BY <1>0, <2>2, ConnPops, ConnDials, ConnDialFails
  <2>3. CASE WriteFails(c) \/ ReadFails(c)
    BY <1>0, <2>3, ConnCloses
  <2>4. CASE Write(c)
    <3>1. /\ \A d \in Calls : pc'[d] = IF d = c THEN "read" ELSE pc[d]
          /\ conn' = conn /\ conn2' = conn2 /\ net' = net /\ pool' = pool /\ stage' = stage
          /\ pc[c] = "write"
      BY <1>0, <2>4 DEF Write, Goto, At, connVars, TypeOK
    <3>2. Holding'
      BY <3>1 DEF CInv, Holding, Gone, Current, Outside
    <3>3. Apart' /\ Found' /\ PoolBounded'
      BY <3>1 DEF CInv, Apart, Found, Current, PoolBounded
    <3> QED
      BY <1>0, <3>2, <3>3 DEF CInv
  <2>5. CASE Read(c) \/ FollowRedirect(c)
    <3>1. /\ Current(c) \in {conn[c], conn2[c]}
          /\ \A m \in {conn[c], conn2[c]} : m = Current(c) \/ Gone(m)
      BY <1>0, <2>5 DEF Read, FollowRedirect, At, CInv, Holding, Current, Gone
    <3>2. /\ releaseConn(Current(c)) /\ Forget(c) /\ stage' = Set(stage, c, 1)
          /\ \E label \in Outside \cup {"acquire"} : Goto(c, label)
      BY <2>5 DEF Read, FollowRedirect, Outside
    <3> QED
      BY <1>0, <3>1, <3>2, ConnReleased
  <2>6. CASE GiveBack(c)
    <3>1. /\ conn[c] \in {conn[c], conn2[c]}
          /\ \A m \in {conn[c], conn2[c]} : m = conn[c] \/ Gone(m)
      BY <1>0, <2>6 DEF GiveBack, At, CInv, Holding
    <3>2. /\ releaseConn(conn[c]) /\ Forget(c) /\ stage' = Set(stage, c, 1)
          /\ \E label \in Outside \cup {"acquire"} : Goto(c, label)
      BY <2>6 DEF GiveBack, Outside
    <3> QED
      BY <1>0, <3>1, <3>2, ConnReleased
  <2>7. CASE Return(c) \/ HTTP1ScriptError(c) \/ PingOk(c) \/ PingFails(c) \/ RestartH2(c)
    <3>1. /\ pc[c] \in Outside /\ UNCHANGED <<connVars, stage>>
          /\ \E label \in Outside \cup {"acquire"} : Goto(c, label)
      BY <2>7 DEF Return, HTTP1ScriptError, PingOk, PingFails, RestartH2, Finish, At, Outside,
                  callVars
    <3> QED
      BY <1>0, <3>1, ConnUntouched
  <2>8. CASE Restart(c)
    <3>1. EmptyPool /\ UNCHANGED <<conn, conn2, stage>>
      BY <2>8 DEF Restart, Finish
    <3>2. \A d \in Calls : pc'[d] = pc[d] \/ (pc[d] \in Outside /\ pc'[d] \in Outside)
      BY <1>0, <2>8 DEF Restart, Finish, At, Goto, Outside, TypeOK
    <3> QED
      BY <1>0, <3>1, <3>2, ConnEmptied
  <2> QED
    BY <1>3, <2>1, <2>2, <2>3, <2>4, <2>5, <2>6, <2>7, <2>8 DEF HTTP1Step, EndStep
<1> QED
  BY <1>1, <1>2, <1>3 DEF Next

(* At most one place of the two kinds. *)
LEMMA AtMostOne ==
  ASSUME NEW S, NEW T, \A x, y \in S : x = y, \A x, y \in T : x = y, S = {} \/ T = {}
  PROVE  Cardinality(S) + Cardinality(T) <= 1
<1>1. ASSUME NEW U, \A x, y \in U : x = y
      PROVE  Cardinality(U) \in 0..1 /\ (U = {} => Cardinality(U) = 0)
  <2>1. CASE U = {}
    BY <2>1, FS_EmptySet
  <2>2. CASE U # {}
    <3> PICK x : x \in U
      BY <2>2
    <3>1. U = {x}
      BY <1>1
    <3> QED
      BY <2>2, <3>1, FS_Singleton
  <2> QED
    BY <2>1, <2>2
<1> QED
  BY <1>1

LEMMA ConnImplies == CInv => ConnOwned
<1> SUFFICES ASSUME CInv PROVE ConnOwned
  OBVIOUS
<1>0. TypeOK /\ Holding /\ Apart /\ Found /\ PoolBounded
  BY DEF CInv
<1>1. DOMAIN pool = 1..Len(pool)
  BY <1>0 DEF TypeOK
<1>2. ConnExclusive
  <2> SUFFICES ASSUME NEW k \in Conns PROVE Cardinality(Uses(k)) + Cardinality(InPool(k)) <= 1
    BY DEF ConnExclusive
  <2>0. k # Nil
    BY TransportAssumption DEF TransportAssumption
  <2>1. \A c, d \in Uses(k) : c = d
    BY <1>0, <2>0 DEF Uses, Current, Apart
  <2>2. \A i, j \in InPool(k) : i = j
    BY <1>0, <1>1, <2>0 DEF InPool, Apart
  <2>3. Uses(k) = {} \/ InPool(k) = {}
    BY <1>0, <1>1, <2>0 DEF Uses, InPool, Current, Apart
  <2> QED
    BY <2>1, <2>2, <2>3, AtMostOne
<1>3. NoConnLeak
  <2> SUFFICES ASSUME NEW k \in Conns, net[k] # "closed"
               PROVE  Uses(k) # {} \/ InPool(k) # {}
    BY DEF NoConnLeak
  <2>1. net[k] = "open"
    BY <1>0 DEF TypeOK
  <2> QED
    BY <1>0, <1>1, <2>1 DEF Found, Uses, InPool
<1> QED
  BY <1>0, <1>2, <1>3 DEF ConnOwned

(* With any number of calls, connections and failures, an open connection  *)
(* is in the pool once or with one call, never with two and never lost,    *)
(* and the pool keeps its limit (gas_relay.go:936-1066, 1440-1501).        *)
THEOREM ConnAlwaysOwned == Spec => []ConnOwned
BY ConnInit, ConnNext, ConnImplies, PTL DEF Spec

-----------------------------------------------------------------------------
(* The sends of a call.                                                    *)

(* What a step changes of the counters of its own call, and of no other. *)
OnlyOf(c) ==
  \A d \in Calls \ {c} :
    /\ pc'[d] = pc[d] /\ again'[d] = again[d] /\ stage'[d] = stage[d]
    /\ writes'[d] = writes[d]

LEMMA OnlyOneCall ==
  ASSUME TypeOK, NEW c \in Calls, Begin(c) \/ H2Step(c) \/ HTTP1Step(c) \/ EndStep(c)
  PROVE  OnlyOf(c)
<1>0. CallTypes
  BY TypeParts
<1> USE <1>0 DEF CallTypes, Goto, Set, callVars, OnlyOf
<1>1. CASE Begin(c)
  BY <1>1 DEF Begin
<1>2. CASE h2BackoffLeft(c) \/ h2Fails(c) \/ h2Answers(c)
  BY <1>2 DEF h2BackoffLeft, h2Fails, h2Answers
<1>3. CASE ensureH2(c)
  BY <1>3 DEF ensureH2
<1>4. CASE h2ScriptError(c) \/ HTTP1ScriptError(c)
  BY <1>4 DEF h2ScriptError, HTTP1ScriptError, retryWithNextScript
<1>5. CASE AcquirePops(c)
  BY <1>5 DEF AcquirePops
<1>6. CASE Dial(c) \/ DialFails(c)
  <2>1. UNCHANGED callVars /\ \E label : Goto(c, label)
    BY <1>6 DEF Dial, DialFails
  <2> QED
    BY <2>1
<1>7. CASE Write(c)
  BY <1>7 DEF Write
<1>8. CASE WriteFails(c) \/ ReadFails(c)
  BY <1>8 DEF WriteFails, ReadFails
<1>9. CASE Read(c) \/ FollowRedirect(c) \/ GiveBack(c)
  BY <1>9 DEF Read, FollowRedirect, GiveBack
<1>10. CASE Return(c) \/ PingOk(c) \/ PingFails(c) \/ RestartH2(c) \/ Restart(c)
  BY <1>10 DEF Return, PingOk, PingFails, RestartH2, Restart, Finish
<1> QED
  BY <1>1, <1>2, <1>3, <1>4, <1>5, <1>6, <1>7, <1>8, <1>9, <1>10 DEF H2Step, HTTP1Step, EndStep

LEMMA CountedStep ==
  ASSUME TypeOK, Counted, NEW c \in Calls, Begin(c) \/ H2Step(c) \/ HTTP1Step(c) \/ EndStep(c)
  PROVE  CountedOf(c)'
<1>0. /\ CallTypes /\ CountedOf(c)
      /\ writes[c] \in Nat /\ stage[c] \in 1..3
      /\ again[c] \in {"no", "h2", "http1"} /\ Kind[c] \in {"single", "ping", "http1"}
  BY TypeParts, TransportAssumption DEF Counted, CallTypes, TransportAssumption
<1> USE <1>0 DEF CallTypes, Goto, At, Set, callVars, CountedOf, Base, Round, Tries, Outside
<1>1. CASE Begin(c)
  BY <1>1 DEF Begin
<1>2. CASE h2BackoffLeft(c)
  BY <1>2 DEF h2BackoffLeft
<1>3. CASE ensureH2(c)
  BY <1>3 DEF ensureH2
<1>4. CASE h2Fails(c) \/ h2Answers(c)
  BY <1>4 DEF h2Fails, h2Answers
<1>5. CASE h2ScriptError(c)
  BY <1>5 DEF h2ScriptError, retryWithNextScript
<1>6. CASE HTTP1ScriptError(c)
  BY <1>6 DEF HTTP1ScriptError, retryWithNextScript
<1>7. CASE AcquirePops(c)
  BY <1>7 DEF AcquirePops
<1>8. CASE Dial(c)
  BY <1>8 DEF Dial
<1>9. CASE DialFails(c)
  BY <1>9 DEF DialFails
<1>10. CASE Write(c)
  BY <1>10 DEF Write
<1>11. CASE WriteFails(c)
  BY <1>11 DEF WriteFails
<1>12. CASE ReadFails(c)
  BY <1>12 DEF ReadFails
<1>13. CASE Read(c)
  BY <1>13 DEF Read
<1>14. CASE GiveBack(c)
  BY <1>14 DEF GiveBack
<1>16. CASE FollowRedirect(c)
  BY <1>16 DEF FollowRedirect
<1>15. CASE Return(c) \/ PingOk(c) \/ PingFails(c) \/ RestartH2(c) \/ Restart(c)
  BY <1>15 DEF Return, PingOk, PingFails, RestartH2, Restart, Finish
<1> QED
  BY <1>1, <1>2, <1>3, <1>4, <1>5, <1>6, <1>7, <1>8, <1>9, <1>10, <1>11, <1>12, <1>13, <1>14,
     <1>15, <1>16 DEF H2Step, HTTP1Step, EndStep

LEMMA CountedNext == TypeOK /\ Counted /\ [Next]_vars => Counted'
<1> SUFFICES ASSUME TypeOK, Counted, [Next]_vars PROVE Counted'
  OBVIOUS
<1>1. CASE Close \/ UNCHANGED vars
  <2>1. UNCHANGED <<pc, again, stage, writes>>
    BY <1>1 DEF Close, vars, callVars
  <2> QED
    BY <2>1 DEF Counted, CountedOf, Base, Round, Tries
<1>2. ASSUME NEW c \in Calls, Begin(c) \/ H2Step(c) \/ HTTP1Step(c) \/ EndStep(c)
      PROVE  Counted'
  <2> SUFFICES ASSUME NEW d \in Calls PROVE CountedOf(d)'
    BY DEF Counted
  <2>1. CASE d = c
    BY <1>2, <2>1, CountedStep
  <2>2. CASE d # c
    <3>1. /\ pc'[d] = pc[d] /\ again'[d] = again[d] /\ stage'[d] = stage[d]
          /\ writes'[d] = writes[d]
      BY <1>2, <2>2, OnlyOneCall DEF OnlyOf
    <3> QED
      BY <3>1 DEF Counted, CountedOf, Base, Round, Tries
  <2> QED
    BY <2>1, <2>2
<1> QED
  BY <1>1, <1>2 DEF Next

LEMMA CountedImplies == TypeOK /\ Counted => SendsBounded
<1> SUFFICES ASSUME TypeOK, Counted, NEW c \in Calls
             PROVE  writes[c] <= CASE Kind[c] = "single" -> 6
                                   [] Kind[c] = "ping" -> 3
                                   [] OTHER -> 2
  BY DEF SendsBounded
<1>0. /\ CountedOf(c) /\ writes[c] \in Nat /\ stage[c] \in 1..3
      /\ again[c] \in {"no", "h2", "http1"} /\ Kind[c] \in {"single", "ping", "http1"}
      /\ pc[c] \in {"new", "h2", "ensure", "reply", "acquire", "write", "read", "giveback",
                    "h2answer", "answer", "failed", "restart", "done"}
  BY TransportAssumption DEF Counted, TypeOK, TransportAssumption
<1>1. Round(c) \in 0..2 /\ (pc[c] \in {"h2", "ensure", "reply", "h2answer"} => Tries(c) \in 0..2)
  BY <1>0 DEF Round, Tries
<1>2. CASE Kind[c] = "single"
  <2>1. Base(c) \in 0..4
    BY <1>2 DEF Base
  <2>2. writes[c] <= 6
    BY <1>0, <1>1, <2>1 DEF CountedOf
  <2> QED
    BY <1>2, <2>2
<1>3. CASE Kind[c] = "ping"
  <2>1. Base(c) = 1
    BY <1>3 DEF Base
  <2>2. writes[c] <= 3
    BY <1>0, <1>1, <1>3, <2>1 DEF CountedOf
  <2> QED
    BY <1>3, <2>2
<1>4. CASE Kind[c] = "http1"
  <2>1. Base(c) = 0
    BY <1>4 DEF Base
  <2>2. writes[c] <= 2
    BY <1>0, <1>1, <1>4, <2>1 DEF CountedOf
  <2> QED
    BY <1>4, <2>2
<1> QED
  BY <1>0, <1>2, <1>3, <1>4

(* However the writes, reads, scripts and redirects fail, one payload is   *)
(* sent at most six times by relaySingle, three times by a ping and twice  *)
(* by relayHTTP1, plus twice for each redirect followed, of which there    *)
(* may be any number (gas_relay.go:717-771, 936-1013).                     *)
THEOREM SendsAlwaysBounded == Spec => []SendsBounded
<1>1. Init => Counted
  BY DEF Init, Counted, CountedOf, Outside
<1> QED
  BY <1>1, CountedNext, CountedImplies, TransportTypeCorrect, PTL DEF Spec

-----------------------------------------------------------------------------
(***************************************************************************)
(* The manager that creates and closes the relay (GASManager), for every   *)
(* number of overlapping Start and Stop calls.                             *)
(***************************************************************************)
(* A relay exists only after its Start has created it. *)
Before == {"idle", "call", "saveFailed", "cancel", "relay"}

CreatedOnce ==
  /\ \A s \in Starts : place[s] \in Before => s \notin created
  /\ relay \in created \cup {None}
  /\ shut \subseteq created

(* What Stop has taken out of m.relay does not come back. *)
TakenAway ==
  \A t \in Stops : held[t].relay # None => held[t].relay \in created /\ held[t].relay # relay

ManagerInv == ManagerTypeOK /\ CreatedOnce /\ TakenAway /\ ActiveRelayOpen

LEMMA ManagerInvInit == ManagerInit => ManagerInv
<1> SUFFICES ASSUME ManagerInit PROVE ManagerInv
  OBVIOUS
<1>1. NoLoop \in [Kinds -> Field]
  BY DEF NoLoop, Field
<1>2. ManagerTypeOK
  BY <1>1 DEF ManagerInit, ManagerTypeOK, Field, PCs, Callers
<1>3. CreatedOnce /\ TakenAway /\ ActiveRelayOpen
  BY DEF ManagerInit, CreatedOnce, TakenAway, ActiveRelayOpen
<1> QED
  BY <1>2, <1>3 DEF ManagerInv

-----------------------------------------------------------------------------
LEMMA GotoType ==
  ASSUME ManagerTypeOK, NEW c \in Callers, NEW label \in PCs, GoOn(c, label)
  PROVE  /\ place' \in [Callers -> PCs] /\ place'[c] = label
         /\ \A d \in Callers : d # c => place'[d] = place[d]
  BY DEF ManagerTypeOK, GoOn

LEMMA TypeStart == ASSUME ManagerTypeOK, NEW s \in Starts, StartStep(s) PROVE ManagerTypeOK'
<1> USE DEF ManagerTypeOK
<1>0. s \in Callers /\ s \in Field /\ None \in Field
  BY DEF Callers, Field
<1>1. place' \in [Callers -> PCs]
  <2> USE <1>0, GotoType DEF PCs
  <2>1. CASE StartSection(s) \/ StartSaveFailed(s) \/ StartSetsCancel(s) \/ StartSetsRelay(s)
    BY <2>1 DEF StartSection, StartSaveFailed, StartSetsCancel, StartSetsRelay
  <2>2. CASE StartSetsProxyServer(s) \/ StartLaunches(s) \/ StartFails(s) \/ StartReady(s) \/ StartStats(s)
    BY <2>2 DEF StartSetsProxyServer, StartLaunches, StartFails, StartReady, StartStats
  <2>3. CASE \E k \in Kinds : StartLoop(s, k)
    BY <2>3 DEF StartLoop, After
  <2> QED
    BY <2>1, <2>2, <2>3 DEF StartStep
<1>2. CASE StartSection(s) \/ StartSaveFailed(s)
  BY <1>1, <1>2 DEF StartSection, StartSaveFailed, InStart, objects
<1>3. CASE StartSetsCancel(s) \/ StartSetsProxyServer(s) \/ StartReady(s)
  BY <1>0, <1>1, <1>3 DEF StartSetsCancel, StartSetsProxyServer, StartReady, objects, fields
<1>4. CASE StartSetsRelay(s)
  BY <1>0, <1>1, <1>4 DEF StartSetsRelay
<1>5. CASE StartLaunches(s) \/ StartStats(s)
  BY <1>1, <1>5 DEF StartLaunches, StartStats, fields
<1>6. CASE StartFails(s)
  BY <1>0, <1>1, <1>6 DEF StartFails, Asked, Field
<1>7. ASSUME NEW k \in Kinds, StartLoop(s, k) PROVE ManagerTypeOK'
  <2>1. loopStop' \in [Kinds -> Field]
    BY <1>0, <1>7 DEF StartLoop
  <2>2. loop' \in [Kinds -> [Starts -> {"none", "running", "ended"}]]
    <3>1. loop' = loop \/ loop' = [loop EXCEPT ![k][s] = "running"]
      BY <1>7 DEF StartLoop
    <3>2. [loop EXCEPT ![k][s] = "running"] \in [Kinds -> [Starts -> {"none", "running", "ended"}]]
      OBVIOUS
    <3> QED
      BY <3>1, <3>2
  <2> QED
    BY <1>1, <1>7, <2>1, <2>2 DEF StartLoop
<1> QED
  BY <1>2, <1>3, <1>4, <1>5, <1>6, <1>7 DEF StartStep

LEMMA ManagerTypeStep == ASSUME ManagerTypeOK, [ManagerNext]_managerVars PROVE ManagerTypeOK'
<1> USE DEF ManagerTypeOK
<1>1. ASSUME NEW c \in Callers, Call(c) PROVE ManagerTypeOK'
  BY <1>1, GotoType DEF Call, PCs, fields, objects
<1>2. ASSUME NEW t \in Stops, StopSection(t) PROVE ManagerTypeOK'
  <2>1. place' \in [Callers -> PCs]
    BY <1>2, GotoType DEF StopSection, PCs, Callers
  <2>2. NoLoop \in [Kinds -> Field] /\ None \in Field
    BY DEF NoLoop, Field
  <2>3. held' \in [Stops -> [relay : Field, proxyServer : Field, cancel : Field,
                            loopStop : [Kinds -> Field]]]
    <3> DEFINE new == [relay |-> relay, proxyServer |-> proxyServer,
                       cancel |-> cancel, loopStop |-> loopStop]
    <3>1. new \in [relay : Field, proxyServer : Field, cancel : Field,
                   loopStop : [Kinds -> Field]]
      OBVIOUS
    <3>2. held' = held \/ held' = [held EXCEPT ![t] = new]
      BY <1>2 DEF StopSection
    <3> HIDE DEF new
    <3> QED
      BY <3>1, <3>2
  <2> QED
    BY <1>2, <2>1, <2>2, <2>3 DEF StopSection, InStart, fields, objects
<1>3. ASSUME NEW t \in Stops, StopCloses(t) PROVE ManagerTypeOK'
  <2>1. place' \in [Callers -> PCs]
    BY <1>3, GotoType DEF StopCloses, PCs, Callers
  <2>2. /\ held[t].relay \in Field /\ held[t].proxyServer \in Field
        /\ held[t].cancel \in Field /\ held[t].loopStop \in [Kinds -> Field]
    OBVIOUS
  <2>3. loopClosed' \in [Kinds -> SUBSET Starts]
    BY <1>3, <2>2 DEF StopCloses, Field
  <2>4. shut' \in SUBSET Starts /\ cancelled' \in SUBSET Starts /\ stopAsked' \in SUBSET Starts
    BY <1>3, <2>2 DEF StopCloses, Field, Asked
  <2> QED
    BY <1>3, <2>1, <2>3, <2>4 DEF StopCloses, fields
<1>4. ASSUME NEW s \in Starts, Background(s) PROVE ManagerTypeOK'
  <2>1. CASE ServerStarts(s)
    BY <2>1 DEF ServerStarts, fields
  <2>2. CASE ServerEnds(s) \/ StatsEnds(s)
    BY <2>2 DEF ServerEnds, StatsEnds, fields
  <2>3. ASSUME NEW k \in Kinds, LoopEnds(s, k) PROVE ManagerTypeOK'
    <3>1. loop' \in [Kinds -> [Starts -> {"none", "running", "ended"}]]
      BY <2>3 DEF LoopEnds
    <3> QED
      BY <2>3, <3>1 DEF LoopEnds, fields
  <2> QED
    BY <1>4, <2>1, <2>2, <2>3 DEF Background
<1>5. ASSUME UNCHANGED managerVars PROVE ManagerTypeOK'
  BY <1>5 DEF managerVars
<1> QED
  BY <1>1, <1>2, <1>3, <1>4, <1>5, TypeStart DEF ManagerNext, StopStep

-----------------------------------------------------------------------------
(* The steps that neither create, publish, take nor close a relay. *)
LEMMA Bystander ==
  ASSUME CreatedOnce, TakenAway, ActiveRelayOpen,
         UNCHANGED <<relay, created, shut, held>>,
         \A s \in Starts : place[s] \notin Before => place'[s] \notin Before
  PROVE  CreatedOnce' /\ TakenAway' /\ ActiveRelayOpen'
  BY DEF CreatedOnce, TakenAway, ActiveRelayOpen

LEMMA ManagerInvStep == ManagerInv /\ [ManagerNext]_managerVars => ManagerInv'
<1> SUFFICES ASSUME ManagerInv, [ManagerNext]_managerVars PROVE CreatedOnce' /\ TakenAway' /\ ActiveRelayOpen'
  BY ManagerTypeStep DEF ManagerInv
<1>0. ManagerTypeOK /\ CreatedOnce /\ TakenAway /\ ActiveRelayOpen
  BY DEF ManagerInv
<1> DEFINE Goal == CreatedOnce' /\ TakenAway' /\ ActiveRelayOpen'
<1>1. ASSUME NEW c \in Callers, Call(c) PROVE Goal
  <2>1. \A s \in Starts : place[s] \notin Before => place'[s] \notin Before
    BY <1>0, <1>1 DEF Call, GoOn, ManagerTypeOK, Before, Callers
  <2> QED
    BY <1>0, <1>1, <2>1, Bystander DEF Call, fields, objects
<1>2. ASSUME NEW s \in Starts, StartSetsRelay(s) PROVE Goal
  <2>1. /\ s \notin created /\ created' = created \cup {s} /\ relay' = s
        /\ UNCHANGED <<shut, held>>
    BY <1>0, <1>2 DEF StartSetsRelay, CreatedOnce, Before
  <2>2. place'[s] = "proxyServer" /\ \A q \in Starts : q # s => place'[q] = place[q]
    BY <1>0, <1>2 DEF StartSetsRelay, GoOn, ManagerTypeOK, Callers
  <2>3. CreatedOnce'
    BY <1>0, <2>1, <2>2 DEF CreatedOnce, Before
  <2>4. TakenAway' /\ ActiveRelayOpen'
    BY <1>0, <2>1 DEF TakenAway, ActiveRelayOpen, CreatedOnce
  <2> QED
    BY <2>3, <2>4
<1>3. ASSUME NEW s \in Starts, StartFails(s) PROVE Goal
  <2>1. /\ shut' = shut \cup ({relay} \ {None}) /\ relay' = None
        /\ UNCHANGED <<created, held>>
    BY <1>3 DEF StartFails
  <2>2. \A q \in Starts : place[q] \notin Before => place'[q] \notin Before
    BY <1>0, <1>3 DEF StartFails, GoOn, ManagerTypeOK, Callers, Before
  <2> QED
    BY <1>0, <2>1, <2>2 DEF CreatedOnce, TakenAway, ActiveRelayOpen
<1>4. ASSUME NEW s \in Starts, StartStep(s), ~StartSetsRelay(s), ~StartFails(s) PROVE Goal
  <2>1. UNCHANGED <<relay, created, shut, held>>
    BY <1>4 DEF StartStep, StartSection, StartSaveFailed, StartSetsCancel, StartSetsProxyServer,
       StartLaunches, StartReady, StartStats, StartLoop, fields, objects
  <2>2. \A q \in Starts : place[q] \notin Before => place'[q] \notin Before
    BY <1>0, <1>4 DEF StartStep, StartSection, StartSaveFailed, StartSetsCancel,
       StartSetsProxyServer, StartLaunches, StartReady, StartStats, StartLoop, After, GoOn,
       ManagerTypeOK, Callers, Before, Kinds
  <2> QED
    BY <1>0, <2>1, <2>2, Bystander
<1>5. ASSUME NEW t \in Stops, StopSection(t) PROVE Goal
  <2>1. t \in Callers /\ \A s \in Starts : s # t /\ s \in Callers
    BY ManagerAssumption DEF ManagerAssumption, Callers
  <2>2. UNCHANGED <<created, shut>> /\ \A s \in Starts : place'[s] = place[s]
    BY <1>0, <1>5, <2>1 DEF StopSection, GoOn, ManagerTypeOK, objects
  <2>3. CASE ~running
    BY <1>0, <1>5, <2>2, <2>3, Bystander DEF StopSection, fields
  <2>4. CASE running
    <3>1. relay' = None /\ held'[t].relay = relay /\ \A u \in Stops : u # t => held'[u] = held[u]
      BY <1>0, <1>5, <2>4 DEF StopSection, ManagerTypeOK
    <3> QED
      BY <1>0, <2>2, <3>1 DEF CreatedOnce, TakenAway, ActiveRelayOpen
  <2> QED
    BY <2>3, <2>4
<1>6. ASSUME NEW t \in Stops, StopCloses(t) PROVE Goal
  <2>1. t \in Callers /\ \A s \in Starts : s # t /\ s \in Callers
    BY ManagerAssumption DEF ManagerAssumption, Callers
  <2>2. /\ UNCHANGED <<created, relay, held>> /\ \A s \in Starts : place'[s] = place[s]
        /\ shut' = shut \cup ({held[t].relay} \ {None})
    BY <1>0, <1>6, <2>1 DEF StopCloses, GoOn, ManagerTypeOK, fields
  <2> QED
    BY <1>0, <2>2 DEF CreatedOnce, TakenAway, ActiveRelayOpen
<1>7. ASSUME NEW s \in Starts, Background(s) PROVE Goal
  BY <1>0, <1>7, Bystander
  DEF Background, ServerStarts, ServerEnds, StatsEnds, LoopEnds, fields
<1>8. ASSUME UNCHANGED managerVars PROVE Goal
  BY <1>0, <1>8, Bystander DEF managerVars
<1> QED
  BY <1>1, <1>2, <1>3, <1>4, <1>5, <1>6, <1>7, <1>8 DEF ManagerNext, StopStep

LEMMA ManagerInvAlways == ManagerSpec => []ManagerInv
  BY ManagerInvInit, ManagerInvStep, PTL DEF ManagerSpec

(* The fields of GASManager keep their types. *)
THEOREM ManagerTypeCorrect == ManagerSpec => []ManagerTypeOK
  BY ManagerInvAlways, PTL DEF ManagerInv

(* GetRelay never hands out a relay that was closed, however many Start    *)
(* and Stop calls overlap.                                                 *)
THEOREM ActiveRelayIsOpen == ManagerSpec => []ActiveRelayOpen
  BY ManagerInvAlways, PTL DEF ManagerInv

-----------------------------------------------------------------------------
(* Callers that wait for each other.                                       *)

Between == {"idle", "call", "done", "failed"}
Early == {"saveFailed", "cancel", "relay"}
Late == {"proxyServer", "launch", "await", "stats", "failover", "rotate"}

(* Then one call at most is under way.                                     *)
OneAtATime ==
  ~overlapped => \A c, d \in Callers : ~Returned(c) /\ ~Returned(d) => c = d

(* Running and m.relay agree except within a Start, before it has created  *)
(* its relay, and a Stop that has taken the relay away.                    *)
Agree ==
  ~overlapped =>
    /\ (\A c \in Callers : place[c] \in Between) => (running <=> relay # None)
    /\ \A c \in Callers : place[c] \in Early => running /\ relay = None
    /\ \A c \in Callers : place[c] \in Late => running /\ relay # None
    /\ \A c \in Callers : place[c] = "closing" => ~running /\ relay = None

(* A relay that exists is in the field, closed, or with the Stop that is   *)
(* about to close it.                                                      *)
Accounted ==
  ~overlapped =>
    \A s \in created : \/ s = relay \/ s \in shut
                       \/ \E t \in Stops : place[t] = "closing" /\ held[t].relay = s

OInv == OneAtATime /\ Agree /\ Accounted

(* A call that makes a step is the only one under way. *)
LEMMA Alone ==
  ASSUME ManagerTypeOK, OneAtATime, ~overlapped, UNCHANGED overlapped,
         NEW c \in Callers, ~Returned(c), NEW label, GoOn(c, label)
  PROVE  /\ OneAtATime' /\ place'[c] = label
         /\ \A d \in Callers : d # c => place'[d] = place[d] /\ place[d] \in {"idle", "done", "failed"}
<1>1. place'[c] = label /\ \A d \in Callers : d # c => place'[d] = place[d]
  BY DEF GoOn, ManagerTypeOK
<1>2. \A d \in Callers : d # c => place[d] \in {"idle", "done", "failed"}
  BY DEF OneAtATime, Returned
<1>3. OneAtATime'
  BY <1>1, <1>2 DEF OneAtATime, Returned
<1> QED
  BY <1>1, <1>2, <1>3

(* The steps of a Start. *)
LEMMA OwnedStart ==
  ASSUME ManagerInv, OInv, ~overlapped, NEW s \in Starts, StartStep(s) PROVE OInv'
<1>0. /\ ManagerTypeOK /\ OneAtATime /\ Agree /\ Accounted /\ CreatedOnce /\ s \in Callers
      /\ s # None /\ \A t \in Stops : t \in Callers /\ t # s
  BY ManagerAssumption DEF ManagerInv, OInv, Callers, ManagerAssumption
<1>1. ~Returned(s) /\ place[s] # "closing" /\ UNCHANGED <<overlapped, held>>
      /\ \E label : GoOn(s, label)
  BY DEF StartStep, StartSection, StartSaveFailed, StartSetsCancel, StartSetsRelay,
         StartSetsProxyServer, StartLaunches, StartFails, StartReady, StartStats, StartLoop,
         Returned, Kinds
<1>2. OneAtATime' /\ \A d \in Callers : d # s => place'[d] = place[d] /\ place[d] \in {"idle", "done", "failed"}
  BY <1>0, <1>1, Alone
<1>3. ASSUME UNCHANGED <<relay, created, shut>> PROVE Accounted'
  BY <1>0, <1>1, <1>2, <1>3 DEF Accounted
<1> USE DEF Between, Early, Late
<1>4. CASE StartSection(s)
  <2>1. /\ UNCHANGED <<relay, created, shut>> /\ place[s] = "call"
        /\ \/ UNCHANGED running /\ place'[s] \in {"done", "failed"}
           \/ ~running /\ running' = TRUE /\ place'[s] \in {"cancel", "saveFailed"}
    BY <1>0, <1>4 DEF StartSection, objects, GoOn, ManagerTypeOK
  <2>2. running <=> relay # None
    BY <1>0, <1>2, <2>1 DEF Agree
  <2>3. ASSUME UNCHANGED running, place'[s] \in {"done", "failed"} PROVE Agree'
    <3>1. \A c \in Callers : place'[c] \in {"idle", "done", "failed"}
      BY <1>2, <2>3
    <3>2. running' <=> relay' # None
      BY <2>1, <2>2, <2>3, Zenon
    <3>3. \A c \in Callers : place'[c] \notin Early \cup Late \cup {"closing"}
      BY <3>1
    <3> HIDE DEF Between, Early, Late
    <3> QED
      BY <3>2, <3>3, Zenon DEF Agree
  <2>4. ASSUME ~running, running' = TRUE, place'[s] \in {"cancel", "saveFailed"} PROVE Agree'
    <3>1. relay' = None
      BY <2>1, <2>2, <2>4, Zenon
    <3>2. /\ \A c \in Callers : place'[c] \notin Late \cup {"closing"}
          /\ ~\A c \in Callers : place'[c] \in Between
      BY <1>0, <1>2, <2>4
    <3> HIDE DEF Between, Early, Late
    <3> QED
      BY <2>4, <3>1, <3>2, Zenon DEF Agree
  <2>5. Agree'
    BY <2>1, <2>3, <2>4
  <2> QED
    BY <1>2, <1>3, <2>1, <2>5 DEF OInv
<1>5. CASE StartSaveFailed(s)
  <2>1. /\ UNCHANGED <<relay, created, shut>> /\ running' = FALSE
        /\ place[s] = "saveFailed" /\ place'[s] = "failed"
    BY <1>0, <1>5 DEF StartSaveFailed, objects, GoOn, ManagerTypeOK
  <2>2. Agree'
    BY <1>0, <1>1, <1>2, <2>1 DEF Agree
  <2> QED
    BY <1>2, <1>3, <2>1, <2>2 DEF OInv
<1>6. CASE StartSetsCancel(s)
  <2>1. /\ UNCHANGED <<relay, running, created, shut>>
        /\ place[s] = "cancel" /\ place'[s] = "relay"
    BY <1>0, <1>6 DEF StartSetsCancel, objects, GoOn, ManagerTypeOK
  <2>2. Agree'
    BY <1>0, <1>1, <1>2, <2>1 DEF Agree
  <2> QED
    BY <1>2, <1>3, <2>1, <2>2 DEF OInv
<1>7. CASE StartSetsRelay(s)
  <2>1. /\ relay' = s /\ created' = created \cup {s} /\ UNCHANGED <<running, shut>>
        /\ place[s] = "relay" /\ place'[s] = "proxyServer"
    BY <1>0, <1>7 DEF StartSetsRelay, GoOn, ManagerTypeOK
  <2>2. relay = None /\ running
    BY <1>0, <2>1 DEF Agree
  <2>3. Agree'
    BY <1>0, <1>1, <1>2, <2>1, <2>2 DEF Agree
  <2>4. None \notin created
    BY <1>0, ManagerAssumption DEF ManagerTypeOK, ManagerAssumption
  <2>5. Accounted'
    BY <1>0, <1>1, <1>2, <2>1, <2>2, <2>4 DEF Accounted
  <2> QED
    BY <1>2, <2>3, <2>5 DEF OInv
<1>8. CASE StartSetsProxyServer(s) \/ StartLaunches(s) \/ StartReady(s) \/ StartStats(s)
  <2>1. /\ UNCHANGED <<relay, running, created, shut>> /\ place[s] \in Late /\ place'[s] \in Late
    BY <1>0, <1>8 DEF StartSetsProxyServer, StartLaunches, StartReady, StartStats, fields,
                      objects, GoOn, ManagerTypeOK
  <2>2. Agree'
    BY <1>0, <1>1, <1>2, <2>1 DEF Agree
  <2> QED
    BY <1>2, <1>3, <2>1, <2>2 DEF OInv
<1>9. CASE \E k \in Kinds : StartLoop(s, k)
  <2>1. /\ UNCHANGED <<relay, running, created, shut>> /\ place[s] \in Late
        /\ place'[s] \in {"rotate", "done"}
    BY <1>0, <1>9 DEF StartLoop, After, Kinds, GoOn, ManagerTypeOK
  <2>2. Agree'
    BY <1>0, <1>1, <1>2, <2>1 DEF Agree
  <2> QED
    BY <1>2, <1>3, <2>1, <2>2 DEF OInv
<1>10. CASE StartFails(s)
  <2>1. /\ relay' = None /\ shut' = shut \cup ({relay} \ {None}) /\ running' = FALSE
        /\ UNCHANGED created /\ place[s] = "await" /\ place'[s] = "failed"
    BY <1>0, <1>10 DEF StartFails, GoOn, ManagerTypeOK
  <2>2. Agree'
    BY <1>1, <1>2, <2>1 DEF Agree
  <2>3. None \notin created
    BY <1>0, ManagerAssumption DEF ManagerTypeOK, ManagerAssumption
  <2>4. Accounted'
    BY <1>0, <1>1, <1>2, <2>1, <2>3 DEF Accounted
  <2> QED
    BY <1>2, <2>2, <2>4 DEF OInv
<1> QED
  BY <1>4, <1>5, <1>6, <1>7, <1>8, <1>9, <1>10 DEF StartStep

(* The steps of a Stop. *)
LEMMA OwnedStop ==
  ASSUME ManagerInv, OInv, ~overlapped, NEW t \in Stops, StopStep(t) PROVE OInv'
<1>0. /\ ManagerTypeOK /\ OneAtATime /\ Agree /\ Accounted /\ CreatedOnce
      /\ \A u \in Stops : u \in Callers
  BY DEF ManagerInv, OInv, Callers
<1>1. ~Returned(t) /\ UNCHANGED overlapped /\ \E label : GoOn(t, label)
  BY DEF StopStep, StopSection, StopCloses, Returned
<1>2. OneAtATime' /\ \A d \in Callers : d # t => place'[d] = place[d] /\ place[d] \in {"idle", "done", "failed"}
  BY <1>0, <1>1, Alone
<1>3. None \notin created
  BY <1>0, ManagerAssumption DEF ManagerTypeOK, ManagerAssumption
<1> USE DEF Between, Early, Late
<1>4. CASE StopSection(t) /\ ~running
  <2>1. /\ UNCHANGED <<relay, running, created, shut, held>> /\ place[t] = "call" /\ place'[t] = "done"
    BY <1>0, <1>4 DEF StopSection, fields, objects, GoOn, ManagerTypeOK
  <2>2. Agree'
    BY <1>0, <1>1, <1>2, <2>1 DEF Agree
  <2>3. Accounted'
    BY <1>0, <1>1, <1>2, <2>1 DEF Accounted
  <2> QED
    BY <1>2, <2>2, <2>3 DEF OInv
<1>5. CASE StopSection(t) /\ running
  <2>1. /\ relay' = None /\ running' = FALSE /\ held'[t].relay = relay
        /\ UNCHANGED <<created, shut>> /\ place[t] = "call" /\ place'[t] = "closing"
    BY <1>0, <1>5 DEF StopSection, objects, GoOn, ManagerTypeOK
  <2>2. Agree'
    BY <1>1, <1>2, <2>1 DEF Agree
  <2>3. Accounted'
    BY <1>0, <1>1, <1>2, <1>3, <2>1 DEF Accounted
  <2> QED
    BY <1>2, <2>2, <2>3 DEF OInv
<1>6. CASE StopCloses(t)
  <2>1. /\ UNCHANGED <<relay, running, created, held>> /\ place[t] = "closing" /\ place'[t] = "done"
        /\ shut' = shut \cup ({held[t].relay} \ {None})
    BY <1>0, <1>6 DEF StopCloses, fields, GoOn, ManagerTypeOK
  <2>2. Agree'
    BY <1>0, <1>1, <1>2, <2>1 DEF Agree
  <2>3. Accounted'
    BY <1>0, <1>1, <1>2, <1>3, <2>1 DEF Accounted
  <2> QED
    BY <1>2, <2>2, <2>3 DEF OInv
<1> QED
  BY <1>4, <1>5, <1>6 DEF StopStep

LEMMA OwnedStep == ManagerInv /\ OInv /\ [ManagerNext]_managerVars => OInv'
<1> SUFFICES ASSUME ManagerInv, OInv, [ManagerNext]_managerVars PROVE OInv'
  OBVIOUS
<1>1. CASE overlapped'
  BY <1>1 DEF OInv, OneAtATime, Agree, Accounted
<1>2. ASSUME ~overlapped', NEW c \in Callers, Call(c) PROVE OInv'
  <2>1. ~overlapped /\ Quiet /\ UNCHANGED <<relay, running, created, shut, held>> /\ place[c] = "idle"
    BY <1>2 DEF Call, fields, objects
  <2>2. place'[c] = "call" /\ \A d \in Callers : d # c => place'[d] = place[d]
    BY <1>2 DEF Call, GoOn, ManagerInv, ManagerTypeOK
  <2>3. \A d \in Callers : place[d] \in {"idle", "done", "failed"}
    BY <2>1 DEF Quiet, Returned
  <2>4. OneAtATime'
    BY <2>2, <2>3 DEF OneAtATime, Returned
  <2>5. Agree'
    BY <2>1, <2>2, <2>3 DEF OInv, Agree, Between, Early, Late
  <2>6. Accounted'
    BY <2>1, <2>3, Zenon DEF OInv, Accounted, Callers
  <2> QED
    BY <2>4, <2>5, <2>6 DEF OInv
<1>3. ASSUME ~overlapped', NEW s \in Starts, StartStep(s) PROVE OInv'
  <2>1. UNCHANGED overlapped
    BY <1>3 DEF StartStep, StartSection, StartSaveFailed, StartSetsCancel, StartSetsRelay,
         StartSetsProxyServer, StartLaunches, StartFails, StartReady, StartStats, StartLoop
  <2> QED
    BY <1>3, <2>1, OwnedStart
<1>4. ASSUME ~overlapped', NEW t \in Stops, StopStep(t) PROVE OInv'
  <2>1. UNCHANGED overlapped
    BY <1>4 DEF StopStep, StopSection, StopCloses
  <2> QED
    BY <1>4, <2>1, OwnedStop
<1>5. CASE UNCHANGED <<relay, running, created, shut, held, place, overlapped>>
  BY <1>5 DEF OInv, OneAtATime, Agree, Accounted, Returned
<1>6. ASSUME NEW s \in Starts, Background(s) PROVE OInv'
  BY <1>5, <1>6 DEF Background, ServerStarts, ServerEnds, StatsEnds, LoopEnds, fields
<1>7. CASE UNCHANGED managerVars
  BY <1>5, <1>7 DEF managerVars
<1> QED
  BY <1>1, <1>2, <1>3, <1>4, <1>6, <1>7 DEF ManagerNext

(* Callers that wait for each other find Running and m.relay in agreement  *)
(* and no relay left behind, for any number of them, also after Starts     *)
(* that failed half-way (gas.go:273-470).                                  *)
THEOREM InstancesOwned == ManagerSpec => []InstanceOwned
<1>1. ManagerInit => OInv
  BY DEF ManagerInit, OInv, OneAtATime, Agree, Accounted, Returned, Between, Early, Late
<1>2. ManagerInv /\ OInv => InstanceOwned
  <2> SUFFICES ASSUME ManagerInv, OInv PROVE NoRelayLeak /\ RunningHasRelay
    BY DEF InstanceOwned, ManagerInv
  <2>1. Quiet => \A c \in Callers : place[c] \in Between /\ place[c] # "closing"
    BY DEF Quiet, Returned, Between
  <2> QED
    BY <2>1 DEF OInv, Agree, Accounted, NoRelayLeak, RunningHasRelay, Callers
<1> QED
  BY <1>1, <1>2, OwnedStep, ManagerInvAlways, PTL DEF ManagerSpec
=============================================================================
