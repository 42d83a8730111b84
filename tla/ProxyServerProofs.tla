------------------------- MODULE ProxyServerProofs -------------------------
(***************************************************************************)
(* Theorems about ProxyServer, for any number of RPC calls and of ports:   *)
(* types, RunningIsServed and SocksOwned hold with proxyOpMu and without   *)
(* it, NoOrphanServer needs proxyOpMu.                                     *)
(***************************************************************************)
EXTENDS ProxyServer, TLAPS

-----------------------------------------------------------------------------
(***************************************************************************)
(* The strengthening.                                                      *)
(***************************************************************************)
BeforePublish == {"idle", "ensure", "setPort", "start", "listen", "socks",
                  "publish"}

\* A call that has not published its server yet is not the current server,
\* and nothing serves for it until its go statement.
Unpublished ==
    \A o \in Ops :
        /\ pc[o] \in BeforePublish => server # o
        /\ pc[o] \in BeforePublish \cup {"launch"} => serve[o] = "none"

\* What a call carries from one of its steps to the next: a port that can be
\* listened on, then an open listener.
Carried ==
    \A o \in Ops :
        /\ pc[o] \in {"setPort", "listen"} => port[o] \in Ports
        /\ pc[o] \in {"socks", "publish"} => ln[o] # 0

\* A Stop that got past its critical section has a server to close.
StopHasServer ==
    \A o \in Procs : pc[o] \in {"closeSocks", "wgWait", "closeServer"}
        => server # None

\* One SOCKS5 address, so one listener.
OneSocks == \A a, b \in socksOpen : a = b

IInv ==
    /\ TypeOK
    /\ Unpublished
    /\ Carried
    /\ StopHasServer
    /\ RunningIsServed

LEMMA InitIInv == Init => IInv
  BY ConstantsFit DEF Init, IInv, TypeOK, Unpublished, Carried, StopHasServer,
     RunningIsServed, StartSteps, StopSteps, Procs, BeforePublish, Ports

USE DEF Goto, Return, Lock, Stuck, local, fields, sockets, locks

LEMMA RPCKeeps ==
  ASSUME IInv, NEW o \in Ops, RPC(o)
  PROVE  IInv'
<1>1. CASE StartProxy(o)
  BY <1>1, ConstantsFit DEF IInv, StartProxy, TypeOK, Unpublished, Carried,
     StopHasServer, RunningIsServed, StartSteps, StopSteps, Procs, BeforePublish
<1>2. CASE StopProxy(o)
  BY <1>2, ConstantsFit DEF IInv, StopProxy, TypeOK, Unpublished, Carried,
     StopHasServer, RunningIsServed, StartSteps, StopSteps, Procs, BeforePublish
<1>3. CASE ReloadConfig(o)
  BY <1>3, ConstantsFit DEF IInv, ReloadConfig, TypeOK, Unpublished, Carried,
     StopHasServer, RunningIsServed, StartSteps, StopSteps, Procs, BeforePublish
<1>4. CASE ReloadBlocks(o)
  BY <1>4, ConstantsFit DEF IInv, ReloadBlocks, TypeOK, Unpublished, Carried,
     StopHasServer, RunningIsServed, StartSteps, StopSteps, Procs, BeforePublish
<1> QED
  BY <1>1, <1>2, <1>3, <1>4 DEF RPC

LEMMA StartKeeps ==
  ASSUME IInv, NEW o \in Ops, StartStep(o)
  PROVE  IInv'
<1>0. /\ o # None /\ o # Main
      /\ o \in Procs /\ Main \in Procs
      /\ \A p \in Ops : p \in Procs
  BY ConstantsFit DEF Procs
<1>1. CASE EnsurePort(o)
  <2>1. PICK q \in EnsuredPorts(listenAddr) :
          /\ port' = [port EXCEPT ![o] = q]
          /\ others' = others \ (IF Free(q) THEN {} ELSE {q} \cap Stale)
          /\ Goto(o, IF q = listenAddr THEN "start" ELSE "setPort")
    BY <1>1 DEF EnsurePort
  <2>2. q \in Ports
    BY <2>1 DEF EnsuredPorts, Window, IInv, TypeOK
  <2> QED
    BY <1>0, <1>1, <2>1, <2>2 DEF EnsurePort, IInv, TypeOK, Unpublished, Carried,
       StopHasServer, RunningIsServed, StartSteps, StopSteps, BeforePublish
<1>2. CASE EnsurePortKillsSelf(o)
  BY <1>2, ConstantsFit DEF EnsurePortKillsSelf, EndProcess, IInv, TypeOK,
     Unpublished, Carried, StopHasServer, RunningIsServed, StartSteps,
     StopSteps, BeforePublish, Procs
<1>3. CASE SetListenPort(o)
  <2> USE <1>0, <1>3 DEF SetListenPort
  <2>1. TypeOK'
    BY DEF IInv, TypeOK, Carried, StopHasServer, StartSteps, StopSteps
  <2>2. Unpublished'
    BY DEF IInv, TypeOK, Unpublished, BeforePublish
  <2>3. Carried'
    BY DEF IInv, TypeOK, Unpublished, Carried, BeforePublish
  <2>4. StopHasServer'
    BY DEF IInv, TypeOK, StopHasServer, RunningIsServed
  <2>5. RunningIsServed'
    BY DEF IInv, TypeOK, Unpublished, Carried, RunningIsServed, BeforePublish
  <2> QED
    BY <2>1, <2>2, <2>3, <2>4, <2>5 DEF IInv
<1>4. CASE StartSection(o)
  <2> USE <1>0, <1>4 DEF StartSection
  <2>1. TypeOK'
    <3>1. poolRunning' \in BOOLEAN
      BY Zenon DEF IInv, TypeOK
    <3>2. CASE running
      BY <3>1, <3>2 DEF IInv, TypeOK, StartSteps, StopSteps
    <3>3. CASE ~running
      BY <3>1, <3>3 DEF IInv, TypeOK, StartSteps, StopSteps
    <3> QED
      BY <3>2, <3>3
  <2>2. Unpublished'
    BY DEF IInv, TypeOK, Unpublished, BeforePublish
  <2>3. Carried'
    BY DEF IInv, TypeOK, Unpublished, Carried, BeforePublish
  <2>4. StopHasServer'
    BY DEF IInv, TypeOK, StopHasServer, RunningIsServed
  <2>5. RunningIsServed'
    BY DEF IInv, TypeOK, Unpublished, Carried, RunningIsServed, BeforePublish
  <2> QED
    BY <2>1, <2>2, <2>3, <2>4, <2>5 DEF IInv
<1>5. CASE StartListens(o)
  <2> USE <1>0, <1>5 DEF StartListens, Ports
  <2>1. TypeOK'
    BY DEF IInv, TypeOK, Carried, StopHasServer, StartSteps, StopSteps
  <2>2. Unpublished'
    BY DEF IInv, TypeOK, Unpublished, BeforePublish
  <2>3. Carried'
    BY DEF IInv, TypeOK, Unpublished, Carried, BeforePublish
  <2>4. StopHasServer'
    BY DEF IInv, TypeOK, StopHasServer, RunningIsServed
  <2>5. RunningIsServed'
    BY DEF IInv, TypeOK, Unpublished, Carried, RunningIsServed, BeforePublish
  <2> QED
    BY <2>1, <2>2, <2>3, <2>4, <2>5 DEF IInv
<1>6. CASE StartSocks(o)
  BY <1>0, <1>6 DEF StartSocks, IInv, TypeOK, Unpublished, Carried,
     StopHasServer, RunningIsServed, StartSteps, StopSteps, BeforePublish
<1>7. CASE StartPublishes(o)
  <2> USE <1>0, <1>7 DEF StartPublishes
  <2>1. TypeOK'
    BY DEF IInv, TypeOK, Carried, StopHasServer, StartSteps, StopSteps
  <2>2. Unpublished'
    BY DEF IInv, TypeOK, Unpublished, BeforePublish
  <2>3. Carried'
    BY DEF IInv, TypeOK, Unpublished, Carried, BeforePublish
  <2>4. StopHasServer'
    BY DEF IInv, TypeOK, StopHasServer, RunningIsServed
  <2>5. RunningIsServed'
    <3>1. CASE running
      BY <3>1 DEF IInv, TypeOK, Unpublished, RunningIsServed, BeforePublish
    <3>2. CASE ~running
      BY <3>2 DEF IInv, TypeOK, Carried, RunningIsServed
    <3> QED
      BY <3>1, <3>2
  <2> QED
    BY <2>1, <2>2, <2>3, <2>4, <2>5 DEF IInv
<1>8. CASE StartLaunches(o)
  BY <1>0, <1>8 DEF StartLaunches, IInv, TypeOK, Unpublished, Carried,
     StopHasServer, RunningIsServed, StartSteps, StopSteps, BeforePublish
<1>9. CASE WaitForListen(o)
  <2> USE <1>0, <1>9 DEF WaitForListen
  <2>1. TypeOK'
    BY DEF IInv, TypeOK, Carried, StopHasServer, StartSteps, StopSteps
  <2>2. Unpublished'
    BY DEF IInv, TypeOK, Unpublished, BeforePublish
  <2>3. Carried'
    BY DEF IInv, TypeOK, Unpublished, Carried, BeforePublish
  <2>4. StopHasServer'
    BY DEF IInv, TypeOK, StopHasServer, RunningIsServed
  <2>5. RunningIsServed'
    BY DEF IInv, TypeOK, Unpublished, Carried, RunningIsServed, BeforePublish
  <2> QED
    BY <2>1, <2>2, <2>3, <2>4, <2>5 DEF IInv
<1>10. CASE StartBlocks(o)
  BY <1>0, <1>10 DEF StartBlocks, IInv, TypeOK, Unpublished, Carried,
     StopHasServer, RunningIsServed, StartSteps, StopSteps, BeforePublish
<1> QED
  BY <1>1, <1>2, <1>3, <1>4, <1>5, <1>6, <1>7, <1>8, <1>9, <1>10 DEF StartStep

LEMMA StopKeeps ==
  ASSUME IInv, NEW o \in Procs, StopStep(o)
  PROVE  IInv'
<1>0. o # None \/ o = Main
  BY ConstantsFit DEF Procs
<1>1. CASE StopSection(o)
  <2> USE <1>0, ConstantsFit, <1>1 DEF StopSection, Procs
  <2>1. TypeOK'
    <3>1. running' \in BOOLEAN /\ poolRunning' \in BOOLEAN
      BY Zenon DEF IInv, TypeOK
    <3>2. CASE ~running
      BY <3>1, <3>2 DEF IInv, TypeOK, StartSteps, StopSteps
    <3>3. CASE running
      BY <3>1, <3>3 DEF IInv, TypeOK, StartSteps, StopSteps
    <3> QED
      BY <3>2, <3>3
  <2>2. Unpublished'
    BY DEF IInv, TypeOK, Unpublished, BeforePublish
  <2>3. Carried'
    BY DEF IInv, TypeOK, Unpublished, Carried, BeforePublish
  <2>4. StopHasServer'
    BY DEF IInv, TypeOK, StopHasServer, RunningIsServed
  <2>5. RunningIsServed'
    BY DEF IInv, TypeOK, Unpublished, Carried, RunningIsServed, BeforePublish
  <2> QED
    BY <2>1, <2>2, <2>3, <2>4, <2>5 DEF IInv
<1>2. CASE StopClosesSocks(o)
  BY <1>0, <1>2, ConstantsFit DEF StopClosesSocks, IInv, TypeOK, Unpublished,
     Carried, StopHasServer, RunningIsServed, StartSteps, StopSteps,
     BeforePublish, Procs
<1>3. CASE StopWaits(o)
  BY <1>0, <1>3, ConstantsFit DEF StopWaits, IInv, TypeOK, Unpublished, Carried,
     StopHasServer, RunningIsServed, StartSteps, StopSteps, BeforePublish, Procs
<1>4. CASE StopClosesServer(o)
  BY <1>0, <1>4, ConstantsFit DEF StopClosesServer, IInv, TypeOK, Unpublished,
     Carried, StopHasServer, RunningIsServed, StartSteps, StopSteps,
     BeforePublish, Procs
<1>5. CASE StopBlocks(o)
  BY <1>0, <1>5, ConstantsFit DEF StopBlocks, IInv, TypeOK, Unpublished, Carried,
     StopHasServer, RunningIsServed, StartSteps, StopSteps, BeforePublish, Procs
<1> QED
  BY <1>1, <1>2, <1>3, <1>4, <1>5 DEF StopStep

LEMMA GoroutineKeeps ==
  ASSUME IInv, NEW s \in Ops, Goroutine(s)
  PROVE  IInv'
<1>1. CASE ServeStarts(s)
  BY <1>1, ConstantsFit DEF ServeStarts, IInv, TypeOK, Unpublished, Carried,
     StopHasServer, RunningIsServed, BeforePublish
<1>2. CASE ServeReturns(s)
  BY <1>2, ConstantsFit DEF ServeReturns, IInv, TypeOK, Unpublished, Carried,
     StopHasServer, RunningIsServed, BeforePublish
<1>3. CASE ServeEnds(s)
  BY <1>3, ConstantsFit DEF ServeEnds, IInv, TypeOK, Unpublished, Carried,
     StopHasServer, RunningIsServed, BeforePublish
<1>4. CASE SocksLoopEnds(s)
  BY <1>4, ConstantsFit DEF SocksLoopEnds, IInv, TypeOK, Unpublished, Carried,
     StopHasServer, RunningIsServed, BeforePublish
<1> QED
  BY <1>1, <1>2, <1>3, <1>4 DEF Goroutine

LEMMA NextKeeps == IInv /\ [Next]_vars => IInv'
<1> SUFFICES ASSUME IInv, [Next]_vars PROVE IInv'
  OBVIOUS
<1>1. CASE Shutdown
  BY <1>1, ConstantsFit DEF Shutdown, IInv, TypeOK, Unpublished, Carried,
     StopHasServer, RunningIsServed, StartSteps, StopSteps, BeforePublish, Procs
<1>2. CASE ProcessExits
  BY <1>2, ConstantsFit DEF ProcessExits, EndProcess, IInv, TypeOK, Unpublished,
     Carried, StopHasServer, RunningIsServed, StartSteps, StopSteps,
     BeforePublish, Procs
<1>3. CASE UNCHANGED vars
  BY <1>3 DEF vars, IInv, TypeOK, Unpublished, Carried, StopHasServer,
     RunningIsServed
<1>4. CASE ReportFailure
  BY <1>4 DEF ReportFailure, IInv, TypeOK, Unpublished, Carried, StopHasServer,
     RunningIsServed
<1> QED
  BY <1>1, <1>2, <1>3, <1>4, RPCKeeps, StartKeeps, StopKeeps, GoroutineKeeps DEF Next

\* The model is well typed: in particular Stop never closes a nil Server and
\* Start never listens on a port that EnsurePortAvailable did not answer.
THEOREM ProxyTypeCorrect == Spec => []TypeOK
<1>1. IInv => TypeOK
  BY DEF IInv
<1> QED
  BY <1>1, InitIInv, NextKeeps, PTL DEF Spec

\* running is set only while the current server is being served or its
\* goroutine is about to clear it, whatever calls overlap.
THEOREM RunningAlwaysServed == Spec => []RunningIsServed
<1>1. IInv => RunningIsServed
  BY DEF IInv
<1> QED
  BY <1>1, InitIInv, NextKeeps, PTL DEF Spec

-----------------------------------------------------------------------------
(***************************************************************************)
(* The SOCKS5 listener.                                                    *)
(***************************************************************************)
SInv == SocksOwned /\ OneSocks

\* A step that leaves the listener, the field and what Stop took alone, of a
\* call that is neither about to publish nor about to close, keeps SInv.
LEMMA SocksUntouched ==
  ASSUME TypeOK, SInv, NEW o \in Procs, NEW step, Goto(o, step),
         pc[o] \notin {"publish", "closeSocks"},
         UNCHANGED <<taken, socksListener, socksOpen>>
  PROVE  SInv'
  BY DEF TypeOK, SInv, SocksOwned, OneSocks, Procs

LEMMA SocksStart ==
  ASSUME IInv, SInv, NEW o \in Ops, StartStep(o)
  PROVE  SInv'
<1>0. o \in Procs /\ TypeOK
  BY DEF Procs, IInv
<1>1. CASE EnsurePort(o) \/ SetListenPort(o) \/ StartSection(o) \/ StartBlocks(o)
  BY <1>0, <1>1, SocksUntouched DEF EnsurePort, SetListenPort, StartSection, StartBlocks
<1>2. CASE StartListens(o) \/ StartLaunches(o) \/ WaitForListen(o)
  BY <1>0, <1>2, SocksUntouched DEF StartListens, StartLaunches, WaitForListen
<1>3. CASE EnsurePortKillsSelf(o)
  BY <1>3 DEF EnsurePortKillsSelf, EndProcess, SInv, SocksOwned, OneSocks
<1>4. CASE StartSocks(o)
  BY <1>0, <1>4 DEF StartSocks, SInv, SocksOwned, OneSocks, TypeOK, Procs
<1>5. CASE StartPublishes(o)
  BY <1>0, <1>5 DEF StartPublishes, SInv, SocksOwned, OneSocks, TypeOK, Procs
<1> QED
  BY <1>1, <1>2, <1>3, <1>4, <1>5 DEF StartStep

LEMMA SocksStop ==
  ASSUME IInv, SInv, NEW o \in Procs, StopStep(o)
  PROVE  SInv'
<1>0. TypeOK
  BY DEF IInv
<1>1. CASE StopSection(o)
  BY <1>0, <1>1, ConstantsFit
     DEF StopSection, SInv, SocksOwned, OneSocks, TypeOK, Procs
<1>2. CASE StopClosesSocks(o)
  BY <1>0, <1>2 DEF StopClosesSocks, SInv, SocksOwned, OneSocks, TypeOK, Procs
<1>3. CASE StopWaits(o) \/ StopClosesServer(o) \/ StopBlocks(o)
  BY <1>0, <1>3, SocksUntouched DEF StopWaits, StopClosesServer, StopBlocks
<1> QED
  BY <1>1, <1>2, <1>3 DEF StopStep

LEMMA SocksNext == IInv /\ SInv /\ [Next]_vars => SInv'
<1> SUFFICES ASSUME IInv, SInv, [Next]_vars PROVE SInv'
  OBVIOUS
<1>0. TypeOK /\ Main \in Procs /\ Ops \subseteq Procs
  BY DEF IInv, Procs
<1>1. CASE \E o \in Ops : RPC(o)
  BY <1>0, <1>1, SocksUntouched DEF RPC, StartProxy, StopProxy, ReloadConfig,
     ReloadBlocks
<1>2. CASE \E s \in Ops : Goroutine(s)
  BY <1>0, <1>2 DEF Goroutine, ServeStarts, ServeReturns, ServeEnds,
     SocksLoopEnds, SInv, SocksOwned, OneSocks
<1>3. CASE Shutdown
  BY <1>0, <1>3, SocksUntouched DEF Shutdown
<1>4. CASE ProcessExits
  BY <1>4 DEF ProcessExits, EndProcess, SInv, SocksOwned, OneSocks
<1>5. CASE UNCHANGED vars \/ ReportFailure
  BY <1>5 DEF vars, ReportFailure, SInv, SocksOwned, OneSocks
<1> QED
  BY <1>1, <1>2, <1>3, <1>4, <1>5, SocksStart, SocksStop DEF Next

\* No SOCKS5 listener is ever lost from Stop's reach: not when a later Start
\* cannot bind the address, and not when the HTTP server died under it.
THEOREM SocksAlwaysOwned == Spec => []SocksOwned
<1>1. Init => SInv
  BY DEF Init, SInv, SocksOwned, OneSocks
<1>2. SInv => SocksOwned
  BY DEF SInv
<1> QED
  BY <1>1, <1>2, InitIInv, NextKeeps, SocksNext, PTL DEF Spec

-----------------------------------------------------------------------------
(***************************************************************************)
(* The HTTP listener.  Here proxyOpMu matters: Stop reads p.Server after   *)
(* it has released the lock, so it closes the server it stopped only       *)
(* because no Start can publish another one in between.                    *)
(***************************************************************************)
Closing == {"closeSocks", "wgWait", "closeServer"}

\* proxyOpMu: one call at a time is inside startProxy or stopProxy.
OneAtATime ==
    \A o \in Ops : pc[o] \in StartSteps \cup StopSteps => opMu = o

\* A goroutine whose Serve has returned has closed its listener, and a
\* process that has ended has none.
ReturnedIsClosed ==
    /\ \A s \in Ops : serve[s] \in {"tail", "done"} => ln[s] = 0
    /\ pc[Main] = "dead" => \A s \in Ops : ln[s] = 0 /\ pc[s] = "dead"

\* As long as no shutdown is stopping the proxy, the only open listener that
\* nobody is going to close by itself is the current server's, and it is
\* running or being stopped; until a call is stuck with mu held.
Reachable ==
    pc[Main] \in {"idle", "stop", "stuck"} /\ MuFree =>
        \A s \in Ops : ln[s] # 0 /\ pc[s] \notin {"socks", "publish"} =>
            \/ s \in closed /\ serve[s] \in {"none", "new"}
            \/ server = s /\ (running \/ \E o \in Ops : pc[o] \in Closing)

LInv == OneAtATime /\ ReturnedIsClosed /\ Reachable

\* A step that moves one call between steps that matter to none of the three.
LEMMA ServersUntouched ==
  ASSUME TypeOK, LInv, NEW o \in Ops, NEW step, Goto(o, step),
         pc[o] \notin Closing \cup {"socks", "publish", "dead"},
         step \in StartSteps \cup StopSteps \cup {"done", "stuck"},
         MuFree' => MuFree,
         step \in StartSteps \cup StopSteps => opMu' = o /\ opMu \in {o, None},
         step = "done" => opMu' = IF opMu = o THEN None ELSE opMu,
         step = "stuck" => opMu' = opMu,
         UNCHANGED <<running, server, ln, closed, serve>>
  PROVE  LInv'
<1>1. o # Main /\ Ops \subseteq Procs /\ Main \in Procs /\ None \notin Ops
  BY ConstantsFit DEF Procs
<1>2. OneAtATime'
  BY <1>1 DEF TypeOK, LInv, OneAtATime, StartSteps, StopSteps
<1>3. ReturnedIsClosed'
  BY <1>1 DEF TypeOK, LInv, ReturnedIsClosed
<1>4. Reachable'
  BY <1>1 DEF TypeOK, LInv, Reachable, Closing
<1> QED
  BY <1>2, <1>3, <1>4 DEF LInv

LEMMA ServersRPC ==
  ASSUME Serialised, IInv, LInv, NEW o \in Ops, RPC(o)
  PROVE  LInv'
<1>0. TypeOK /\ o # None
  BY ConstantsFit DEF IInv
<1>1. CASE StartProxy(o)
  BY <1>0, <1>1, ServersUntouched DEF StartProxy, StartSteps, StopSteps, Closing, MuFree
<1>2. CASE StopProxy(o)
  BY <1>0, <1>2, ServersUntouched DEF StopProxy, StartSteps, StopSteps, Closing, MuFree
<1>3. CASE ReloadConfig(o)
  <2>1. opMu # o \/ opMu = o
    OBVIOUS
  <2>2. OneAtATime' /\ ReturnedIsClosed' /\ Reachable'
    BY <1>0, <1>3, ConstantsFit DEF ReloadConfig, TypeOK, LInv, OneAtATime,
       ReturnedIsClosed, Reachable, StartSteps, StopSteps, Closing, Procs, MuFree
  <2> QED
    BY <2>2 DEF LInv
<1>4. CASE ReloadBlocks(o)
  <2>1. ~MuFree'
    BY <1>0, <1>4 DEF ReloadBlocks, MuFree
  <2>2. OneAtATime' /\ ReturnedIsClosed'
    BY <1>0, <1>4, ConstantsFit DEF ReloadBlocks, TypeOK, LInv, OneAtATime,
       ReturnedIsClosed, StartSteps, StopSteps, Procs
  <2> QED
    BY <2>1, <2>2 DEF LInv, Reachable
<1> QED
  BY <1>1, <1>2, <1>3, <1>4 DEF RPC

LEMMA ServersStart ==
  ASSUME IInv, LInv, NEW o \in Ops, StartStep(o)
  PROVE  LInv'
<1>0. TypeOK /\ o # None /\ o # Main /\ Ops \subseteq Procs /\ Main \in Procs
  BY ConstantsFit DEF IInv, Procs
<1>1. pc[o] \in StartSteps => opMu = o
  BY DEF LInv, OneAtATime
<1>2. CASE EnsurePort(o)
  BY <1>0, <1>1, <1>2, ServersUntouched DEF EnsurePort, StartSteps, Closing, MuFree
<1>3. CASE EnsurePortKillsSelf(o)
  BY <1>0, <1>3 DEF EnsurePortKillsSelf, EndProcess, LInv, OneAtATime,
     ReturnedIsClosed, Reachable, StartSteps, StopSteps
<1>4. CASE SetListenPort(o)
  <2>1. CASE running
    BY <1>0, <1>1, <1>4, <2>1, ServersUntouched
       DEF SetListenPort, StartSteps, StopSteps, Closing, MuFree
  <2>2. CASE ~running
    BY <1>0, <1>1, <1>4, <2>2, ServersUntouched
       DEF SetListenPort, StartSteps, StopSteps, Closing, MuFree
  <2> QED
    BY <2>1, <2>2
<1>5. CASE StartSection(o)
  BY <1>0, <1>1, <1>5, ServersUntouched DEF StartSection, StartSteps, Closing, MuFree
<1>6. CASE WaitForListen(o)
  BY <1>0, <1>1, <1>6, ServersUntouched
     DEF WaitForListen, StartSteps, StopSteps, Closing, MuFree
<1>7. CASE StartListens(o)
  <2>1. serve[o] = "none"
    BY <1>7 DEF StartListens, IInv, Unpublished, BeforePublish
  <2>2. CASE Bindable(port[o])
    BY <1>0, <1>1, <1>7, <2>1, <2>2 DEF StartListens, TypeOK, LInv, OneAtATime,
       ReturnedIsClosed, Reachable, StartSteps, StopSteps, Closing, MuFree
  <2>3. CASE ~Bindable(port[o])
    <3>1. CASE ~poolLocked
      BY <1>0, <1>1, <1>7, <2>3, <3>1, ServersUntouched
         DEF StartListens, StartSteps, StopSteps, Closing, MuFree
    <3>2. CASE poolLocked
      BY <1>0, <1>1, <1>7, <2>3, <3>2, ServersUntouched
         DEF StartListens, StartSteps, StopSteps, Closing, MuFree
    <3> QED
      BY <3>1, <3>2
  <2> QED
    BY <2>2, <2>3
<1>8. CASE StartSocks(o)
  BY <1>0, <1>1, <1>8 DEF StartSocks, TypeOK, LInv, OneAtATime,
     ReturnedIsClosed, Reachable, StartSteps, StopSteps, Closing, MuFree
<1>9. CASE StartPublishes(o)
  <2>1. \A q \in Ops : pc[q] \notin Closing
    BY <1>0, <1>9 DEF StartPublishes, LInv, OneAtATime, StartSteps, StopSteps,
       Closing
  <2>2. OneAtATime' /\ ReturnedIsClosed'
    BY <1>0, <1>1, <1>9 DEF StartPublishes, TypeOK, LInv, OneAtATime,
       ReturnedIsClosed, StartSteps, StopSteps
  <2>3. Reachable'
    BY <1>0, <1>9, <2>1 DEF StartPublishes, TypeOK, LInv, Reachable, Closing, MuFree
  <2> QED
    BY <2>2, <2>3 DEF LInv
<1>10. CASE StartLaunches(o)
  <2>1. serve[o] = "none"
    BY <1>10 DEF StartLaunches, IInv, Unpublished, BeforePublish
  <2> QED
    BY <1>0, <1>1, <1>10, <2>1 DEF StartLaunches, TypeOK, LInv, OneAtATime,
       ReturnedIsClosed, Reachable, StartSteps, StopSteps, Closing, MuFree
<1>11. CASE StartBlocks(o)
  BY <1>0, <1>1, <1>11, ServersUntouched
     DEF StartBlocks, StartSteps, StopSteps, Closing, MuFree
<1> QED
  BY <1>2, <1>3, <1>4, <1>5, <1>6, <1>7, <1>8, <1>9, <1>10, <1>11 DEF StartStep

LEMMA ServersStop ==
  ASSUME IInv, LInv, NEW o \in Procs, StopStep(o)
  PROVE  LInv'
<1>0. /\ TypeOK /\ Main \notin Ops /\ None \notin Ops /\ Main \in Procs
      /\ Ops \subseteq Procs
      /\ o \in Ops \/ o = Main
  BY ConstantsFit DEF IInv, Procs
<1>1. OneAtATime'
  BY <1>0 DEF StopStep, StopSection, StopBlocks, StopClosesSocks, StopWaits,
     StopClosesServer, TypeOK, LInv, OneAtATime, StartSteps, StopSteps
<1>2. ReturnedIsClosed'
  BY <1>0 DEF StopStep, StopSection, StopBlocks, StopClosesSocks, StopWaits,
     StopClosesServer, TypeOK, LInv, ReturnedIsClosed
<1>3. CASE o = Main
  <2>1. pc'[Main] \notin {"idle", "stop", "stuck"} \/ ~MuFree'
    BY <1>0, <1>3, ConstantsFit DEF StopStep, StopSection, StopBlocks,
       StopClosesSocks, StopWaits, StopClosesServer, TypeOK, MuFree
  <2> QED
    BY <1>1, <1>2, <2>1 DEF LInv, Reachable
<1>4. CASE o \in Ops
  <2>1. StopSection(o) => Reachable'
    BY <1>0, <1>4 DEF StopSection, TypeOK, LInv, Reachable, Closing, MuFree
  <2>2. StopClosesSocks(o) \/ StopWaits(o) => Reachable'
    BY <1>0, <1>4
       DEF StopClosesSocks, StopWaits, TypeOK, LInv, Reachable, Closing, MuFree
  <2>3. StopClosesServer(o) => Reachable'
    BY <1>0, <1>4 DEF StopClosesServer, TypeOK, LInv, Reachable,
       ReturnedIsClosed, Closing, MuFree
  <2>4. StopBlocks(o) => Reachable'
    BY <1>0, <1>4 DEF StopBlocks, Reachable, MuFree
  <2>5. Reachable'
    BY <2>1, <2>2, <2>3, <2>4 DEF StopStep
  <2> QED
    BY <1>1, <1>2, <2>5 DEF LInv
<1> QED
  BY <1>0, <1>3, <1>4

LEMMA ServersGoroutine ==
  ASSUME IInv, LInv, NEW s \in Ops, Goroutine(s)
  PROVE  LInv'
<1>0. TypeOK
  BY DEF IInv
<1>1. CASE ServeStarts(s)
  BY <1>0, <1>1 DEF ServeStarts, TypeOK, LInv, OneAtATime, ReturnedIsClosed,
     Reachable, MuFree
<1>2. CASE ServeReturns(s)
  BY <1>0, <1>2 DEF ServeReturns, TypeOK, LInv, OneAtATime, ReturnedIsClosed,
     Reachable, MuFree
<1>3. CASE ServeEnds(s)
  BY <1>0, <1>3 DEF ServeEnds, TypeOK, LInv, OneAtATime, ReturnedIsClosed,
     Reachable, MuFree
<1>4. CASE SocksLoopEnds(s)
  BY <1>0, <1>4 DEF SocksLoopEnds, LInv, OneAtATime, ReturnedIsClosed, Reachable, MuFree
<1> QED
  BY <1>1, <1>2, <1>3, <1>4 DEF Goroutine

LEMMA ServersNext == Serialised /\ IInv /\ LInv /\ [Next]_vars => LInv'
<1> SUFFICES ASSUME Serialised, IInv, LInv, [Next]_vars PROVE LInv'
  OBVIOUS
<1>1. CASE Shutdown
  BY <1>1, ConstantsFit DEF Shutdown, IInv, TypeOK, LInv, OneAtATime,
     ReturnedIsClosed, Reachable, Procs, Closing, MuFree
<1>2. CASE ProcessExits
  BY <1>2, ConstantsFit DEF ProcessExits, EndProcess, LInv, OneAtATime,
     ReturnedIsClosed, Reachable, StartSteps, StopSteps, Procs
<1>3. CASE UNCHANGED vars \/ ReportFailure
  BY <1>3 DEF vars, ReportFailure, LInv, OneAtATime, ReturnedIsClosed, Reachable, MuFree
<1> QED
  BY <1>1, <1>2, <1>3, ServersRPC, ServersStart, ServersStop, ServersGoroutine
     DEF Next

\* With startProxy and stopProxy serialised, no HTTP listener is left open out
\* of Stop's reach, even though Serve may fail at any time, a goroutine of an
\* older server may run late, reloadConfig may move the address under Start,
\* and the shutdown's Stop overlaps everything; until a call is stuck in the
\* pool's leaked lock with mu held.
THEOREM NoOrphans == Serialised /\ Spec => []NoOrphanServer
<1> SUFFICES ASSUME Serialised PROVE Spec => []NoOrphanServer
  OBVIOUS
<1>1. Init => LInv
  BY DEF Init, LInv, OneAtATime, ReturnedIsClosed, Reachable, StartSteps,
     StopSteps, Procs
<1>2. IInv /\ LInv => NoOrphanServer
  <2> SUFFICES ASSUME IInv, LInv PROVE NoOrphanServer
    OBVIOUS
  <2>1. pc[Main] \in {"idle", "stop", "stuck", "dead", "done"} \cup Closing
    BY DEF IInv, TypeOK, Procs, StartSteps, StopSteps, Closing
  <2> QED
    BY <2>1 DEF LInv, ReturnedIsClosed, Reachable, NoOrphanServer, Stopping,
       Closing, Procs
<1>3. IInv /\ LInv /\ [Next]_vars => LInv'
  BY ServersNext
<1> QED
  BY <1>1, <1>2, <1>3, InitIInv, NextKeeps, PTL DEF Spec
-----------------------------------------------------------------------------
(***************************************************************************)
(* The pool.  Start starts it before it listens, and Stop stops it: the    *)
(* two agree with running because proxyOpMu keeps any other call out, until *)
(* a shutdown is past its section.                                         *)
(***************************************************************************)
Opening == {"listen", "socks", "publish"}

\* A call that has not published its server has not had it closed.
UnpublishedOpen == \A o \in Ops : pc[o] \in BeforePublish => o \notin closed

PoolAgrees ==
    pc[Main] \in {"idle", "stop", "stuck"} =>
        /\ running => poolRunning /\ server \notin closed
        /\ \A o \in Ops : pc[o] \in Opening => poolRunning /\ ~running
        /\ \A o \in Ops : pc[o] \in Closing => ~poolRunning /\ ~running
        /\ poolRunning /\ ~running =>
             \/ server # None /\ server \notin closed
             \/ \E o \in Ops : pc[o] \in Opening \/ (pc[o] = "stuck" /\ opMu = o)

DeadIsDown == pc[Main] = "dead" => ~running /\ ~poolRunning

PInv == UnpublishedOpen /\ PoolAgrees /\ DeadIsDown

\* A step of one call that touches neither the pool nor what it follows.
LEMMA PoolUntouched ==
  ASSUME TypeOK, PInv, NEW o \in Ops, NEW step, Goto(o, step),
         pc[o] \notin Closing \cup Opening, step \notin Closing \cup Opening,
         step \in BeforePublish => pc[o] \in BeforePublish,
         pc[o] # "stuck", \A q \in Ops : q # o /\ opMu = q => opMu' = q,
         UNCHANGED <<running, poolRunning, server, closed>>
  PROVE  PInv'
<1>1. o # Main /\ Ops \subseteq Procs /\ Main \in Procs
  BY ConstantsFit DEF Procs
<1>2. pc'[Main] = pc[Main] /\ \A q \in Ops : pc'[q] = IF q = o THEN step ELSE pc[q]
  BY <1>1 DEF TypeOK
<1>3. UnpublishedOpen'
  BY <1>2 DEF PInv, UnpublishedOpen
<1>4. PoolAgrees'
  BY <1>2 DEF PInv, PoolAgrees
<1>5. DeadIsDown'
  BY <1>2 DEF PInv, DeadIsDown
<1> QED
  BY <1>3, <1>4, <1>5 DEF PInv

LEMMA PoolRPC ==
  ASSUME TypeOK, PInv, NEW o \in Ops, RPC(o)
  PROVE  PInv'
<1>1. CASE StartProxy(o)
  BY <1>1, ConstantsFit, PoolUntouched DEF StartProxy, BeforePublish, Opening, Closing
<1>2. CASE StopProxy(o)
  BY <1>2, ConstantsFit, PoolUntouched DEF StopProxy, BeforePublish, Opening, Closing
<1>3. CASE ReloadConfig(o)
  BY <1>3, PoolUntouched DEF ReloadConfig, BeforePublish, Opening, Closing
<1>4. CASE ReloadBlocks(o)
  BY <1>4, PoolUntouched DEF ReloadBlocks, BeforePublish, Opening, Closing
<1> QED
  BY <1>1, <1>2, <1>3, <1>4 DEF RPC

LEMMA PoolStart ==
  ASSUME IInv, LInv, PInv, NEW o \in Ops, StartStep(o)
  PROVE  PInv'
<1>0. TypeOK /\ o # None /\ o # Main /\ Ops \subseteq Procs /\ Main \in Procs
  BY ConstantsFit DEF IInv, Procs
<1>1. pc[o] \in StartSteps => \A q \in Ops \ {o} : pc[q] \notin Opening \cup Closing
  BY <1>0 DEF LInv, OneAtATime, StartSteps, StopSteps, Opening, Closing
<1>2. CASE EnsurePort(o)
  BY <1>0, <1>2, PoolUntouched DEF EnsurePort, BeforePublish, Opening, Closing
<1>3. CASE EnsurePortKillsSelf(o)
  BY <1>0, <1>3 DEF EnsurePortKillsSelf, EndProcess, PInv, UnpublishedOpen,
     PoolAgrees, DeadIsDown, BeforePublish
<1>4. CASE SetListenPort(o)
  BY <1>0, <1>4, PoolUntouched DEF SetListenPort, BeforePublish, Opening, Closing
<1>5. CASE StartSection(o)
  <2>1. CASE running
    BY <1>0, <1>5, <2>1, PoolUntouched
       DEF StartSection, BeforePublish, Opening, Closing
  <2>2. CASE ~running
    <3>1. /\ \A q \in Procs : pc'[q] = IF q = o THEN "listen" ELSE pc[q]
          /\ poolRunning' /\ UNCHANGED <<running, server, closed>>
          /\ pc[o] = "start"
      BY <1>0, <1>5, <2>2 DEF StartSection, TypeOK
    <3>2. UnpublishedOpen'
      BY <1>0, <3>1 DEF PInv, UnpublishedOpen, BeforePublish
    <3>3. PoolAgrees'
      BY <1>0, <1>1, <2>2, <3>1 DEF PInv, PoolAgrees, Opening, Closing, StartSteps
    <3>4. DeadIsDown'
      <4>1. pc[Main] # "dead"
        BY <1>0, <3>1 DEF LInv, ReturnedIsClosed
      <4> QED
        BY <1>0, <3>1, <4>1 DEF DeadIsDown
    <3> QED
      BY <3>2, <3>3, <3>4 DEF PInv
  <2> QED
    BY <2>1, <2>2
<1>6. CASE WaitForListen(o)
  BY <1>0, <1>6, PoolUntouched DEF WaitForListen, BeforePublish, Opening, Closing
<1>7. CASE StartListens(o)
  <2>1. CASE Bindable(port[o])
    <3>1. /\ \A q \in Procs : pc'[q] = IF q = o THEN "socks" ELSE pc[q]
          /\ UNCHANGED <<poolRunning, running, server, closed>>
          /\ pc[o] = "listen"
      BY <1>0, <1>7, <2>1 DEF StartListens, TypeOK
    <3> QED
      BY <1>0, <3>1 DEF PInv, UnpublishedOpen, PoolAgrees, DeadIsDown,
         BeforePublish, Opening, Closing
  <2>2. CASE ~Bindable(port[o]) /\ poolLocked
    <3>1. /\ \A q \in Procs : pc'[q] = IF q = o THEN "stuck" ELSE pc[q]
          /\ UNCHANGED <<opMu, poolRunning, running, server, closed>>
          /\ pc[o] = "listen"
      BY <1>0, <1>7, <2>2 DEF StartListens, TypeOK
    <3>2. opMu = o
      BY <3>1 DEF LInv, OneAtATime, StartSteps
    <3> QED
      BY <1>0, <3>1, <3>2 DEF PInv, UnpublishedOpen, PoolAgrees, DeadIsDown,
         BeforePublish, Opening, Closing
  <2>3. CASE ~Bindable(port[o]) /\ ~poolLocked
    <3>1. /\ \A q \in Procs : pc'[q] = IF q = o THEN "done" ELSE pc[q]
          /\ ~poolRunning' /\ UNCHANGED <<running, server, closed>>
          /\ pc[o] = "listen"
      BY <1>0, <1>7, <2>3 DEF StartListens, TypeOK
    <3>2. \A q \in Ops : pc'[q] \notin Opening \cup Closing
      BY <1>0, <1>1, <3>1 DEF Opening, Closing, StartSteps
    <3> QED
      BY <1>0, <3>1, <3>2 DEF PInv, UnpublishedOpen, PoolAgrees, DeadIsDown,
         BeforePublish, Opening
  <2> QED
    BY <2>1, <2>2, <2>3
<1>8. CASE StartSocks(o)
  <2>1. /\ \A q \in Procs : pc'[q] = IF q = o THEN "publish" ELSE pc[q]
        /\ UNCHANGED <<poolRunning, running, server, closed>>
        /\ pc[o] = "socks"
    BY <1>0, <1>8 DEF StartSocks, TypeOK
  <2> QED
    BY <1>0, <2>1 DEF PInv, UnpublishedOpen, PoolAgrees, DeadIsDown,
       BeforePublish, Opening, Closing
<1>9. CASE StartPublishes(o)
  <2>0. pc[o] = "publish" /\ closed' = closed /\ poolRunning' = poolRunning /\ o \notin closed
    BY <1>9 DEF StartPublishes, PInv, UnpublishedOpen, BeforePublish
  <2>1. CASE running
    <3>1. /\ \A q \in Procs : pc'[q] = IF q = o THEN "wait" ELSE pc[q]
          /\ UNCHANGED <<running, server>>
      BY <1>0, <1>9, <2>1 DEF StartPublishes, TypeOK
    <3>2. pc[Main] \notin {"idle", "stop", "stuck"}
      BY <2>0, <2>1 DEF PInv, PoolAgrees, Opening
    <3> QED
      BY <1>0, <2>0, <3>1, <3>2 DEF PInv, UnpublishedOpen, PoolAgrees, DeadIsDown,
         BeforePublish
  <2>2. CASE ~running
    <3>1. /\ \A q \in Procs : pc'[q] = IF q = o THEN "launch" ELSE pc[q]
          /\ running' /\ server' = o
      BY <1>0, <1>9, <2>2 DEF StartPublishes, TypeOK
    <3>2. \A q \in Ops : pc'[q] \notin Opening \cup Closing
      BY <1>0, <1>1, <2>0, <3>1 DEF Opening, Closing, StartSteps
    <3>3. pc[Main] # "dead"
      BY <1>0, <2>0 DEF LInv, ReturnedIsClosed
    <3>4. UnpublishedOpen' /\ DeadIsDown'
      BY <1>0, <2>0, <3>1, <3>3 DEF PInv, UnpublishedOpen, DeadIsDown, BeforePublish
    <3>5. PoolAgrees'
      BY <1>0, <2>0, <3>1, <3>2 DEF PInv, PoolAgrees, Opening
    <3> QED
      BY <3>4, <3>5 DEF PInv
  <2> QED
    BY <2>1, <2>2
<1>10. CASE StartLaunches(o)
  BY <1>0, <1>10, PoolUntouched DEF StartLaunches, BeforePublish, Opening, Closing
<1>11. CASE StartBlocks(o)
  BY <1>0, <1>11, PoolUntouched DEF StartBlocks, BeforePublish, Opening, Closing
<1> QED
  BY <1>2, <1>3, <1>4, <1>5, <1>6, <1>7, <1>8, <1>9, <1>10, <1>11 DEF StartStep

LEMMA PoolStop ==
  ASSUME IInv, LInv, PInv, NEW o \in Procs, StopStep(o)
  PROVE  PInv'
<1>0. /\ TypeOK /\ Main \notin Ops /\ None \notin Ops /\ Main \in Procs
      /\ Ops \subseteq Procs
      /\ o \in Ops \/ o = Main
  BY ConstantsFit DEF IInv, Procs
<1>1. UnpublishedOpen'
  <2>1. \A q \in Ops : pc'[q] \in BeforePublish => pc'[q] = pc[q]
    BY <1>0 DEF StopStep, StopSection, StopBlocks, StopClosesSocks, StopWaits,
       StopClosesServer, TypeOK, BeforePublish
  <2>2. closed' \subseteq closed \cup {server}
    BY DEF StopStep, StopSection, StopBlocks, StopClosesSocks, StopWaits, StopClosesServer
  <2> QED
    BY <2>1, <2>2 DEF PInv, UnpublishedOpen, IInv, Unpublished
<1>2. CASE o = Main
  <2>1. CASE StopBlocks(o)
    <3>1. /\ pc[Main] = "stop" /\ pc'[Main] = "stuck" /\ \A q \in Ops : pc'[q] = pc[q]
          /\ running /\ ~running' /\ UNCHANGED <<opMu, poolRunning, server, closed>>
      BY <1>0, <1>2, <2>1 DEF StopBlocks, TypeOK
    <3>2. server # None
      BY <3>1 DEF IInv, RunningIsServed
    <3> QED
      BY <1>1, <3>1, <3>2 DEF PInv, PoolAgrees, DeadIsDown
  <2>2. CASE ~StopBlocks(o)
    <3>1. pc'[Main] \notin {"idle", "stop", "stuck", "dead"}
      BY <1>0, <1>2, <2>2 DEF StopStep, StopSection, StopClosesSocks, StopWaits,
         StopClosesServer, TypeOK
    <3> QED
      BY <1>1, <3>1 DEF PInv, PoolAgrees, DeadIsDown
  <2> QED
    BY <2>1, <2>2
<1>3. CASE o \in Ops
  <2>0. /\ pc'[Main] = pc[Main] /\ pc[Main] # "dead"
        /\ \A q \in Ops \ {o} : pc'[q] = pc[q] /\ pc[q] \notin Opening \cup Closing
        /\ pc'[o] \notin Opening
    BY <1>0, <1>3 DEF StopStep, StopSection, StopBlocks, StopClosesSocks, StopWaits,
       StopClosesServer, TypeOK, LInv, OneAtATime, ReturnedIsClosed,
       StartSteps, StopSteps, Opening, Closing
  <2>1. StopSection(o) => PoolAgrees'
    <3> SUFFICES ASSUME StopSection(o), pc[Main] \in {"idle", "stop", "stuck"} PROVE PoolAgrees'
      BY <2>0 DEF PoolAgrees
    <3>1. CASE running
      BY <1>0, <1>3, <2>0, <3>1 DEF StopSection, TypeOK, PInv, PoolAgrees, Closing
    <3>2. CASE ~running
      <4>1. pc[o] = "stop" /\ pc'[o] = "done" /\ UNCHANGED <<running, poolRunning, server, closed>>
        BY <1>0, <3>2 DEF StopSection, TypeOK
      <4>2. opMu = o
        BY <1>3, <4>1 DEF LInv, OneAtATime, StopSteps
      <4> QED
        BY <2>0, <3>2, <4>1, <4>2 DEF PInv, PoolAgrees, Opening, Closing
    <3> QED
      BY <3>1, <3>2
  <2>2. StopClosesSocks(o) \/ StopWaits(o) => PoolAgrees'
    <3> SUFFICES ASSUME StopClosesSocks(o) \/ StopWaits(o) PROVE PoolAgrees'
      OBVIOUS
    <3>1. pc[o] \in Closing /\ UNCHANGED <<running, poolRunning, server, closed>>
      BY DEF StopClosesSocks, StopWaits, Closing
    <3> QED
      BY <1>3, <2>0, <3>1 DEF PInv, PoolAgrees, Opening
  <2>3. StopClosesServer(o) => PoolAgrees'
    BY <1>0, <1>3, <2>0 DEF StopClosesServer, PInv, PoolAgrees, Closing
  <2>4. StopBlocks(o) => PoolAgrees'
    <3> SUFFICES ASSUME StopBlocks(o) PROVE PoolAgrees'
      OBVIOUS
    <3>1. /\ pc'[o] = "stuck" /\ running /\ ~running'
          /\ UNCHANGED <<opMu, poolRunning, server, closed>>
      BY <1>0, <1>3 DEF StopBlocks, TypeOK
    <3>2. server # None
      BY <3>1 DEF IInv, RunningIsServed
    <3> QED
      BY <1>3, <2>0, <3>1, <3>2 DEF PInv, PoolAgrees, Opening, Closing
  <2>5. DeadIsDown'
    BY <2>0 DEF DeadIsDown
  <2> QED
    BY <1>1, <2>1, <2>2, <2>3, <2>4, <2>5 DEF StopStep, PInv
<1> QED
  BY <1>0, <1>2, <1>3

LEMMA PoolGoroutine ==
  ASSUME IInv, PInv, NEW s \in Ops, Goroutine(s)
  PROVE  PInv'
<1>1. /\ UNCHANGED <<pc, opMu, poolRunning, server, closed>>
      /\ running' = running \/ (running' = FALSE /\ server = s)
  BY DEF Goroutine, ServeStarts, ServeReturns, ServeEnds, SocksLoopEnds
<1>2. UnpublishedOpen' /\ DeadIsDown'
  BY <1>1 DEF PInv, UnpublishedOpen, DeadIsDown
<1>3. PoolAgrees'
  BY <1>1, ConstantsFit DEF PInv, PoolAgrees, IInv, RunningIsServed
<1> QED
  BY <1>2, <1>3 DEF PInv

LEMMA PoolNext == IInv /\ LInv /\ PInv /\ [Next]_vars => PInv'
<1> SUFFICES ASSUME IInv, LInv, PInv, [Next]_vars PROVE PInv'
  OBVIOUS
<1>0. TypeOK
  BY DEF IInv
<1>1. CASE Shutdown
  <2>1. /\ pc'[Main] = "stop" /\ pc[Main] = "idle" /\ \A q \in Ops : pc'[q] = pc[q]
        /\ UNCHANGED <<opMu, running, poolRunning, server, closed>>
    BY <1>0, <1>1, ConstantsFit DEF Shutdown, TypeOK, Procs
  <2> QED
    BY <2>1 DEF PInv, UnpublishedOpen, PoolAgrees, DeadIsDown
<1>2. CASE ProcessExits
  BY <1>2, ConstantsFit DEF ProcessExits, EndProcess, PInv, UnpublishedOpen,
     PoolAgrees, DeadIsDown, BeforePublish, Procs
<1>3. CASE UNCHANGED vars \/ ReportFailure
  BY <1>3 DEF vars, ReportFailure, PInv, UnpublishedOpen, PoolAgrees, DeadIsDown
<1> QED
  BY <1>0, <1>1, <1>2, <1>3, PoolRPC, PoolStart, PoolStop, PoolGoroutine DEF Next

\* With startProxy and stopProxy serialised, nothing of the proxy is left
\* running out of Stop's reach: not its server, not its SOCKS5 listener, and
\* the pool runs with it, but for a Serve that failed by itself and for a
\* server whose Stop is stuck in the pool's leaked lock.
THEOREM ListenersAlwaysOwned == Serialised /\ Spec => []ListenersOwned
<1> SUFFICES ASSUME Serialised PROVE Spec => []ListenersOwned
  OBVIOUS
<1>1. Init => LInv
  BY DEF Init, LInv, OneAtATime, ReturnedIsClosed, Reachable, StartSteps,
     StopSteps, Procs
<1>2. Init => PInv
  BY ConstantsFit DEF Init, PInv, UnpublishedOpen, PoolAgrees, DeadIsDown, Procs,
     Opening, Closing
<1>3. IInv /\ LInv /\ PInv => PoolFollows
  <2> SUFFICES ASSUME IInv, LInv, PInv, opMu = None, ~Stopping PROVE PoolFollows
    BY DEF PoolFollows
  <2>1. \A o \in Ops : pc[o] \notin Opening
    BY ConstantsFit DEF LInv, OneAtATime, StartSteps, Opening
  <2>2. pc[Main] \in {"idle", "stop", "stuck", "dead"}
    BY ConstantsFit DEF IInv, TypeOK, Procs, StartSteps, StopSteps, Stopping
  <2> QED
    BY <2>1, <2>2, ConstantsFit DEF PInv, PoolAgrees, DeadIsDown, PoolFollows
<1>4. IInv /\ LInv /\ [Next]_vars => LInv'
  BY ServersNext
<1>5. Spec => []PoolFollows
  BY <1>1, <1>2, <1>3, <1>4, InitIInv, NextKeeps, PoolNext, PTL DEF Spec
<1>6. Spec => []NoOrphanServer
  BY NoOrphans
<1> QED
  BY <1>5, <1>6, ProxyTypeCorrect, SocksAlwaysOwned, PTL DEF ListenersOwned
=============================================================================
