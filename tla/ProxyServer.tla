---------------------------- MODULE ProxyServer ----------------------------
(***************************************************************************)
(* The start and the stop of the local proxy: proxy.ProxyServer with its   *)
(* HTTP server, its SOCKS5 listener and its Cloudflare pool, driven by the *)
(* core's RPC handlers startProxy, stopProxy and reloadConfig and by the   *)
(* shutdown that ends the core process.  startProxy and stopProxy are      *)
(* serialised by coreRuntime.proxyOpMu; reloadConfig and shutdown are not. *)
(* Every critical section of ProxyServer.mu is one step, and so is every   *)
(* call made outside it.                                                   *)
(***************************************************************************)
EXTENDS Naturals, FiniteSets

CONSTANTS
    Ops,        \* the RPC calls that reach the core
    MaxPort,    \* the listen ports are 1..MaxPort
    Others,     \* ports other processes listen on at the start
    Stale,      \* of these, the ones of an older NovaProxy or usque process
    Remote,     \* ports that the TCP table shows as somebody's remote port
    Serialised, \* startProxy and stopProxy take proxyOpMu
    Main,       \* the goroutine of runCoreMain
    None        \* nil

Ports == 1 .. MaxPort

ASSUME ConstantsFit ==
    /\ MaxPort \in Nat \ {0}
    /\ Others \subseteq Ports
    /\ Stale \subseteq Others
    /\ Remote \subseteq Ports
    /\ Serialised \in BOOLEAN
    /\ Main \notin Ops
    /\ None \notin Ops \cup {Main}

Procs == Ops \cup {Main}

VARIABLES
    pc,            \* where each call is
    opMu,          \* the call that holds coreRuntime.proxyOpMu
    port,          \* the call's own port: the one EnsurePortAvailable found,
                   \* then the listenAddr that Start copied
    taken,         \* the socksListener that the call's Stop took out
    listenAddr,    \* ProxyServer.listenAddr, by its port
    running,       \* ProxyServer.running
    server,        \* ProxyServer.Server, named by the call that created it
    socksListener, \* ProxyServer.socksListener, named in the same way
    poolRunning,   \* cfPool is started
    ln,            \* the HTTP listener of each server: its port, 0 when closed
    closed,        \* servers whose Close was called
    serve,         \* the goroutine that serves each server
    socksOpen,     \* SOCKS5 listeners that are open
    socksLoops,    \* accept loops counted by socksWg
    others,        \* ports other processes listen on
    mu,            \* the call that waits for the pool with ProxyServer.mu held
    poolLocked     \* ReportFailure has left CloudflarePool.mu locked

local == <<port, taken>>
fields == <<listenAddr, running, server, socksListener, poolRunning>>
sockets == <<ln, closed, serve, socksOpen, socksLoops>>
locks == <<mu, poolLocked>>
vars == <<pc, opMu, local, fields, sockets, others, locks>>

StartSteps == {"ensure", "setPort", "start", "listen", "socks", "publish",
               "launch", "wait"}
StopSteps == {"stop", "closeSocks", "wgWait", "closeServer"}

Init ==
    /\ pc = [o \in Procs |-> "idle"]
    /\ opMu = None
    /\ port = [o \in Ops |-> 0]
    /\ taken = [o \in Procs |-> None]
    /\ listenAddr \in Ports
    /\ running = FALSE
    /\ server = None
    /\ socksListener = None
    /\ poolRunning = FALSE
    /\ ln = [o \in Ops |-> 0]
    /\ closed = {}
    /\ serve = [o \in Ops |-> "none"]
    /\ socksOpen = {}
    /\ socksLoops = {}
    /\ others = Others
    /\ mu = None
    /\ poolLocked = FALSE

Goto(o, step) == pc' = [pc EXCEPT ![o] = step]

\* The handler returns: the deferred Unlock of proxyOpMu, when it holds it.
Return(o) ==
    /\ Goto(o, "done")
    /\ opMu' = IF opMu = o THEN None ELSE opMu

\* The process ends: its goroutines with it, and the operating system closes
\* its sockets.
EndProcess ==
    /\ pc' = [p \in Procs |-> "dead"]
    /\ opMu' = None
    /\ running' = FALSE
    /\ poolRunning' = FALSE
    /\ ln' = [s \in Ops |-> 0]
    /\ serve' = [s \in Ops |-> "none"]
    /\ socksOpen' = {}
    /\ socksLoops' = {}
    /\ mu' = None
    /\ poolLocked' = FALSE
    /\ UNCHANGED <<local, listenAddr, server, socksListener, closed, others>>

\* ProxyServer.mu can be taken.  Its critical sections are single steps, but
\* for the ones that call the pool once the pool's own lock is never released:
\* such a call keeps mu for ever.
MuFree == mu = None

Stuck(o) ==
    /\ Goto(o, "stuck")
    /\ mu' = o
    /\ UNCHANGED poolLocked

\* proxyOpMu.Lock: at once for nobody else's turn.
Lock(o) ==
    IF Serialised THEN opMu = None /\ opMu' = o ELSE UNCHANGED opMu

-----------------------------------------------------------------------------
(***************************************************************************)
(* Ports.  EnsurePortAvailable walks at most ten ports up from the one it  *)
(* is given.  It takes the first that the TCP table does not mention and   *)
(* that it can bind, or one held by a process named like NovaProxy that it *)
(* could kill; with none of these it fails and startProxy keeps the port.  *)
(***************************************************************************)
Attempts == 10

Mine(p) == \E s \in Ops : ln[s] = p

Bindable(p) == p \notin others /\ ~Mine(p)

Free(p) == Bindable(p) /\ p \notin Remote

Window(p) == {q \in Ports : p <= q /\ q < p + Attempts}

\* q is tried: no port before it in the window was free.
Tried(p, q) == \A r \in Window(p) : r < q => ~Free(r)

EnsuredPorts(p) ==
    {q \in Window(p) : Tried(p, q) /\ (Free(q) \/ q \in Stale \cap others)}
        \cup {q \in {p} : \A r \in Window(p) : ~Free(r)}

-----------------------------------------------------------------------------
(***************************************************************************)
(* startProxy.                                                             *)
(***************************************************************************)
StartProxy(o) ==
    /\ pc[o] = "idle"
    /\ Lock(o)
    /\ Goto(o, "ensure")
    /\ UNCHANGED <<local, fields, sockets, others, locks>>

\* EnsurePortAvailable answers q; a stale process on q has been killed.
EnsurePort(o) ==
    /\ pc[o] = "ensure"
    /\ MuFree
    /\ \E q \in EnsuredPorts(listenAddr) :
        /\ port' = [port EXCEPT ![o] = q]
        /\ others' = others \ (IF Free(q) THEN {} ELSE {q} \cap Stale)
        /\ Goto(o, IF q = listenAddr THEN "start" ELSE "setPort")
    /\ UNCHANGED <<opMu, taken, fields, sockets, locks>>

\* The core listens on the port itself, and its executable is NovaProxy: the
\* process that EnsurePortAvailable kills is its own.
EnsurePortKillsSelf(o) ==
    /\ pc[o] = "ensure"
    /\ MuFree
    /\ \E q \in Window(listenAddr) : Mine(q) /\ Tried(listenAddr, q)
    /\ EndProcess

\* setListenPort: SetListenAddr refuses while the proxy runs; the address it
\* has set stays when SaveConfig then fails.
SetListenPort(o) ==
    /\ pc[o] = "setPort"
    /\ MuFree
    /\ \/ /\ running
          /\ Return(o)
          /\ UNCHANGED listenAddr
       \/ /\ ~running
          /\ listenAddr' = port[o]
          /\ \/ Goto(o, "start") /\ UNCHANGED opMu
             \/ Return(o)
    /\ UNCHANGED <<local, running, server, socksListener, poolRunning, sockets,
                   others, locks>>

\* The first critical section of Start.
StartSection(o) ==
    /\ pc[o] = "start"
    /\ MuFree
    /\ \/ /\ running
          /\ Goto(o, "wait")
          /\ UNCHANGED <<port, poolRunning>>
       \/ /\ ~running
          /\ ~poolLocked
          /\ port' = [port EXCEPT ![o] = listenAddr]
          /\ poolRunning' = TRUE
          /\ Goto(o, "listen")
    /\ UNCHANGED <<opMu, taken, listenAddr, running, server, socksListener,
                   sockets, others, locks>>

\* cfPool.Start is called inside the section and waits for the pool's lock.
StartBlocks(o) ==
    /\ pc[o] = "start"
    /\ MuFree
    /\ ~running /\ poolLocked
    /\ Stuck(o)
    /\ UNCHANGED <<opMu, local, fields, sockets, others>>

\* net.Listen on the address that the section copied.
StartListens(o) ==
    /\ pc[o] = "listen"
    /\ \/ /\ Bindable(port[o])
          /\ ln' = [ln EXCEPT ![o] = port[o]]
          /\ Goto(o, "socks")
          /\ UNCHANGED <<opMu, poolRunning>>
       \/ /\ ~Bindable(port[o])
          /\ ~poolLocked
          /\ poolRunning' = FALSE
          /\ Return(o)
          /\ UNCHANGED ln
       \/ /\ ~Bindable(port[o])
          /\ poolLocked      \* cfPool.Stop, without mu
          /\ Goto(o, "stuck")
          /\ UNCHANGED <<opMu, poolRunning, ln>>
    /\ UNCHANGED <<local, listenAddr, running, server, socksListener, closed,
                   serve, socksOpen, socksLoops, others, locks>>

\* net.Listen on the SOCKS5 address; a failure is only logged.
StartSocks(o) ==
    /\ pc[o] = "socks"
    /\ MuFree
    /\ \/ /\ socksOpen = {}
          /\ socksOpen' = {o}
       \/ UNCHANGED socksOpen
    /\ Goto(o, "publish")
    /\ UNCHANGED <<opMu, local, fields, ln, closed, serve, socksLoops, others, locks>>

\* The second critical section of Start: it looks at running again.
StartPublishes(o) ==
    /\ pc[o] = "publish"
    /\ MuFree
    /\ \/ /\ running
          /\ ln' = [ln EXCEPT ![o] = 0]
          /\ socksOpen' = socksOpen \ {o}
          /\ Goto(o, "wait")
          /\ UNCHANGED <<running, server, socksListener>>
       \/ /\ ~running
          /\ server' = o
          /\ running' = TRUE
          /\ socksListener' = IF o \in socksOpen THEN o ELSE socksListener
          /\ Goto(o, "launch")
          /\ UNCHANGED <<ln, socksOpen>>
    /\ UNCHANGED <<opMu, local, listenAddr, poolRunning, closed, serve,
                   socksLoops, others, locks>>

\* The two go statements that follow it.
StartLaunches(o) ==
    /\ pc[o] = "launch"
    /\ serve' = [serve EXCEPT ![o] = "new"]
    /\ socksLoops' = socksLoops \cup ({o} \cap socksOpen)
    /\ Goto(o, "wait")
    /\ UNCHANGED <<opMu, local, fields, ln, closed, socksOpen, others, locks>>

\* waitForListen dials GetListenAddr: whoever listens there answers.  When
\* nobody does, startProxy stops the proxy and fails.
WaitForListen(o) ==
    /\ pc[o] = "wait"
    /\ MuFree
    /\ \/ /\ ~Bindable(listenAddr)
          /\ Return(o)
       \/ /\ Bindable(listenAddr)
          /\ Goto(o, "stop")
          /\ UNCHANGED opMu
    /\ UNCHANGED <<local, fields, sockets, others, locks>>

-----------------------------------------------------------------------------
(***************************************************************************)
(* stopProxy, reloadConfig and shutdown.                                   *)
(***************************************************************************)
StopProxy(o) ==
    /\ pc[o] = "idle"
    /\ Lock(o)
    /\ Goto(o, "stop")
    /\ UNCHANGED <<local, fields, sockets, others, locks>>

\* runCoreMain has left its accept loop: its deferred shutdown stops the
\* proxy and takes no proxyOpMu.
Shutdown ==
    /\ pc[Main] = "idle"
    /\ Goto(Main, "stop")
    /\ UNCHANGED <<opMu, local, fields, sockets, others, locks>>

\* The critical section of Stop.  cfPool.Stop is called inside it.
StopSection(o) ==
    /\ pc[o] = "stop"
    /\ MuFree
    /\ \/ /\ ~running
          /\ Return(o)
          /\ UNCHANGED <<taken, running, socksListener, poolRunning>>
       \/ /\ running
          /\ ~poolLocked
          /\ running' = FALSE
          /\ poolRunning' = FALSE
          /\ taken' = [taken EXCEPT ![o] = socksListener]
          /\ socksListener' = None
          /\ Goto(o, "closeSocks")
          /\ UNCHANGED opMu
    /\ UNCHANGED <<port, listenAddr, server, sockets, others, locks>>

\* cfPool.Stop waits for the pool's lock: running is cleared by then.
StopBlocks(o) ==
    /\ pc[o] = "stop"
    /\ MuFree
    /\ running /\ poolLocked
    /\ running' = FALSE
    /\ Stuck(o)
    /\ UNCHANGED <<opMu, local, listenAddr, server, socksListener, poolRunning,
                   sockets, others>>

StopClosesSocks(o) ==
    /\ pc[o] = "closeSocks"
    /\ socksOpen' = socksOpen \ {taken[o]}
    /\ Goto(o, "wgWait")
    /\ UNCHANGED <<opMu, local, fields, ln, closed, serve, socksLoops, others, locks>>

\* socksWg.Wait.
StopWaits(o) ==
    /\ pc[o] = "wgWait"
    /\ socksLoops = {}
    /\ Goto(o, "closeServer")
    /\ UNCHANGED <<opMu, local, fields, sockets, others, locks>>

\* p.Server is read without the lock.  Close reaches the listener only when
\* Serve has registered it; otherwise Serve closes it when it gets there.
StopClosesServer(o) ==
    /\ pc[o] = "closeServer"
    /\ closed' = closed \cup {server}
    /\ ln' = IF serve[server] = "accept" THEN [ln EXCEPT ![server] = 0] ELSE ln
    /\ Return(o)
    /\ UNCHANGED <<local, fields, serve, socksOpen, socksLoops, others, locks>>

\* reloadConfig, with q the port of the settings file.  It takes neither
\* proxyOpMu nor any other lock that Start holds across its two sections.
ReloadConfig(o) ==
    /\ pc[o] = "idle"
    /\ MuFree
    /\ \/ /\ running
          /\ UNCHANGED listenAddr
       \/ /\ ~running
          /\ ~poolLocked
          /\ \E q \in Ports : listenAddr' = q
    /\ Goto(o, "done")
    /\ UNCHANGED <<opMu, local, running, server, socksListener, poolRunning,
                   sockets, others, locks>>

\* SetRuleManager calls UpdateIPs with mu held, and waits for the pool's lock.
ReloadBlocks(o) ==
    /\ pc[o] = "idle"
    /\ MuFree
    /\ ~running /\ poolLocked
    /\ \E q \in Ports : listenAddr' = q
    /\ Stuck(o)
    /\ UNCHANGED <<opMu, local, running, server, socksListener, poolRunning,
                   sockets, others>>

\* main returns.
ProcessExits ==
    /\ pc[Main] = "done"
    /\ EndProcess

-----------------------------------------------------------------------------
(***************************************************************************)
(* The goroutines that Start launches.                                     *)
(***************************************************************************)
\* srv.Serve registers the listener, or finds the server closed: it closes
\* the listener and returns.
ServeStarts(s) ==
    /\ serve[s] = "new"
    /\ \/ /\ s \in closed
          /\ ln' = [ln EXCEPT ![s] = 0]
          /\ serve' = [serve EXCEPT ![s] = "tail"]
       \/ /\ s \notin closed
          /\ serve' = [serve EXCEPT ![s] = "accept"]
          /\ UNCHANGED ln
    /\ UNCHANGED <<pc, opMu, local, fields, closed, socksOpen, socksLoops,
                   others, locks>>

\* Serve returns because Accept failed, or because the server was closed.
ServeReturns(s) ==
    /\ serve[s] = "accept"
    /\ ln' = [ln EXCEPT ![s] = 0]
    /\ serve' = [serve EXCEPT ![s] = "tail"]
    /\ UNCHANGED <<pc, opMu, local, fields, closed, socksOpen, socksLoops,
                   others, locks>>

\* Mutants: every server clears running, or none does.
ServeEndsUnguarded(s) ==
    /\ serve[s] = "tail"
    /\ MuFree
    /\ serve' = [serve EXCEPT ![s] = "done"]
    /\ running' = FALSE
    /\ UNCHANGED <<pc, opMu, local, listenAddr, server, socksListener,
                   poolRunning, ln, closed, socksOpen, socksLoops, others, locks>>

ServeEndsKeepsRunning(s) ==
    /\ serve[s] = "tail"
    /\ MuFree
    /\ serve' = [serve EXCEPT ![s] = "done"]
    /\ UNCHANGED <<pc, opMu, local, fields, ln, closed, socksOpen, socksLoops,
                   others, locks>>

\* The goroutine clears running only for the server that is still current.
ServeEnds(s) ==
    /\ serve[s] = "tail"
    /\ MuFree
    /\ serve' = [serve EXCEPT ![s] = "done"]
    /\ running' = IF server = s THEN FALSE ELSE running
    /\ UNCHANGED <<pc, opMu, local, listenAddr, server, socksListener,
                   poolRunning, ln, closed, socksOpen, socksLoops, others, locks>>


\* socksAcceptLoop leaves when Accept fails and the proxy is not running;
\* while it is running the loop tries again.
SocksLoopEnds(s) ==
    /\ s \in socksLoops \ socksOpen
    /\ MuFree
    /\ ~running
    /\ socksLoops' = socksLoops \ {s}
    /\ UNCHANGED <<pc, opMu, local, fields, ln, closed, serve, socksOpen,
                   others, locks>>

\* A handler, which may outlive its server, reports that an address of the
\* pool failed, and the pool's lock is not released.
ReportFailure ==
    /\ ~poolLocked
    /\ \E s \in Ops : serve[s] \in {"accept", "tail", "done"}
    /\ poolLocked' = TRUE
    /\ UNCHANGED <<pc, opMu, local, fields, sockets, others, mu>>

-----------------------------------------------------------------------------
RPC(o) ==
    StartProxy(o) \/ StopProxy(o) \/ ReloadConfig(o) \/ ReloadBlocks(o)

StartStep(o) ==
    \/ EnsurePort(o) \/ EnsurePortKillsSelf(o) \/ SetListenPort(o)
    \/ StartSection(o) \/ StartBlocks(o) \/ StartListens(o) \/ StartSocks(o)
    \/ StartPublishes(o) \/ StartLaunches(o) \/ WaitForListen(o)

StopStep(o) ==
    \/ StopSection(o) \/ StopBlocks(o) \/ StopClosesSocks(o) \/ StopWaits(o)
    \/ StopClosesServer(o)

Goroutine(s) ==
    ServeStarts(s) \/ ServeReturns(s) \/ ServeEnds(s) \/ SocksLoopEnds(s)

Next ==
    \/ \E o \in Ops : RPC(o) \/ StartStep(o) \/ Goroutine(o)
    \/ \E o \in Procs : StopStep(o)
    \/ Shutdown
    \/ ProcessExits
    \/ ReportFailure

Spec == Init /\ [][Next]_vars

\* The Go scheduler lets the program go on as long as a goroutine can run.
\* (Each call happens once, so none can be passed over for ever.)  Nothing is
\* assumed of RPC calls, of the shutdown, of Accept failing
\* or of ReportFailure.
Scheduled ==
    \/ \E o \in Ops : \/ StartStep(o) \/ ServeStarts(o) \/ ServeEnds(o) \/ SocksLoopEnds(o)
                      \/ o \in closed /\ ServeReturns(o)
    \/ \E o \in Procs : StopStep(o)
    \/ ProcessExits
Fairness == WF_vars(Scheduled)

FairSpec == Spec /\ Fairness

-----------------------------------------------------------------------------
Alive == pc[Main] # "dead"

\* A Stop is past its critical section, or main is about to return.
Stopping ==
    \/ \E o \in Procs : pc[o] \in {"closeSocks", "wgWait", "closeServer"}
    \/ pc[Main] = "done"

(* The proxy's state has its type: whatever port is chosen is a port.      *)
TypeOK ==
    /\ pc \in [Procs -> {"idle", "done", "dead", "stuck"} \cup StartSteps \cup StopSteps]
    /\ pc[Main] \notin StartSteps
    /\ opMu \in Ops \cup {None}
    /\ port \in [Ops -> Ports \cup {0}]
    /\ taken \in [Procs -> Ops \cup {None}]
    /\ listenAddr \in Ports
    /\ running \in BOOLEAN
    /\ server \in Ops \cup {None}
    /\ socksListener \in Ops \cup {None}
    /\ poolRunning \in BOOLEAN
    /\ ln \in [Ops -> Ports \cup {0}]
    /\ closed \subseteq Ops
    /\ serve \in [Ops -> {"none", "new", "accept", "tail", "done"}]
    /\ socksOpen \subseteq Ops
    /\ socksLoops \subseteq Ops
    /\ others \subseteq Others
    /\ mu \in Procs \cup {None}
    /\ poolLocked \in BOOLEAN

\* IsRunning is believed by startTUN and by the GUI.  While running is set
\* the current server has its listener open, or the goroutine that serves it
\* is on its way to clear running.
RunningIsServed ==
    running =>
        /\ server # None
        /\ ln[server] # 0 \/ (server \in closed /\ serve[server] = "accept")
                          \/ serve[server] = "tail"

\* A listener that was published stays within reach of Stop: its server is
\* the current one and running is set, or a Stop is under way, or its server
\* has been closed and Serve is about to find that out.  A Stop that waits for
\* the pool's lock for ever, with running cleared, has put it out of reach.
NoOrphanServer ==
    \A s \in Ops : ln[s] # 0 /\ pc[s] \notin {"socks", "publish"} =>
        \/ running /\ server = s
        \/ Stopping
        \/ s \in closed /\ serve[s] \in {"none", "new"}
        \/ ~MuFree

\* The same for the SOCKS5 listener, which outlives an HTTP server whose
\* Accept failed: it is the one in the field, or a Start has just opened it,
\* or a Stop has taken it out and is about to close it.
SocksOwned ==
    \A s \in socksOpen :
        \/ socksListener = s
        \/ pc[s] = "publish"
        \/ \E o \in Procs : pc[o] = "closeSocks" /\ taken[o] = s

\* Between two operations the pool runs whenever the proxy does, and it runs
\* without the proxy only when Serve has ended by itself.
PoolFollows ==
    opMu = None /\ ~Stopping =>
        /\ running => poolRunning
        /\ poolRunning /\ ~running => server # None /\ server \notin closed

\* A handler that holds proxyOpMu gives it back: the SOCKS5 accept loop that
\* Stop waits for does not hold it up for ever, and one thing only does, the
\* pool's lock that ReportFailure has left locked (cf_pool.go:210).
OpsReturn == []<>(opMu = None \/ ~Alive \/ \E o \in Procs : pc[o] = "stuck")

\* A shutdown ends the process, unless a startProxy that was under way brings
\* the proxy or its SOCKS5 listener up again behind the shutdown's Stop: the
\* accept loop then sees running set, or has its listener open, and socksWg
\* never drains.  Or unless it, or a call before it, is stuck with mu held.
ShutdownEnds ==
    pc[Main] # "idle" ~> ~Alive \/ running \/ socksOpen # {} \/ ~MuFree

\* Whatever startProxy, stopProxy, a reload, the shutdown and failing system
\* calls do to each other, nothing is left running that no Stop can reach: not
\* a server, not the SOCKS5 listener, not the pool; but for a server whose Stop
\* is stuck in the pool's lock (proxy.go:1244-1370).
ListenersOwned == TypeOK /\ NoOrphanServer /\ SocksOwned /\ PoolFollows

=============================================================================
