----------------------------- MODULE GASManager -----------------------------
(***************************************************************************)
(* The life cycle of the GAS engine (proxy/gas.go): GASManager.Start       *)
(* creates a relay, in two-port mode a proxy server of its own, and the    *)
(* statistics, fail-over and rotation loops; Stop takes them down.  Start  *)
(* and Stop are called by the user interface, from goroutines of their     *)
(* own.  Start holds m.mu only for its first section: the fields it sets   *)
(* afterwards are separate steps here, as is each section of m.mu.         *)
(*                                                                         *)
(* Everything a Start creates is named by that call.  The wait of Start    *)
(* for the previous stopCh, under m.mu, and that of Stop for the wait      *)
(* group give up after 5 s, so neither decides what happens next.          *)
(***************************************************************************)
EXTENDS Naturals, FiniteSets

CONSTANTS Starts, Stops,  \* the calls
          None,
          TwoPort,        \* the Starts that find m.standaloneProxy set
          Loops           \* the loops the configuration enables

ASSUME ManagerAssumption ==
  /\ Starts \cap Stops = {}
  /\ None \notin Starts
  /\ TwoPort \subseteq Starts
  /\ Loops \subseteq {"failover", "rotate"}

VARIABLES
  running,     \* m.config.Running
  relay, proxyServer, cancel,  \* the fields of m: the Start that set them, or None
  loopStop,    \* m.failoverStop, m.rotateStop
  place,
  overlapped,  \* history: a call began before all others had returned
  crossed,     \* history: the Starts during which a Stop took effect or another Start ran
  held,        \* the fields Stop copied before it cleared them
  created,     \* relays newGASRelay returned
  shut,        \* relays close() was called on
  cancelled,   \* contexts
  loopClosed,  \* stop channels of the loops
  stopAsked,   \* proxy servers whose context stop() cancelled
  server,      \* the goroutine that runs proxyServer.start()
  stats,       \* the statistics goroutine
  loop         \* the fail-over and rotation goroutines

fields == <<running, relay, proxyServer, cancel, loopStop>>
objects == <<created, shut, cancelled, loopClosed, stopAsked, server, stats, loop>>
managerVars == <<running, relay, proxyServer, cancel, loopStop, place, overlapped, crossed, held,
                 created, shut, cancelled, loopClosed, stopAsked, server, stats, loop>>

Callers == Starts \cup Stops
Kinds == {"failover", "rotate"}
Field == Starts \cup {None}
PCs == {"idle", "call", "saveFailed", "cancel", "relay", "proxyServer", "launch",
        "await", "stats", "failover", "rotate", "closing", "done", "failed"}

(* The state has its type: the fields name the Start that made what they   *)
(* hold, or nothing.                                                       *)
ManagerTypeOK ==
  /\ running \in BOOLEAN
  /\ relay \in Field /\ proxyServer \in Field /\ cancel \in Field
  /\ loopStop \in [Kinds -> Field]
  /\ place \in [Callers -> PCs] /\ overlapped \in BOOLEAN
  /\ crossed \in SUBSET Starts
  /\ held \in [Stops -> [relay : Field, proxyServer : Field, cancel : Field,
                         loopStop : [Kinds -> Field]]]
  /\ created \in SUBSET Starts /\ shut \in SUBSET Starts
  /\ cancelled \in SUBSET Starts /\ stopAsked \in SUBSET Starts
  /\ loopClosed \in [Kinds -> SUBSET Starts]
  /\ server \in [Starts -> {"none", "spawned", "listening", "failed", "astray", "ended"}]
  /\ stats \in [Starts -> {"none", "running", "ended"}]
  /\ loop \in [Kinds -> [Starts -> {"none", "running", "ended"}]]

NoLoop == [k \in Kinds |-> None]

ManagerInit ==
  /\ running = FALSE
  /\ relay = None /\ proxyServer = None /\ cancel = None
  /\ loopStop = NoLoop
  /\ place = [c \in Callers |-> "idle"] /\ overlapped = FALSE /\ crossed = {}
  /\ held = [t \in Stops |-> [relay |-> None, proxyServer |-> None, cancel |-> None,
                              loopStop |-> NoLoop]]
  /\ created = {} /\ shut = {} /\ cancelled = {} /\ stopAsked = {}
  /\ loopClosed = [k \in Kinds |-> {}]
  /\ server = [s \in Starts |-> "none"]
  /\ stats = [s \in Starts |-> "none"]
  /\ loop = [k \in Kinds |-> [s \in Starts |-> "none"]]

GoOn(c, label) == place' = [place EXCEPT ![c] = label]

Returned(c) == place[c] \in {"idle", "done", "failed"}
Quiet == \A c \in Callers : Returned(c)

(* The Starts that are past their first section and have not returned.     *)
InStart == {s \in Starts : ~Returned(s) /\ place[s] # "call"}

(* Calls may overlap, but not with a Start in two-port mode: what its      *)
(* server goroutine does when a Stop pulls m.proxyServer from under it is  *)
(* a panic.                                                                *)
Call(c) ==
  /\ place[c] = "idle"
  /\ c \in TwoPort \/ (\E s \in TwoPort : ~Returned(s)) => Quiet
  /\ overlapped' = (overlapped \/ ~Quiet)
  /\ GoOn(c, "call")
  /\ UNCHANGED <<fields, crossed, held, objects>>

-----------------------------------------------------------------------------
(* Start.                                                                  *)

(* The first section: already running, a setting is missing, or Running is *)
(* set and the configuration saved, which may fail.                        *)
StartSection(s) ==
  /\ place[s] = "call"
  /\ \/ running /\ GoOn(s, "done") /\ UNCHANGED <<running, crossed>>
     \/ ~running /\ GoOn(s, "failed") /\ UNCHANGED <<running, crossed>>
     \/ /\ ~running
        /\ running' = TRUE
        /\ crossed' = IF InStart = {} THEN crossed ELSE crossed \cup InStart \cup {s}
        /\ \/ GoOn(s, "cancel") \/ GoOn(s, "saveFailed")
  /\ UNCHANGED <<relay, proxyServer, cancel, loopStop, held, overlapped, objects>>

(* A section of its own after the first has released m.mu.                 *)
StartSaveFailed(s) ==
  /\ place[s] = "saveFailed"
  /\ running' = FALSE
  /\ GoOn(s, "failed")
  /\ UNCHANGED <<relay, proxyServer, cancel, loopStop, held, overlapped, crossed, objects>>

StartSetsCancel(s) ==
  /\ place[s] = "cancel"
  /\ cancel' = s
  /\ GoOn(s, "relay")
  /\ UNCHANGED <<running, relay, proxyServer, loopStop, held, overlapped, crossed, objects>>

StartSetsRelay(s) ==
  /\ place[s] = "relay"
  /\ created' = created \cup {s}
  /\ relay' = s
  /\ GoOn(s, "proxyServer")
  /\ UNCHANGED <<running, proxyServer, cancel, loopStop, held, overlapped, crossed, shut, cancelled,
                 loopClosed, stopAsked, server, stats, loop>>

StartSetsProxyServer(s) ==
  /\ place[s] = "proxyServer"
  /\ proxyServer' = IF s \in TwoPort THEN s ELSE None
  /\ GoOn(s, "launch")
  /\ UNCHANGED <<running, relay, cancel, loopStop, held, overlapped, crossed, objects>>

(* Two-port mode: the server's goroutine is started and Start waits.       *)
StartLaunches(s) ==
  /\ place[s] = "launch"
  /\ server' = [server EXCEPT ![s] = IF s \in TwoPort THEN "spawned" ELSE @]
  /\ GoOn(s, IF s \in TwoPort THEN "await" ELSE "stats")
  /\ UNCHANGED <<fields, held, overlapped, crossed, created, shut, cancelled, loopClosed, stopAsked, stats, loop>>

(* The goroutine reads m.proxyServer and listens, or Listen fails and      *)
(* statsCancel() follows.  A goroutine that runs only after the 5 s of     *)
(* StartFails finds nil there, or the server of a later Start: it panics   *)
(* or starts the wrong object, and is not followed any further.            *)
ServerStarts(s) ==
  /\ server[s] = "spawned"
  /\ \/ /\ proxyServer = s
        /\ \A o \in Starts : server[o] # "listening"
        /\ server' = [server EXCEPT ![s] = "listening"]
        /\ UNCHANGED cancelled
     \/ /\ proxyServer = s
        /\ server' = [server EXCEPT ![s] = "failed"]
        /\ cancelled' = cancelled \cup {s}
     \/ /\ proxyServer # s
        /\ server' = [server EXCEPT ![s] = "astray"]
        /\ UNCHANGED cancelled
  /\ UNCHANGED <<fields, place, held, overlapped, crossed, created, shut, loopClosed, stopAsked, stats, loop>>

(* start() returns once stop() was called; statsCancel() follows.          *)
ServerEnds(s) ==
  /\ server[s] = "listening" /\ s \in stopAsked
  /\ server' = [server EXCEPT ![s] = "ended"]
  /\ cancelled' = cancelled \cup {s}
  /\ UNCHANGED <<fields, place, held, overlapped, crossed, created, shut, loopClosed, stopAsked, stats, loop>>

(* stop() does nothing before start() has set the server's context.        *)
Asked(s) == stopAsked \cup (IF s # None /\ server[s] = "listening" THEN {s} ELSE {})

(* Mutant: the failed start leaves the relay it created open.              *)
StartFailsLeavesRelay(s) ==
  /\ place[s] = "await"
  /\ cancelled' = cancelled \cup {s}
  /\ running' = FALSE
  /\ stopAsked' = Asked(proxyServer)
  /\ relay' = None /\ proxyServer' = None /\ cancel' = None
  /\ GoOn(s, "failed")
  /\ UNCHANGED <<shut, loopStop, held, overlapped, crossed, created, loopClosed, server, stats, loop>>

(* readyCh brought an error, or 5 s are over.                              *)
StartFails(s) ==
  /\ place[s] = "await"
  /\ cancelled' = cancelled \cup {s}
  /\ running' = FALSE
  /\ shut' = shut \cup ({relay} \ {None})
  /\ stopAsked' = Asked(proxyServer)
  /\ relay' = None /\ proxyServer' = None /\ cancel' = None
  /\ GoOn(s, "failed")
  /\ UNCHANGED <<loopStop, held, overlapped, crossed, created, loopClosed, server, stats, loop>>

StartReady(s) ==
  /\ place[s] = "await"
  /\ server[s] = "listening"
  /\ GoOn(s, "stats")
  /\ UNCHANGED <<fields, held, overlapped, crossed, objects>>

StartStats(s) ==
  /\ place[s] = "stats"
  /\ stats' = [stats EXCEPT ![s] = "running"]
  /\ GoOn(s, "failover")
  /\ UNCHANGED <<fields, held, overlapped, crossed, created, shut, cancelled, loopClosed, stopAsked, server, loop>>

After(k) == IF k = "failover" THEN "rotate" ELSE "done"

StartLoop(s, k) ==
  /\ place[s] = k
  /\ IF k \in Loops
     THEN /\ loopStop' = [loopStop EXCEPT ![k] = s]
          /\ loop' = [loop EXCEPT ![k][s] = "running"]
     ELSE UNCHANGED <<loopStop, loop>>
  /\ GoOn(s, After(k))
  /\ UNCHANGED <<running, relay, proxyServer, cancel, held, overlapped, crossed, created, shut, cancelled,
                 loopClosed, stopAsked, server, stats>>

-----------------------------------------------------------------------------
(* Stop.                                                                   *)

(* Mutant: the fields are not cleared under the lock.                      *)
StopSectionKeepsFields(t) ==
  /\ place[t] = "call"
  /\ \/ ~running /\ GoOn(t, "done") /\ UNCHANGED <<fields, crossed, held>>
     \/ /\ running
        /\ running' = FALSE
        /\ crossed' = crossed \cup InStart
        /\ held' = [held EXCEPT ![t] = [relay |-> relay, proxyServer |-> proxyServer,
                                        cancel |-> cancel, loopStop |-> loopStop]]
        /\ GoOn(t, "closing")
        /\ UNCHANGED <<relay, proxyServer, cancel, loopStop>>
  /\ UNCHANGED <<overlapped, objects>>

StopSection(t) ==
  /\ place[t] = "call"
  /\ \/ ~running /\ GoOn(t, "done") /\ UNCHANGED <<fields, crossed, held>>
     \/ /\ running
        /\ running' = FALSE
        /\ crossed' = crossed \cup InStart
        /\ held' = [held EXCEPT ![t] = [relay |-> relay, proxyServer |-> proxyServer,
                                        cancel |-> cancel, loopStop |-> loopStop]]
        /\ relay' = None /\ proxyServer' = None /\ cancel' = None /\ loopStop' = NoLoop
        /\ GoOn(t, "closing")
  /\ UNCHANGED <<overlapped, objects>>


StopCloses(t) ==
  LET h == held[t] IN
  /\ place[t] = "closing"
  /\ cancelled' = cancelled \cup ({h.cancel} \ {None})
  /\ stopAsked' = Asked(h.proxyServer)
  /\ shut' = shut \cup ({h.relay} \ {None})
  /\ loopClosed' = [k \in Kinds |-> loopClosed[k] \cup ({h.loopStop[k]} \ {None})]
  /\ GoOn(t, "done")
  /\ UNCHANGED <<fields, held, overlapped, crossed, created, server, stats, loop>>

-----------------------------------------------------------------------------
(* The loops end when their context or channel is done.                    *)

StatsEnds(s) ==
  /\ stats[s] = "running" /\ s \in cancelled
  /\ stats' = [stats EXCEPT ![s] = "ended"]
  /\ UNCHANGED <<fields, place, held, overlapped, crossed, created, shut, cancelled, loopClosed, stopAsked, server, loop>>

LoopEnds(s, k) ==
  /\ loop[k][s] = "running" /\ s \in loopClosed[k]
  /\ loop' = [loop EXCEPT ![k][s] = "ended"]
  /\ UNCHANGED <<fields, place, held, overlapped, crossed, created, shut, cancelled, loopClosed, stopAsked, server, stats>>

-----------------------------------------------------------------------------
StartStep(s) ==
  \/ StartSection(s) \/ StartSaveFailed(s) \/ StartSetsCancel(s) \/ StartSetsRelay(s)
  \/ StartSetsProxyServer(s) \/ StartLaunches(s) \/ StartFails(s) \/ StartReady(s)
  \/ StartStats(s) \/ \E k \in Kinds : StartLoop(s, k)

StopStep(t) == StopSection(t) \/ StopCloses(t)

Background(s) ==
  ServerStarts(s) \/ ServerEnds(s) \/ StatsEnds(s) \/ \E k \in Kinds : LoopEnds(s, k)

ManagerNext ==
  \/ \E c \in Callers : Call(c)
  \/ \E s \in Starts : StartStep(s) \/ Background(s)
  \/ \E t \in Stops : StopStep(t)

(* Goroutines that can run are run; nobody need call.                      *)
ManagerFairness ==
  /\ \A s \in Starts : /\ WF_managerVars(StartStep(s))
                       /\ WF_managerVars(ServerStarts(s)) /\ WF_managerVars(ServerEnds(s))
                       /\ WF_managerVars(StatsEnds(s)) /\ \A k \in Kinds : WF_managerVars(LoopEnds(s, k))
  /\ \A t \in Stops : WF_managerVars(StopStep(t))

ManagerSpec == ManagerInit /\ [][ManagerNext]_managerVars
ManagerFairSpec == ManagerSpec /\ ManagerFairness

-----------------------------------------------------------------------------
(* The relay GetRelay hands out has not been closed, however Start and     *)
(* Stop calls overlap.                                                     *)
ActiveRelayOpen == relay # None => relay \notin shut

(* Calls that wait for each other leave no relay behind: between calls,    *)
(* every relay created is the one in m.relay or closed.                    *)
NoRelayLeak == Quiet /\ ~overlapped => \A s \in created : s = relay \/ s \in shut

(* And then Running says whether there is a relay.                         *)
RunningHasRelay == Quiet /\ ~overlapped => (running <=> relay # None)

(* A statistics loop does not outlive its context, even one started after  *)
(* Stop has cancelled the context.                                         *)
StatsFollowContext == \A s \in Starts : s \in cancelled ~> stats[s] # "running"

(* What a Start made ends once its relay is closed: the server's goroutine *)
(* with start(), the statistics loop with its context, the two loops with  *)
(* their channels.  Excepted is an instance whose Start was crossed: its   *)
(* fields were assigned after a Stop had copied them, or among those of    *)
(* another Start, and what they lost nobody can end (gas.go:354).          *)
InstanceEnded(s) ==
  /\ server[s] \notin {"spawned", "listening"}
  /\ stats[s] # "running"
  /\ \A k \in Kinds : loop[k][s] # "running"

StoppedInstanceEnds == \A s \in Starts : s \in shut ~> s \in crossed \/ InstanceEnded(s)

(* Callers that wait for each other find the manager consistent: a live    *)
(* relay is in the field and Running says so, also after a start that      *)
(* failed half-way (gas.go:273-470).                                       *)
InstanceOwned == ManagerTypeOK /\ NoRelayLeak /\ RunningHasRelay

=============================================================================
