-------------------------------- MODULE Core --------------------------------
(***************************************************************************)
(* The core process and its client (core_client.go, core_api.go,           *)
(* core_runtime.go): how the client finds, replaces and elevates the       *)
(* process that answers on coreRPCAddr and hands the proxy and the log     *)
(* capture over, and what the calls do in the process that takes them:     *)
(* start and stop of the proxy, of the log capture and of the TUN, and the *)
(* change of the routing mode.                                             *)
(*                                                                         *)
(* A call of the client is an action when the process does it in one       *)
(* section; startTUN, stopTUN, switchMode and the client's own             *)
(* read-change-save of the settings are taken apart.  What startProxy does *)
(* inside the process is in ProxyServer, the settings file in              *)
(* V2RayManager.  externalMihomoManager is not in the repository: its      *)
(* Start and Stop succeed or fail.                                         *)
(***************************************************************************)
EXTENDS Naturals, FiniteSets

CONSTANTS Ops,       \* calls of the client
          Schedules, \* what they may be: functions from Ops to Kinds
          MaxProcs,  \* bound on the processes there may have been
          MaxPings   \* bound on the pings of a loop (10 and 30), and of the polls


Procs == 1..MaxProcs
None == 0

\* Calls that make sure of a core first, and those that only use one.
Ensuring == {"StartProxy", "StartTUN", "StartLogCapture", "SwitchMode", "SetProxyMode"}
Kinds == Ensuring \cup {"StopProxy", "StopTUN", "SaveSettings", "Shutdown"}

ASSUME CoreAssumption ==
  /\ MaxProcs \in Nat \ {0} /\ MaxPings \in Nat \ {0}
  /\ Schedules \subseteq [Ops -> Kinds]

VARIABLES
  serial,      \* the client makes one call at a time
  kind,        \* call -> what it is
  pc,          \* where it is
  pings,       \* pings or polls made in the present loop
  was,         \* wasProxyRunning and wasLogCaptureEnabled
  at,          \* the process that works on it
  copy,        \* the settings it has read
  life,        \* process -> none, starting, loaded, serving, closing, gone
  elevated, same,            \* its rights; it runs the client's executable
  proxyOn, logOn,
  mode, settings,            \* proxy mode; V2Ray settings: routing mode and the rest
  tunStarting, tunOn,
  stopping,    \* the goroutine of StopTUN: none, mark, halt
  file,        \* the settings file
  switched,    \* history: what set the process's mode last is a completed switchMode
  unsaved,     \* history: the process's last save of the settings failed
  aside,       \* history: a startProxy has gone to another port than the one it wanted
  wish,        \* history: what the calls that succeeded asked for
  failed       \* history: where calls have failed

case == <<serial, kind>>
opVars == <<pings, was, at, copy>>
procVars == <<life, elevated, same>>
proxyVars == <<proxyOn, logOn, aside>>
modeVars == <<mode, settings, file, switched, unsaved>>
tunVars == <<tunStarting, tunOn, stopping>>
history == <<wish, failed>>
vars == <<case, pc, opVars, procVars, proxyVars, modeVars, tunVars, history>>

Labels == {"new", "readLog", "readProxy", "info", "shutdown", "drain", "spawn", "await",
           "restoreLog", "restoreProxy", "elevated", "call", "tunProxy", "tunStart", "tunOk",
           "tunFail", "poll", "modeRead", "modeSave", "save", "done"}
Modes == {"rule", "gas"}      \* what switchMode knows; SetMode knows others too
Settings == [routing : Modes, rest : Ops \cup {None}]

(* Calls, processes and settings have their types: no loop of pings goes   *)
(* past its limit.                                                         *)
TypeOK ==
  /\ serial \in BOOLEAN /\ aside \in BOOLEAN /\ failed \subseteq Labels
  /\ kind \in [Ops -> Kinds]
  /\ pc \in [Ops -> Labels]
  /\ pings \in [Ops -> 0..MaxPings]
  /\ was \in [Ops -> [proxy : BOOLEAN, log : BOOLEAN]]
  /\ at \in [Ops -> Procs \cup {None}] /\ copy \in [Ops -> Settings]
  /\ life \in [Procs -> {"none", "starting", "loaded", "serving", "closing", "gone"}]
  /\ {elevated, same, proxyOn, logOn, tunStarting, tunOn, switched, unsaved} \subseteq [Procs -> BOOLEAN]
  /\ mode \in [Procs -> Modes \cup {"legacy"}] /\ settings \in [Procs -> Settings] /\ file \in Settings
  /\ stopping \in [Procs -> {"none", "mark", "halt"}]
  /\ wish \in [proxy : BOOLEAN, log : BOOLEAN]

Set(f, x, v) == [f EXCEPT ![x] = v]
Goto(o, label) == pc' = Set(pc, o, label)

NoWas == [proxy |-> FALSE, log |-> FALSE]
NoSettings == [routing |-> "rule", rest |-> None]

(* No core, or one of this or another executable, elevated or not, which   *)
(* may be running the proxy.                                               *)
Init ==
  /\ serial \in BOOLEAN
  /\ kind \in Schedules
  /\ pc = [o \in Ops |-> "new"] /\ pings = [o \in Ops |-> 0]
  /\ was = [o \in Ops |-> NoWas]
  /\ at = [o \in Ops |-> None]
  /\ file = NoSettings /\ copy = [o \in Ops |-> file]
  /\ \E l \in {"none", "serving"}, e \in BOOLEAN, s \in BOOLEAN, run \in BOOLEAN :
       /\ l = "none" => ~e /\ s /\ ~run
       /\ life = [p \in Procs |-> IF p = 1 THEN l ELSE "none"]
       /\ elevated = [p \in Procs |-> p = 1 /\ e] /\ same = [p \in Procs |-> p # 1 \/ s]
       /\ proxyOn = [p \in Procs |-> p = 1 /\ run] /\ logOn = [p \in Procs |-> p = 1 /\ run]
       /\ wish = [proxy |-> run, log |-> run]
  /\ mode = [p \in Procs |-> "rule"] /\ settings = [p \in Procs |-> file]
  /\ tunStarting = [p \in Procs |-> FALSE] /\ tunOn = [p \in Procs |-> FALSE]
  /\ stopping = [p \in Procs |-> "none"]
  /\ switched = [p \in Procs |-> FALSE] /\ unsaved = [p \in Procs |-> FALSE]
  /\ aside = FALSE /\ failed = {}

Serving == {p \in Procs : life[p] = "serving"}
Alive(p) == life[p] \in {"starting", "loaded", "serving", "closing"}
Idle(o) == pc[o] \in {"new", "done"}
Elevate(o) == kind[o] = "StartTUN"


(* The call returns, and its variables are gone.                           *)
Return(o) ==
  /\ Goto(o, "done")
  /\ pings' = Set(pings, o, 0) /\ was' = Set(was, o, NoWas)
  /\ at' = Set(at, o, None) /\ copy' = Set(copy, o, NoSettings)

Fails(o) == Return(o) /\ failed' = failed \cup {pc[o]} /\ UNCHANGED wish
Succeeds(o) == Return(o) /\ UNCHANGED failed
GoesOn(o, label) == Goto(o, label) /\ UNCHANGED <<opVars, history>>

(* A process is gone, and with it its listener, the proxy and the TUN; a   *)
(* kill takes its children along.                                          *)
Ends(p) ==
  /\ life' = Set(life, p, "gone")
  /\ tunStarting' = Set(tunStarting, p, FALSE) /\ tunOn' = Set(tunOn, p, FALSE)
  /\ stopping' = Set(stopping, p, "none") /\ logOn' = Set(logOn, p, FALSE)
  /\ elevated' = Set(elevated, p, FALSE)

-----------------------------------------------------------------------------
(* The core process.                                                       *)

(* newCoreRuntime reads the files before anything listens.                 *)
NewCoreRuntime(p) ==
  /\ life[p] = "starting"
  /\ life' = Set(life, p, "loaded")
  /\ settings' = Set(settings, p, file) /\ mode' = Set(mode, p, "rule")
  /\ unsaved' = Set(unsaved, p, FALSE)
  /\ UNCHANGED <<case, pc, opVars, elevated, same, proxyVars, file, switched, tunVars, history>>

(* runCoreMain: a second process finds the address taken and leaves.       *)
Listen(p) ==
  /\ life[p] = "loaded"
  /\ life' = Set(life, p, IF Serving = {} THEN "serving" ELSE "closing")
  /\ UNCHANGED <<case, pc, opVars, elevated, same, proxyVars, modeVars, tunVars, history>>

(* The deferred runtime.shutdown stops TUN and proxy, then main returns.   *)
Exit(p) ==
  /\ life[p] = "closing"
  /\ Ends(p) /\ proxyOn' = Set(proxyOn, p, FALSE)
  /\ UNCHANGED <<case, pc, opVars, same, aside, modeVars, history>>

-----------------------------------------------------------------------------
(* startProxy, in the process p.                                           *)

RunsProxy(p) == Alive(p) /\ proxyOn[p]

(* Mutant: a port that another core holds is left to it.                   *)
startProxyAside(p) ==
  /\ proxyOn' = Set(proxyOn, p, TRUE)
  /\ UNCHANGED <<life, elevated, logOn, aside, tunVars>>

(* EnsurePortAvailable kills the NovaProxy process that holds the port, be *)
(* it a core that is closing or the process itself.  When the kill fails,  *)
(* or the holder's name is not found, the next free port is taken; a proxy *)
(* that runs already cannot move, which is a failure, or stays where it is *)
(* when ten ports are taken.  (Once a core has moved, the ports of the     *)
(* others may or may not be in the way.)                                   *)
startProxy(p) ==
  \/ /\ \A q \in Procs : ~RunsProxy(q)
     /\ proxyOn' = Set(proxyOn, p, TRUE)
     /\ UNCHANGED <<life, elevated, logOn, aside, tunVars>>
  \/ \E q \in Procs :
       /\ RunsProxy(q) /\ (RunsProxy(p) => q = p)
       /\ Ends(q)
       /\ proxyOn' = [x \in Procs |-> IF x = q THEN FALSE ELSE x = p \/ proxyOn[x]]
       /\ UNCHANGED aside
  \/ /\ ~RunsProxy(p) /\ \E q \in Procs : RunsProxy(q)
     /\ proxyOn' = Set(proxyOn, p, TRUE) /\ aside' = TRUE
     /\ UNCHANGED <<life, elevated, logOn, tunVars>>
  \/ RunsProxy(p) /\ UNCHANGED <<proxyVars, life, elevated, tunVars>>

(* Any other reason for startProxy to fail.                                *)
startProxyFails == UNCHANGED <<proxyVars, life, elevated, tunVars>>

-----------------------------------------------------------------------------
(* The client: ensureRunningWithElevation.                                 *)

CanBegin(o) == pc[o] = "new" /\ (serial => \A u \in Ops : Idle(u))

Begin(o) ==
  /\ CanBegin(o)
  /\ Goto(o, IF kind[o] \notin Ensuring THEN "call"
             ELSE IF Serving = {} THEN "spawn" ELSE "readLog")
  /\ UNCHANGED <<case, opVars, procVars, proxyVars, modeVars, tunVars, history>>

\* What a call that cannot be made returns is taken for "no".
ReadLog(o) ==
  /\ pc[o] = "readLog"
  /\ was' = [was EXCEPT ![o].log = \E p \in Serving : logOn[p]]
  /\ Goto(o, "readProxy")
  /\ UNCHANGED <<case, pings, at, copy, procVars, proxyVars, modeVars, tunVars, history>>

ReadProxy(o) ==
  /\ pc[o] = "readProxy"
  /\ was' = [was EXCEPT ![o].proxy = \E p \in Serving : proxyOn[p]]
  /\ Goto(o, "info")
  /\ UNCHANGED <<case, pings, at, copy, procVars, proxyVars, modeVars, tunVars, history>>

Suitable(p, o) == same[p] /\ (Elevate(o) => elevated[p])

GetInfo(o) ==
  /\ pc[o] = "info"
  /\ Goto(o, IF \E p \in Serving : Suitable(p, o) THEN "call" ELSE "shutdown")
  /\ UNCHANGED <<case, opVars, procVars, proxyVars, modeVars, tunVars, history>>

(* The core stops listening; whichever core listens now.                   *)
Replace(o) ==
  /\ pc[o] = "shutdown"
  /\ life' = [p \in Procs |-> IF p \in Serving THEN "closing" ELSE life[p]]
  /\ Goto(o, "drain")
  /\ UNCHANGED <<case, opVars, elevated, same, proxyVars, modeVars, tunVars, history>>

(* A round of a loop of pings: what it waits for, or another round.        *)
Ping(o, from, answered, to) ==
  /\ pc[o] = from
  /\ \/ (Serving # {}) = answered /\ Goto(o, to) /\ pings' = Set(pings, o, 0)
     \/ /\ (Serving # {}) # answered /\ pings[o] < MaxPings
        /\ pings' = Set(pings, o, pings[o] + 1) /\ UNCHANGED pc
  /\ UNCHANGED <<case, was, at, copy, procVars, proxyVars, modeVars, tunVars, history>>

Drain(o) == Ping(o, "drain", FALSE, "spawn")

\* The loop is left even if a core still answers.
DrainGivesUp(o) ==
  /\ pc[o] = "drain" /\ pings[o] = MaxPings
  /\ Goto(o, "spawn") /\ pings' = Set(pings, o, 0)
  /\ UNCHANGED <<case, was, at, copy, procVars, proxyVars, modeVars, tunVars, history>>

(* startCoreProcess: the user may decline the elevation.                   *)
Spawn(o) ==
  /\ pc[o] = "spawn"
  /\ \E p \in Procs :
       /\ life[p] = "none" /\ \A q \in 1..p-1 : life[q] # "none"
       /\ life' = Set(life, p, "starting") /\ elevated' = Set(elevated, p, Elevate(o))
  /\ Goto(o, "await")
  /\ UNCHANGED <<case, opVars, same, proxyVars, modeVars, tunVars, history>>

SpawnFails(o) ==
  /\ pc[o] = "spawn"
  /\ Fails(o)
  /\ UNCHANGED <<case, procVars, proxyVars, modeVars, tunVars>>


Await(o) == Ping(o, "await", TRUE, "restoreLog")

AwaitGivesUp(o) ==
  /\ pc[o] = "await" /\ pings[o] = MaxPings
  /\ Fails(o)
  /\ UNCHANGED <<case, procVars, proxyVars, modeVars, tunVars>>

\* The error of this call is ignored.
RestoreLog(o) ==
  /\ pc[o] = "restoreLog"
  /\ logOn' = [p \in Procs |-> logOn[p] \/ (was[o].log /\ p \in Serving)]
  /\ Goto(o, "restoreProxy")
  /\ UNCHANGED <<case, opVars, procVars, proxyOn, aside, modeVars, tunVars, history>>

(* Mutant: the proxy is not started again.                                 *)
RestoreNothing(o) ==
  /\ pc[o] = "restoreProxy"
  /\ Goto(o, "elevated")
  /\ UNCHANGED <<case, opVars, procVars, proxyVars, modeVars, tunVars, history>>

RestoreProxy(o) ==
  /\ pc[o] = "restoreProxy"
  /\ \/ ~was[o].proxy /\ startProxyFails /\ GoesOn(o, "elevated")
     \/ was[o].proxy /\ startProxyFails /\ Fails(o)
     \/ /\ was[o].proxy
        /\ \E p \in Serving :
             /\ startProxy(p)
             /\ IF life'[p] = "serving" THEN GoesOn(o, "elevated")
                                        ELSE Fails(o)
  /\ UNCHANGED <<case, same, modeVars>>

CheckElevated(o) ==
  /\ pc[o] = "elevated"
  /\ IF Elevate(o) => \E p \in Serving : elevated[p]
     THEN GoesOn(o, "call")
     ELSE Fails(o)
  /\ UNCHANGED <<case, procVars, proxyVars, modeVars, tunVars>>

-----------------------------------------------------------------------------
(* The call itself, made to the core that listens now.                     *)

Calls(o, k) == pc[o] = "call" /\ kind[o] = k

\* shutdownIfRunning has nothing to do then.
CallFails(o) ==
  /\ pc[o] = "call" /\ Serving = {}
  /\ IF kind[o] = "Shutdown" THEN Succeeds(o) /\ UNCHANGED wish ELSE Fails(o)
  /\ UNCHANGED <<case, procVars, proxyVars, modeVars, tunVars>>

StartProxy(o) ==
  /\ Calls(o, "StartProxy")
  /\ \E p \in Serving :
       \/ startProxyFails /\ Fails(o)
       \/ /\ startProxy(p)
          /\ IF life'[p] = "serving"
             THEN Succeeds(o) /\ wish' = [wish EXCEPT !.proxy = TRUE]
             ELSE Fails(o)
  /\ UNCHANGED <<case, same, modeVars>>

StopProxy(o) ==
  /\ Calls(o, "StopProxy") /\ Serving # {}
  /\ proxyOn' = [p \in Procs |-> proxyOn[p] /\ p \notin Serving]
  /\ Succeeds(o) /\ wish' = [wish EXCEPT !.proxy = FALSE]
  /\ UNCHANGED <<case, procVars, logOn, aside, modeVars, tunVars>>

StartLogCapture(o) ==
  /\ Calls(o, "StartLogCapture") /\ Serving # {}
  /\ logOn' = [p \in Procs |-> logOn[p] \/ p \in Serving]
  /\ Succeeds(o) /\ wish' = [wish EXCEPT !.log = TRUE]
  /\ UNCHANGED <<case, procVars, proxyOn, aside, modeVars, tunVars>>

Shutdown(o) ==
  /\ Calls(o, "Shutdown") /\ Serving # {}
  /\ life' = [p \in Procs |-> IF p \in Serving THEN "closing" ELSE life[p]]
  /\ Succeeds(o) /\ wish' = [proxy |-> FALSE, log |-> FALSE]
  /\ UNCHANGED <<case, elevated, same, proxyVars, modeVars, tunVars>>

-----------------------------------------------------------------------------
(* The routing mode, and the settings form of the client.                  *)

\* The process that works on the call is gone.
ConnectionLost(o) ==
  /\ pc[o] \in {"tunProxy", "tunStart", "tunOk", "tunFail", "modeRead", "modeSave"}
  /\ ~Alive(at[o])
  /\ Fails(o)
  /\ UNCHANGED <<case, procVars, proxyVars, modeVars, tunVars>>

SwitchMode(o) ==
  /\ Calls(o, "SwitchMode")
  /\ \E p \in Serving, m \in Modes :
       /\ mode' = Set(mode, p, m) /\ switched' = Set(switched, p, FALSE)
       /\ copy' = [copy EXCEPT ![o].routing = m] /\ at' = Set(at, o, p)
  /\ Goto(o, "modeRead")
  /\ UNCHANGED <<case, pings, was, procVars, proxyVars, settings, file, unsaved, tunVars, history>>

\* SetProxyMode with a mode that switchMode does not know saves nothing.
SetProxyMode(o) ==
  /\ Calls(o, "SetProxyMode")
  /\ \E p \in Serving : mode' = Set(mode, p, "legacy") /\ switched' = Set(switched, p, FALSE)
  /\ Succeeds(o)
  /\ UNCHANGED <<case, procVars, proxyVars, settings, file, unsaved, tunVars, wish>>

ModeRead(o) ==
  /\ pc[o] = "modeRead" /\ Alive(at[o])
  /\ copy' = [copy EXCEPT ![o].rest = settings[at[o]].rest]
  /\ Goto(o, "modeSave")
  /\ UNCHANGED <<case, pings, was, at, procVars, proxyVars, modeVars, tunVars, history>>

(* V2RayManager.SaveSettings in the process p changes the memory first;    *)
(* the write may fail, and leave the old file or one that does not parse,  *)
(* which reads as the default.                                             *)
saveSettings(p, s) ==
  /\ settings' = Set(settings, p, s)
  /\ \/ file' = s /\ unsaved' = Set(unsaved, p, FALSE)
     \/ file' \in {file, NoSettings} /\ unsaved' = Set(unsaved, p, TRUE)

(* Mutant: the mode is changed and not saved.                              *)
ModeUnsaved(o) ==
  /\ pc[o] = "modeSave" /\ Alive(at[o])
  /\ switched' = Set(switched, at[o], TRUE)
  /\ Succeeds(o)
  /\ UNCHANGED <<case, procVars, proxyVars, mode, settings, file, unsaved, tunVars, wish>>

\* switchMode does not look at the error of the save.
ModeSave(o) ==
  /\ pc[o] = "modeSave" /\ Alive(at[o])
  /\ saveSettings(at[o], copy[o]) /\ switched' = Set(switched, at[o], TRUE)
  /\ Succeeds(o)
  /\ UNCHANGED <<case, procVars, proxyVars, mode, tunVars, wish>>

GetSettings(o) ==
  /\ Calls(o, "SaveSettings") /\ Serving # {}
  /\ \E p \in Serving : copy' = Set(copy, o, [settings[p] EXCEPT !.rest = o])
  /\ Goto(o, "save")
  /\ UNCHANGED <<case, pings, was, at, procVars, proxyVars, modeVars, tunVars, history>>

SaveSettings(o) ==
  /\ pc[o] = "save"
  /\ \/ Serving = {} /\ Fails(o) /\ UNCHANGED <<settings, file, unsaved>>
     \/ \E p \in Serving :
          /\ saveSettings(p, copy[o])
          /\ IF unsaved'[p] THEN Fails(o) ELSE Succeeds(o) /\ UNCHANGED wish
  /\ UNCHANGED <<case, procVars, proxyVars, mode, switched, tunVars>>

-----------------------------------------------------------------------------
(* The TUN.                                                                *)

\* startTUN: the state is set first, then the rights are looked at.
StartTUN(o) ==
  /\ Calls(o, "StartTUN")
  /\ \E p \in Serving :
       /\ tunStarting' = Set(tunStarting, p, TRUE) /\ at' = Set(at, o, p)
       /\ Goto(o, IF elevated[p] THEN "tunProxy" ELSE "tunFail")
  /\ UNCHANGED <<case, pings, was, copy, procVars, proxyVars, modeVars, tunOn, stopping, history>>

TUNProxy(o) ==
  /\ pc[o] = "tunProxy" /\ Alive(at[o])
  /\ \/ proxyOn[at[o]] /\ startProxyFails /\ Goto(o, "tunStart") /\ UNCHANGED wish
     \/ ~proxyOn[at[o]] /\ startProxyFails /\ Goto(o, "tunFail") /\ UNCHANGED wish
     \/ /\ ~proxyOn[at[o]] /\ startProxy(at[o])
        /\ Goto(o, "tunStart") /\ wish' = [wish EXCEPT !.proxy = TRUE]
  /\ UNCHANGED <<case, opVars, same, modeVars, failed>>

TUNStart(o) ==
  /\ pc[o] = "tunStart" /\ Alive(at[o])
  /\ \/ tunOn' = Set(tunOn, at[o], TRUE) /\ Goto(o, "tunOk")
     \/ UNCHANGED tunOn /\ Goto(o, "tunFail")
  /\ UNCHANGED <<case, opVars, procVars, proxyVars, modeVars, tunStarting, stopping, history>>

\* The deferred setTUNStartState.
TUNReturns(o) ==
  /\ pc[o] \in {"tunOk", "tunFail"} /\ Alive(at[o])
  /\ tunStarting' = Set(tunStarting, at[o], FALSE)
  /\ IF pc[o] = "tunOk" THEN GoesOn(o, "poll") ELSE Fails(o)
  /\ UNCHANGED <<case, procVars, proxyVars, modeVars, tunOn, stopping>>

(* The client asks the core for the state of the TUN until it runs or two  *)
(* seconds have passed.                                                    *)
Poll(o) ==
  /\ pc[o] = "poll"
  /\ \/ (\E p \in Serving : tunOn[p]) /\ Succeeds(o) /\ UNCHANGED wish
     \/ Serving = {} /\ Fails(o)
     \/ (\E p \in Serving : ~tunOn[p]) /\ pings[o] = MaxPings /\ Fails(o)
     \/ /\ (\E p \in Serving : ~tunOn[p]) /\ pings[o] < MaxPings
        /\ pings' = Set(pings, o, pings[o] + 1)
        /\ UNCHANGED <<pc, was, at, copy, history>>
  /\ UNCHANGED <<case, procVars, proxyVars, modeVars, tunVars>>

\* The RPC only starts a goroutine.
StopTUN(o) ==
  /\ Calls(o, "StopTUN")
  /\ \E p \in Serving :
       stopping' = Set(stopping, p, IF stopping[p] = "none" THEN "mark" ELSE stopping[p])
  /\ Succeeds(o)
  /\ UNCHANGED <<case, procVars, proxyVars, modeVars, tunStarting, tunOn, wish>>

StopMark(p) ==
  /\ stopping[p] = "mark" /\ Alive(p)
  /\ stopping' = Set(stopping, p, "halt") /\ tunStarting' = Set(tunStarting, p, FALSE)
  /\ UNCHANGED <<case, pc, opVars, procVars, proxyVars, modeVars, tunOn, history>>

StopHalt(p) ==
  /\ stopping[p] = "halt" /\ Alive(p)
  /\ stopping' = Set(stopping, p, "none")
  /\ UNCHANGED tunOn \/ tunOn' = Set(tunOn, p, FALSE)
  /\ UNCHANGED <<case, pc, opVars, procVars, proxyVars, modeVars, tunStarting, history>>

-----------------------------------------------------------------------------
EnsureStep(o) ==
  \/ ReadLog(o) \/ ReadProxy(o) \/ GetInfo(o) \/ Replace(o)
  \/ Drain(o) \/ DrainGivesUp(o) \/ Spawn(o) \/ SpawnFails(o)
  \/ Await(o) \/ AwaitGivesUp(o) \/ RestoreLog(o) \/ RestoreProxy(o) \/ CheckElevated(o)

CallStep(o) ==
  \/ CallFails(o) \/ StartProxy(o) \/ StopProxy(o) \/ StartLogCapture(o) \/ Shutdown(o)
  \/ SwitchMode(o) \/ SetProxyMode(o) \/ ModeRead(o) \/ ModeSave(o) \/ GetSettings(o) \/ SaveSettings(o)
  \/ StartTUN(o) \/ TUNProxy(o) \/ TUNStart(o) \/ TUNReturns(o) \/ Poll(o)
  \/ StopTUN(o) \/ ConnectionLost(o)

ProcStep(p) == NewCoreRuntime(p) \/ Listen(p) \/ Exit(p) \/ StopMark(p) \/ StopHalt(p)

Next ==
  \/ \E o \in Ops : Begin(o) \/ EnsureStep(o) \/ CallStep(o)
  \/ \E p \in Procs : ProcStep(p)

Spec == Init /\ [][Next]_vars

(* What was begun goes on: the loops of the client are counted, what it    *)
(* asks of a core returns, and a process that was started runs.            *)
Going == (\E o \in Ops : EnsureStep(o) \/ CallStep(o)) \/ (\E p \in Procs : ProcStep(p))

FairSpec == Spec /\ WF_vars(Going)

-----------------------------------------------------------------------------
Quiet == \A o \in Ops : Idle(o)

(* However cores are replaced, closed and killed, two processes run the    *)
(* proxy only while all but one of them are on their way out, and only     *)
(* when a startProxy could not kill the holder of its port and has moved   *)
(* to the next one (core_client.go:48-101, core_runtime.go:229-262,        *)
(* port_manager.go:225-258).                                               *)
OneProxy ==
  LET running == {p \in Procs : RunsProxy(p)} IN
  /\ Cardinality({p \in running : life[p] # "closing"}) <= 1
  /\ ~aside => Cardinality(running) <= 1

(* A core that says the TUN is starting has a startTUN under way: no       *)
(* failure, StopTUN or overlapping start leaves the message standing       *)
(* (core_runtime.go:333-375, 414-427).                                     *)
TUNStartingIsReal ==
  \A p \in Procs : tunStarting[p] =>
    \E o \in Ops : at[o] = p /\ pc[o] \in {"tunProxy", "tunStart", "tunOk", "tunFail"}

(* One call at a time and none failing: the core that answers runs the     *)
(* proxy and captures logs just when the calls so far asked for it, also   *)
(* when it has replaced another core (core_client.go:48-93).               *)
HandedOver ==
  serial /\ failed = {} /\ Quiet =>
    \A p \in Serving : proxyOn[p] = wish.proxy /\ logOn[p] = wish.log

(* One call at a time: the core that answers works with the settings of    *)
(* the file unless its last save failed, and while the last thing that set *)
(* its mode is a switchMode it routes by the mode it shows, even though    *)
(* switchMode does not look at the error of its save (core_runtime.go:266- *)
(* 317).  Before any switchMode it routes by rules whatever the settings   *)
(* say, and after a SetProxyMode with a legacy mode by that one, which is  *)
(* not shown.  A core the client gave up on while it was still starting    *)
(* may answer much later, with the settings it has read at its start.      *)
ModeAgrees ==
  serial /\ "await" \notin failed /\ Quiet =>
    \A p \in Serving :
      /\ ~unsaved[p] => settings[p] = file
      /\ switched[p] => mode[p] = settings[p].routing

(* The calls that were begun return, whichever processes start, close or   *)
(* are killed under them (core_client.go:44-197).                          *)
CallsReturn == []<>Quiet

(* A process that was started comes to serve or leaves: no core is left    *)
(* waiting beside another (core_api.go:334-341).                           *)
CoresSettle == []<>(\A p \in Procs : life[p] \in {"none", "serving", "gone"})

(* Cores beside each other: no two that stay run the proxy, and a TUN that *)
(* is said to be starting has somebody starting it.  (That a StopTUN may   *)
(* undo a later StartTUN is not excluded.)                                 *)
CoreSound == TypeOK /\ OneProxy /\ TUNStartingIsReal

=============================================================================
