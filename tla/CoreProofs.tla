----------------------------- MODULE CoreProofs -----------------------------
(***************************************************************************)
(* Theorems about Core, for any number of calls and processes.  Of cores   *)
(* beside each other: one that stays runs the proxy and the TUN's state is *)
(* real.  Of calls one at a time: what a core does and what settings it    *)
(* has survive its replacement.                                            *)
(***************************************************************************)
EXTENDS Core, FiniteSetTheorems, TLAPS

TUNLabels == {"tunProxy", "tunStart", "tunOk", "tunFail"}
ModeLabels == {"modeRead", "modeSave"}
Rising == {p \in Procs : life[p] \in {"starting", "loaded"}}
Young(p) == life[p] \in {"none", "starting", "loaded"}

(* A process that has not listened yet does nothing.                       *)
YoungRest ==
  \A p \in Procs : Young(p) => ~proxyOn[p] /\ ~logOn[p] /\ ~tunStarting[p] /\ ~switched[p]

(* A call in a core is in one that has listened.                           *)
Placed ==
  \A o \in Ops : pc[o] \in TUNLabels \cup ModeLabels => at[o] \in Procs /\ ~Young(at[o])

OneHolder ==
  ~aside => \A p, q \in Procs : RunsProxy(p) /\ RunsProxy(q) => p = q

OneServing == \A p, q \in Serving : p = q

StartingAlive == \A p \in Procs : tunStarting[p] => Alive(p)

TUNInv == TUNStartingIsReal /\ StartingAlive
ProcInv == TypeOK /\ YoungRest /\ Placed /\ OneHolder /\ OneServing

(* One call at a time.                                                     *)
OneBusy == serial => \A o, u \in Ops : ~Idle(o) /\ ~Idle(u) => o = u

(* Nobody has given up on a core: then one that is starting is waited for, *)
(* and a call that has found or replaced a core knows which one answers.   *)
Calm == serial /\ "await" \notin failed

Awaited == \A p \in Rising : \E o \in Ops : pc[o] = "await"
AwaitOne ==
  (\E o \in Ops : pc[o] = "await") => \A p, q \in Rising \cup Serving : p = q
Cleared == \A o \in Ops : pc[o] \in {"drain", "spawn"} => Serving = {}
Answering == \A o \in Ops : pc[o] \in TUNLabels \cup ModeLabels => at[o] \in Serving

CalmInv == OneBusy /\ (Calm => Awaited /\ AwaitOne /\ Cleared /\ Answering)

(* The settings of the core that answers, and of the one that will.        *)
FileRead ==
  \A p \in Procs : life[p] \in {"loaded", "serving"} /\ ~unsaved[p] => settings[p] = file
ModeKept == \A p \in Serving : switched[p] => mode[p] = settings[p].routing
Copied ==
  \A o \in Ops :
    /\ pc[o] \in ModeLabels => mode[at[o]] = copy[o].routing
    /\ pc[o] = "save" => \A p \in Serving : copy[o].routing = settings[p].routing

ModeInv == Calm => FileRead /\ ModeKept /\ Copied

(* What the core that answers does is what the calls asked for; on the way *)
(* from one core to the next the client has it.                            *)
Agree ==
  /\ \A p \in Serving : (proxyOn[p] <=> wish.proxy) /\ (logOn[p] <=> wish.log)
  /\ Serving = {} => ~wish.proxy /\ ~wish.log

Noted(o) == (was[o].proxy <=> wish.proxy) /\ (was[o].log <=> wish.log)

HandInv(o) ==
  /\ pc[o] = "new" => was[o] = NoWas
  /\ pc[o] = "readProxy" => (was[o].log <=> wish.log)
  /\ pc[o] \in {"info", "shutdown", "drain", "spawn", "await", "restoreLog", "restoreProxy"} => Noted(o)
  /\ pc[o] \in {"await", "restoreLog"} => \A p \in Serving : ~proxyOn[p] /\ ~logOn[p]
  /\ pc[o] = "restoreProxy" => \A p \in Serving : ~proxyOn[p] /\ (logOn[p] <=> wish.log)
  /\ pc[o] \in {"restoreLog", "restoreProxy"} => Serving # {}

Between == {"shutdown", "drain", "spawn", "await", "restoreLog", "restoreProxy"}

Handed ==
  serial /\ failed = {} =>
    /\ \A o \in Ops : HandInv(o)
    /\ Agree \/ \E o \in Ops : pc[o] \in Between

CoreInv == ProcInv /\ TUNInv /\ CalmInv /\ ModeInv /\ Handed

-----------------------------------------------------------------------------
(* Types.                                                                  *)

ClientTypes ==
  /\ serial \in BOOLEAN /\ kind \in [Ops -> Kinds] /\ pc \in [Ops -> Labels]
  /\ failed \subseteq Labels /\ pings \in [Ops -> 0..MaxPings]
WasTypes == was \in [Ops -> [proxy : BOOLEAN, log : BOOLEAN]]
AtTypes == at \in [Ops -> Procs \cup {None}]
CopyTypes == copy \in [Ops -> Settings]
LifeTypes == life \in [Procs -> {"none", "starting", "loaded", "serving", "closing", "gone"}]
FlagTypes ==
  /\ elevated \in [Procs -> BOOLEAN] /\ same \in [Procs -> BOOLEAN] /\ proxyOn \in [Procs -> BOOLEAN]
  /\ logOn \in [Procs -> BOOLEAN] /\ tunStarting \in [Procs -> BOOLEAN]
  /\ tunOn \in [Procs -> BOOLEAN] /\ switched \in [Procs -> BOOLEAN]
  /\ unsaved \in [Procs -> BOOLEAN] /\ aside \in BOOLEAN
  /\ stopping \in [Procs -> {"none", "mark", "halt"}]
ModeTypes == mode \in [Procs -> Modes \cup {"legacy"}] /\ settings \in [Procs -> Settings] /\ file \in Settings
WishTypes == wish \in [proxy : BOOLEAN, log : BOOLEAN]

LEMMA TypeParts ==
  /\ TypeOK <=> /\ ClientTypes /\ WasTypes /\ AtTypes /\ CopyTypes
                /\ LifeTypes /\ FlagTypes /\ ModeTypes /\ WishTypes
  /\ TypeOK' <=> /\ ClientTypes' /\ WasTypes' /\ AtTypes' /\ CopyTypes'
                 /\ LifeTypes' /\ FlagTypes' /\ ModeTypes' /\ WishTypes'
BY DEF TypeOK, ClientTypes, WasTypes, AtTypes, CopyTypes, LifeTypes, FlagTypes, ModeTypes, WishTypes

LEMMA NoTypes == NoWas \in [proxy : BOOLEAN, log : BOOLEAN] /\ NoSettings \in Settings
BY DEF NoWas, NoSettings, Settings, Modes

LEMMA ConstTypes ==
  /\ MaxPings \in Nat /\ 0 \in 0..MaxPings /\ {"new", "done"} \subseteq Labels
  /\ Procs \subseteq Nat /\ 0 \notin Procs
BY CoreAssumption DEF Labels, Procs

(* The end of a call. *)
LEMMA ReturnIs ==
  ASSUME TypeOK, NEW o \in Ops, Return(o)
  PROVE  /\ pc' \in [Ops -> Labels] /\ pings' \in [Ops -> 0..MaxPings] /\ WasTypes' /\ AtTypes' /\ CopyTypes'
         /\ pc'[o] = "done" /\ \A u \in Ops \ {o} : pc'[u] = pc[u] /\ was'[u] = was[u]
                                                /\ at'[u] = at[u] /\ copy'[u] = copy[u]
<1> USE TypeParts, NoTypes, ConstTypes DEF Return, Goto, Set
<1>1. pc' \in [Ops -> Labels] /\ pings' \in [Ops -> 0..MaxPings]
  BY DEF ClientTypes
<1>2. WasTypes'
  BY DEF WasTypes
<1>3. AtTypes' /\ CopyTypes'
  BY DEF AtTypes, CopyTypes
<1>4. pc'[o] = "done" /\ \A u \in Ops \ {o} : pc'[u] = pc[u] /\ was'[u] = was[u]
                                               /\ at'[u] = at[u] /\ copy'[u] = copy[u]
  BY DEF ClientTypes, WasTypes, AtTypes, CopyTypes
<1> QED
  BY <1>1, <1>2, <1>3, <1>4

-----------------------------------------------------------------------------
(* The frame: what a step of a call leaves to the other calls.             *)

Others(o) ==
  /\ serial' = serial /\ kind' = kind
  /\ failed' \in {failed, failed \cup {pc[o]}}
  /\ \A u \in Ops \ {o} :
       pc'[u] = pc[u] /\ was'[u] = was[u] /\ at'[u] = at[u] /\ copy'[u] = copy[u]

Client == ClientTypes /\ WasTypes /\ AtTypes /\ CopyTypes

LEMMA ReturnFrame ==
  ASSUME TypeOK, NEW o \in Ops, Return(o), UNCHANGED case, failed' \in {failed, failed \cup {pc[o]}}
  PROVE  Others(o) /\ Client'
<1>1. pc[o] \in Labels
  BY DEF TypeOK
<1>2. ClientTypes'
  BY <1>1, ReturnIs, TypeParts DEF ClientTypes, case
<1> QED
  BY <1>2, ReturnIs DEF Others, Client, case

LEMMA GotoFrame ==
  ASSUME TypeOK, NEW o \in Ops, NEW l \in Labels, Goto(o, l),
         UNCHANGED <<case, failed>>, pings' \in [Ops -> 0..MaxPings],
         WasTypes', AtTypes', CopyTypes',
         \A u \in Ops \ {o} : was'[u] = was[u] /\ at'[u] = at[u] /\ copy'[u] = copy[u]
  PROVE  Others(o) /\ Client'
<1> USE TypeParts DEF Goto, Set, case
<1>1. ClientTypes'
  BY DEF ClientTypes
<1>2. \A u \in Ops \ {o} : pc'[u] = pc[u]
  BY DEF ClientTypes
<1> QED
  BY <1>1, <1>2 DEF Others, Client

(* A step that only moves on. *)
LEMMA MoveFrame ==
  ASSUME TypeOK, NEW o \in Ops, NEW l \in Labels, Goto(o, l), UNCHANGED <<case, opVars, failed>>
  PROVE  Others(o) /\ Client'
<1>1. UNCHANGED <<pings, was, at, copy>>
  BY DEF opVars
<1>2. pings' \in [Ops -> 0..MaxPings] /\ WasTypes' /\ AtTypes' /\ CopyTypes'
  BY <1>1, TypeParts DEF ClientTypes, WasTypes, AtTypes, CopyTypes
<1> QED
  BY <1>1, <1>2, GotoFrame

LEMMA PingFrame ==
  ASSUME TypeOK, NEW o \in Ops, NEW l \in Labels, Goto(o, l) \/ pc' = pc,
         pings' = Set(pings, o, 0) \/ (pings[o] < MaxPings /\ pings' = Set(pings, o, pings[o] + 1)),
         UNCHANGED <<case, was, at, copy, failed>>
  PROVE  Others(o) /\ Client'
<1>1. pings' \in [Ops -> 0..MaxPings]
  <2>1. pings \in [Ops -> 0..MaxPings] /\ pings[o] \in 0..MaxPings
    BY TypeParts DEF ClientTypes
  <2>2. pings[o] < MaxPings => pings[o] + 1 \in 0..MaxPings
    BY <2>1, ConstTypes
  <2> QED
    BY <2>1, <2>2, ConstTypes DEF Set
<1>2. WasTypes' /\ AtTypes' /\ CopyTypes'
  BY TypeParts DEF WasTypes, AtTypes, CopyTypes
<1>3. CASE Goto(o, l)
  BY <1>1, <1>2, <1>3, GotoFrame
<1>4. CASE pc' = pc
  <2>1. ClientTypes'
    BY <1>1, <1>4, TypeParts DEF ClientTypes, case
  <2> QED
    BY <1>2, <1>4, <2>1 DEF Others, Client, case
<1> QED
  BY <1>3, <1>4

LEMMA EnsureFrame ==
  ASSUME TypeOK, NEW o \in Ops, Begin(o) \/ EnsureStep(o)
  PROVE  Others(o) /\ Client'
<1> USE DEF Labels, history
<1>1. CASE Begin(o) \/ GetInfo(o)
  BY <1>1, MoveFrame DEF Begin, GetInfo
<1>2. CASE Replace(o) \/ Spawn(o) \/ RestoreLog(o)
  BY <1>2, MoveFrame DEF Replace, Spawn, RestoreLog
<1>3. CASE ReadLog(o)
  <2>1. WasTypes' /\ \A u \in Ops \ {o} : was'[u] = was[u]
    BY <1>3, TypeParts DEF ReadLog, WasTypes
  <2>2. pings' \in [Ops -> 0..MaxPings] /\ AtTypes' /\ CopyTypes'
    BY <1>3, TypeParts DEF ReadLog, ClientTypes, AtTypes, CopyTypes
  <2> QED
    BY <1>3, <2>1, <2>2, GotoFrame DEF ReadLog
<1>4. CASE ReadProxy(o)
  <2>1. WasTypes' /\ \A u \in Ops \ {o} : was'[u] = was[u]
    BY <1>4, TypeParts DEF ReadProxy, WasTypes
  <2>2. pings' \in [Ops -> 0..MaxPings] /\ AtTypes' /\ CopyTypes'
    BY <1>4, TypeParts DEF ReadProxy, ClientTypes, AtTypes, CopyTypes
  <2> QED
    BY <1>4, <2>1, <2>2, GotoFrame DEF ReadProxy
<1>5. CASE Drain(o)
  BY <1>5, PingFrame DEF Drain, Ping
<1>6. CASE Await(o)
  BY <1>6, PingFrame DEF Await, Ping
<1>7. CASE DrainGivesUp(o)
  BY <1>7, PingFrame DEF DrainGivesUp
<1>8. CASE SpawnFails(o) \/ AwaitGivesUp(o)
  BY <1>8, ReturnFrame DEF SpawnFails, AwaitGivesUp, Fails
<1>9. CASE RestoreProxy(o)
  BY <1>9, ReturnFrame, MoveFrame DEF RestoreProxy, Fails, GoesOn
<1>10. CASE CheckElevated(o)
  BY <1>10, ReturnFrame, MoveFrame DEF CheckElevated, Fails, GoesOn
<1> QED
  BY <1>1, <1>2, <1>3, <1>4, <1>5, <1>6, <1>7, <1>8, <1>9, <1>10 DEF EnsureStep

LEMMA CallFrame ==
  ASSUME TypeOK, Placed, NEW o \in Ops, CallStep(o)
  PROVE  Others(o) /\ Client'
<1> USE DEF Labels, history
<1>1. CASE CallFails(o) \/ StartProxy(o) \/ ConnectionLost(o)
  BY <1>1, ReturnFrame DEF CallFails, StartProxy, ConnectionLost, Fails, Succeeds
<1>2. CASE StopProxy(o) \/ StartLogCapture(o) \/ Shutdown(o) \/ StopTUN(o) \/ SetProxyMode(o)
  BY <1>2, ReturnFrame DEF StopProxy, StartLogCapture, Shutdown, StopTUN, SetProxyMode, Succeeds
<1>3. CASE ModeSave(o) \/ SaveSettings(o)
  BY <1>3, ReturnFrame DEF ModeSave, SaveSettings, Succeeds, Fails
<1>4. CASE TUNProxy(o) \/ TUNStart(o)
  BY <1>4, MoveFrame DEF TUNProxy, TUNStart
<1>5. CASE TUNReturns(o)
  BY <1>5, MoveFrame, ReturnFrame DEF TUNReturns, Fails, GoesOn
<1>6. CASE Poll(o)
  BY <1>6, PingFrame, ReturnFrame DEF Poll, Fails, Succeeds
<1>7. CASE SwitchMode(o)
  <2>1. PICK p \in Serving, m \in Modes :
          copy' = [copy EXCEPT ![o].routing = m] /\ at' = Set(at, o, p)
    BY <1>7 DEF SwitchMode
  <2>2. CopyTypes' /\ \A u \in Ops \ {o} : copy'[u] = copy[u]
    BY <2>1, TypeParts DEF CopyTypes, Settings
  <2>3. AtTypes' /\ \A u \in Ops \ {o} : at'[u] = at[u]
    BY <2>1, TypeParts DEF AtTypes, Set, Serving
  <2>4. pings' \in [Ops -> 0..MaxPings] /\ WasTypes' /\ was' = was
    BY <1>7, TypeParts DEF SwitchMode, ClientTypes, WasTypes
  <2> QED
    BY <1>7, <2>2, <2>3, <2>4, GotoFrame DEF SwitchMode
<1>8. CASE ModeRead(o)
  <2>1. at[o] \in Procs
    BY <1>8 DEF ModeRead, Placed, ModeLabels
  <2>2. settings[at[o]].rest \in Ops \cup {None}
    <3>1. settings[at[o]] \in Settings
      BY <2>1, TypeParts DEF ModeTypes
    <3> QED
      BY <3>1 DEF Settings
  <2>3. CopyTypes' /\ \A u \in Ops \ {o} : copy'[u] = copy[u]
    BY <1>8, <2>2, TypeParts DEF ModeRead, CopyTypes, Settings
  <2>4. pings' \in [Ops -> 0..MaxPings] /\ WasTypes' /\ was' = was /\ AtTypes' /\ at' = at
    BY <1>8, TypeParts DEF ModeRead, ClientTypes, WasTypes, AtTypes
  <2> QED
    BY <1>8, <2>3, <2>4, GotoFrame DEF ModeRead
<1>9. CASE GetSettings(o)
  <2>1. PICK p \in Serving : copy' = Set(copy, o, [settings[p] EXCEPT !.rest = o])
    BY <1>9 DEF GetSettings
  <2>2. [settings[p] EXCEPT !.rest = o] \in Settings
    <3>1. settings[p] \in Settings
      BY TypeParts DEF ModeTypes, Serving
    <3> QED
      BY <3>1 DEF Settings
  <2>3. CopyTypes' /\ \A u \in Ops \ {o} : copy'[u] = copy[u]
    BY <2>1, <2>2, TypeParts DEF CopyTypes, Set
  <2>4. pings' \in [Ops -> 0..MaxPings] /\ WasTypes' /\ was' = was /\ AtTypes' /\ at' = at
    BY <1>9, TypeParts DEF GetSettings, ClientTypes, WasTypes, AtTypes
  <2> QED
    BY <1>9, <2>3, <2>4, GotoFrame DEF GetSettings
<1>10. CASE StartTUN(o)
  <2>1. AtTypes' /\ \A u \in Ops \ {o} : at'[u] = at[u]
    BY <1>10, TypeParts DEF StartTUN, AtTypes, Set, Serving
  <2>2. pings' \in [Ops -> 0..MaxPings] /\ WasTypes' /\ was' = was /\ CopyTypes' /\ copy' = copy
    BY <1>10, TypeParts DEF StartTUN, ClientTypes, WasTypes, CopyTypes
  <2> QED
    BY <1>10, <2>1, <2>2, GotoFrame DEF StartTUN
<1> QED
  BY <1>1, <1>2, <1>3, <1>4, <1>5, <1>6, <1>7, <1>8, <1>9, <1>10 DEF CallStep

-----------------------------------------------------------------------------
(* The processes.                                                          *)

(* Ends(q) and startProxy: the processes of `killed` are gone. *)
Killed(killed) ==
  /\ life' = [x \in Procs |-> IF x \in killed THEN "gone" ELSE life[x]]
  /\ logOn' = [x \in Procs |-> x \notin killed /\ logOn[x]]
  /\ tunStarting' = [x \in Procs |-> x \notin killed /\ tunStarting[x]]

LEMMA EndsIs ==
  ASSUME TypeOK, NEW q \in Procs, Ends(q)
  PROVE  /\ Killed({q}) /\ LifeTypes'
         /\ {elevated', logOn', tunStarting', tunOn'} \subseteq [Procs -> BOOLEAN]
         /\ stopping' \in [Procs -> {"none", "mark", "halt"}]
<1> USE TypeParts DEF Ends, Set, LifeTypes, FlagTypes
<1>1. LifeTypes' /\ life' = [x \in Procs |-> IF x \in {q} THEN "gone" ELSE life[x]]
  OBVIOUS
<1>2. logOn' = [x \in Procs |-> x \notin {q} /\ logOn[x]]
  OBVIOUS
<1>3. tunStarting' = [x \in Procs |-> x \notin {q} /\ tunStarting[x]]
  OBVIOUS
<1>4. {elevated', logOn', tunStarting', tunOn'} \subseteq [Procs -> BOOLEAN]
  OBVIOUS
<1>5. stopping' \in [Procs -> {"none", "mark", "halt"}]
  OBVIOUS
<1> QED
  BY <1>1, <1>2, <1>3, <1>4, <1>5 DEF Killed

Holders == {q \in Procs : RunsProxy(q)}

(* What startProxy(p) leaves: some of those that had the proxy are killed, *)
(* and p has it unless it is one of them.                                  *)
Starts(p, killed) ==
  /\ Killed(killed) /\ LifeTypes'
  /\ {elevated', proxyOn', logOn', tunStarting', tunOn'} \subseteq [Procs -> BOOLEAN]
  /\ stopping' \in [Procs -> {"none", "mark", "halt"}]
  /\ \A x \in Procs : proxyOn'[x] => x = p \/ (proxyOn[x] /\ x \notin killed)
  /\ p \notin killed => proxyOn'[p]

LEMMA NoneKilled ==
  ASSUME TypeOK, NEW p \in Procs, UNCHANGED <<life, elevated, logOn, tunVars>>,
         proxyOn' \in [Procs -> BOOLEAN], proxyOn'[p],
         \A x \in Procs : proxyOn'[x] => x = p \/ proxyOn[x]
  PROVE  Starts(p, {})
<1> USE TypeParts
<1>1. UNCHANGED <<life, elevated, logOn, tunStarting, tunOn, stopping>>
  BY DEF tunVars
<1>2. LifeTypes' /\ {elevated', proxyOn', logOn', tunStarting', tunOn'} \subseteq [Procs -> BOOLEAN]
      /\ stopping' \in [Procs -> {"none", "mark", "halt"}]
  BY <1>1 DEF LifeTypes, FlagTypes
<1>3. life' = [x \in Procs |-> IF x \in {} THEN "gone" ELSE life[x]]
  BY <1>1 DEF LifeTypes
<1>4. logOn' = [x \in Procs |-> x \notin {} /\ logOn[x]]
  BY <1>1 DEF FlagTypes
<1>5. tunStarting' = [x \in Procs |-> x \notin {} /\ tunStarting[x]]
  BY <1>1 DEF FlagTypes
<1> QED
  BY <1>2, <1>3, <1>4, <1>5 DEF Killed, Starts

(* Only a process that runs the proxy is killed, all of them unless p      *)
(* moved aside or had the proxy itself.                                    *)
LEMMA StartProxyIs ==
  ASSUME TypeOK, OneHolder, NEW p \in Procs, startProxy(p)
  PROVE  /\ \E killed \in SUBSET Holders :
              /\ Starts(p, killed)
              /\ killed = {p} \/ p \notin killed
              /\ p \in Holders => killed \in {{}, {p}}
              /\ ~aside' => killed = Holders \/ Holders = {p}
         /\ aside' \in BOOLEAN /\ (aside => aside')
<1> USE TypeParts
<1>0. proxyOn \in [Procs -> BOOLEAN] /\ aside \in BOOLEAN
  BY DEF FlagTypes
<1>1. CASE /\ Holders = {}
           /\ proxyOn' = Set(proxyOn, p, TRUE)
           /\ UNCHANGED <<life, elevated, logOn, aside, tunVars>>
  <2>1. proxyOn' \in [Procs -> BOOLEAN] /\ proxyOn'[p] /\ \A x \in Procs : proxyOn'[x] => x = p \/ proxyOn[x]
    BY <1>0, <1>1 DEF Set
  <2>2. Starts(p, {})
    BY <1>1, <2>1, NoneKilled
  <2> QED
    BY <1>0, <1>1, <2>2
<1>2. ASSUME NEW q \in Holders, Ends(q), RunsProxy(p) => q = p, UNCHANGED aside,
             proxyOn' = [x \in Procs |-> IF x = q THEN FALSE ELSE x = p \/ proxyOn[x]]
      PROVE  /\ Starts(p, {q})
             /\ ~aside' => {q} = Holders
             /\ p \in Holders => q = p
  <2>1. q \in Procs
    BY DEF Holders
  <2>2. Killed({q}) /\ LifeTypes' /\ {elevated', logOn', tunStarting', tunOn'} \subseteq [Procs -> BOOLEAN]
        /\ stopping' \in [Procs -> {"none", "mark", "halt"}]
    BY <1>2, <2>1, EndsIs
  <2>3. proxyOn' \in [Procs -> BOOLEAN]
    BY <1>0, <1>2
  <2>4. \A x \in Procs : proxyOn'[x] => x = p \/ (proxyOn[x] /\ x \notin {q})
    BY <1>2, <2>1
  <2>5. p \notin {q} => proxyOn'[p]
    BY <1>2, <2>1
  <2>6. ~aside' => {q} = Holders
    BY <1>2 DEF Holders, OneHolder
  <2> QED
    BY <1>2, <2>2, <2>3, <2>4, <2>5, <2>6 DEF Starts, Holders
<1>3. CASE /\ p \notin Holders
           /\ proxyOn' = Set(proxyOn, p, TRUE) /\ aside' = TRUE
           /\ UNCHANGED <<life, elevated, logOn, tunVars>>
  <2>1. proxyOn' \in [Procs -> BOOLEAN] /\ proxyOn'[p] /\ \A x \in Procs : proxyOn'[x] => x = p \/ proxyOn[x]
    BY <1>0, <1>3 DEF Set
  <2>2. Starts(p, {})
    BY <1>3, <2>1, NoneKilled
  <2> QED
    BY <1>3, <2>2
<1>4. CASE p \in Holders /\ UNCHANGED <<proxyVars, life, elevated, tunVars>>
  <2>1. /\ UNCHANGED <<proxyOn, aside, life, elevated, logOn, tunVars>>
        /\ proxyOn[p]
    BY <1>4 DEF proxyVars, Holders, RunsProxy
  <2>2. Starts(p, {})
    BY <1>0, <2>1, NoneKilled
  <2>3. ~aside' => Holders = {p}
    BY <1>4, <2>1 DEF OneHolder, Holders
  <2> QED
    BY <1>0, <1>4, <2>1, <2>2, <2>3
<1>5. \/ /\ Holders = {}
         /\ proxyOn' = Set(proxyOn, p, TRUE)
         /\ UNCHANGED <<life, elevated, logOn, aside, tunVars>>
      \/ \E q \in Holders :
           /\ Ends(q) /\ (RunsProxy(p) => q = p) /\ UNCHANGED aside
           /\ proxyOn' = [x \in Procs |-> IF x = q THEN FALSE ELSE x = p \/ proxyOn[x]]
      \/ /\ p \notin Holders
         /\ proxyOn' = Set(proxyOn, p, TRUE) /\ aside' = TRUE
         /\ UNCHANGED <<life, elevated, logOn, tunVars>>
      \/ p \in Holders /\ UNCHANGED <<proxyVars, life, elevated, tunVars>>
  BY DEF startProxy, Holders
<1>6. CASE \E q \in Holders :
           /\ Ends(q) /\ (RunsProxy(p) => q = p) /\ UNCHANGED aside
           /\ proxyOn' = [x \in Procs |-> IF x = q THEN FALSE ELSE x = p \/ proxyOn[x]]
  <2>1. PICK q \in Holders :
           /\ Ends(q) /\ (RunsProxy(p) => q = p) /\ UNCHANGED aside
           /\ proxyOn' = [x \in Procs |-> IF x = q THEN FALSE ELSE x = p \/ proxyOn[x]]
    BY <1>6
  <2>2. /\ Starts(p, {q}) /\ (~aside' => {q} = Holders) /\ (p \in Holders => q = p)
    BY <1>2, <2>1
  <2>3. {q} = {p} \/ p \notin {q}
    OBVIOUS
  <2>4. {q} \in SUBSET Holders /\ aside' \in BOOLEAN /\ (aside => aside')
    BY <1>0, <2>1
  <2> QED
    BY <2>2, <2>3, <2>4
<1> QED
  BY <1>1, <1>3, <1>4, <1>5, <1>6

(* The steps by what they do to the processes. *)
Rests == UNCHANGED <<life, proxyOn, logOn, aside, tunStarting, switched>>

LEMMA ProcTypes ==
  ASSUME ProcInv, NEW o \in Ops, Begin(o) \/ EnsureStep(o) \/ CallStep(o)
  PROVE  LifeTypes' /\ FlagTypes' /\ ModeTypes' /\ WishTypes'
<1> USE TypeParts DEF ProcInv, history, procVars, proxyVars, tunVars, modeVars
<1>0. LifeTypes /\ FlagTypes /\ ModeTypes /\ WishTypes /\ OneHolder
  OBVIOUS
<1>1. CASE Begin(o) \/ ReadLog(o) \/ ReadProxy(o) \/ GetInfo(o) \/ Drain(o) \/ DrainGivesUp(o) \/ Await(o)
  <2>1. UNCHANGED <<procVars, proxyVars, modeVars, tunVars, history>>
    BY <1>1 DEF Begin, ReadLog, ReadProxy, GetInfo, Drain, DrainGivesUp, Await, Ping
  <2> QED
    BY <2>1 DEF LifeTypes, FlagTypes, ModeTypes, WishTypes
<1>2. CASE SpawnFails(o) \/ AwaitGivesUp(o) \/ CheckElevated(o) \/ CallFails(o) \/ ConnectionLost(o) \/ Poll(o)
  <2>1. UNCHANGED <<procVars, proxyVars, modeVars, tunVars, wish>>
    BY <1>2 DEF SpawnFails, AwaitGivesUp, CheckElevated, CallFails, ConnectionLost, Poll, Fails, GoesOn
  <2> QED
    BY <2>1 DEF LifeTypes, FlagTypes, ModeTypes, WishTypes
<1>3. CASE ModeRead(o) \/ GetSettings(o)
  <2>1. UNCHANGED <<procVars, proxyVars, modeVars, tunVars, wish>>
    BY <1>3 DEF ModeRead, GetSettings
  <2> QED
    BY <2>1 DEF LifeTypes, FlagTypes, ModeTypes, WishTypes
<1>4. CASE Replace(o) \/ Spawn(o)
  <2>1. UNCHANGED <<same, proxyVars, modeVars, tunVars, wish>>
    BY <1>4 DEF Replace, Spawn
  <2>2. LifeTypes'
    BY <1>4 DEF Replace, Spawn, LifeTypes, Set
  <2>3. elevated' \in [Procs -> BOOLEAN]
    BY <1>4 DEF Replace, Spawn, FlagTypes, Set, Elevate
  <2> QED
    BY <2>1, <2>2, <2>3 DEF FlagTypes, ModeTypes, WishTypes
<1>5. CASE RestoreLog(o)
  <2>1. UNCHANGED <<procVars, proxyOn, aside, modeVars, tunVars, wish>>
    BY <1>5 DEF RestoreLog
  <2>2. logOn' \in [Procs -> BOOLEAN]
    BY <1>5 DEF RestoreLog
  <2> QED
    BY <2>1, <2>2 DEF LifeTypes, FlagTypes, ModeTypes, WishTypes
<1>6. CASE RestoreProxy(o) \/ StartProxy(o) \/ TUNProxy(o)
  <2>1. UNCHANGED <<same, modeVars>>
    BY <1>6 DEF RestoreProxy, StartProxy, TUNProxy
  <2>2. startProxyFails \/ \E p \in Procs : startProxy(p)
    BY <1>6 DEF RestoreProxy, StartProxy, TUNProxy, Serving, Placed, TUNLabels
  <2>3. LifeTypes' /\ {elevated', proxyOn', logOn', tunStarting', tunOn'} \subseteq [Procs -> BOOLEAN]
        /\ stopping' \in [Procs -> {"none", "mark", "halt"}] /\ aside' \in BOOLEAN
    <3>1. CASE startProxyFails
      BY <3>1 DEF startProxyFails, LifeTypes, FlagTypes
    <3> QED
      BY <2>2, <3>1, StartProxyIs DEF Starts
  <2>4. wish' = wish \/ wish' = [wish EXCEPT !.proxy = TRUE]
    BY <1>6 DEF RestoreProxy, StartProxy, TUNProxy, GoesOn, Fails
  <2>5. WishTypes'
    BY <2>4 DEF WishTypes
  <2> QED
    BY <2>1, <2>3, <2>5 DEF FlagTypes, ModeTypes
<1>7. CASE StopProxy(o)
  <2>1. UNCHANGED <<procVars, logOn, aside, modeVars, tunVars>>
    BY <1>7 DEF StopProxy
  <2>2. proxyOn' \in [Procs -> BOOLEAN] /\ WishTypes'
    BY <1>7 DEF StopProxy, WishTypes
  <2> QED
    BY <2>1, <2>2 DEF LifeTypes, FlagTypes, ModeTypes
<1>8. CASE StartLogCapture(o)
  <2>1. UNCHANGED <<procVars, proxyOn, aside, modeVars, tunVars>>
    BY <1>8 DEF StartLogCapture
  <2>2. logOn' \in [Procs -> BOOLEAN] /\ WishTypes'
    BY <1>8 DEF StartLogCapture, WishTypes
  <2> QED
    BY <2>1, <2>2 DEF LifeTypes, FlagTypes, ModeTypes
<1>9. CASE Shutdown(o)
  <2>1. UNCHANGED <<elevated, same, proxyVars, modeVars, tunVars>>
    BY <1>9 DEF Shutdown
  <2>2. LifeTypes' /\ WishTypes'
    BY <1>9 DEF Shutdown, WishTypes, LifeTypes
  <2> QED
    BY <2>1, <2>2 DEF FlagTypes, ModeTypes
<1>10. CASE SwitchMode(o) \/ SetProxyMode(o)
  <2>1. UNCHANGED <<procVars, proxyVars, settings, file, unsaved, tunVars, wish>>
    BY <1>10 DEF SwitchMode, SetProxyMode
  <2>2. mode' \in [Procs -> Modes \cup {"legacy"}] /\ switched' \in [Procs -> BOOLEAN]
    <3>1. PICK p \in Procs, m \in Modes \cup {"legacy"} :
            mode' = Set(mode, p, m) /\ switched' = Set(switched, p, FALSE)
      BY <1>10 DEF SwitchMode, SetProxyMode, Serving
    <3> QED
      BY <3>1 DEF ModeTypes, FlagTypes, Set
  <2> QED
    BY <2>1, <2>2 DEF LifeTypes, FlagTypes, ModeTypes, WishTypes
<1>11. CASE ModeSave(o) \/ SaveSettings(o)
  <2>1. UNCHANGED <<procVars, proxyVars, mode, tunVars, wish>>
    BY <1>11 DEF ModeSave, SaveSettings, Fails
  <2>2. switched' \in [Procs -> BOOLEAN] /\ unsaved' \in [Procs -> BOOLEAN]
    BY <1>11 DEF ModeSave, SaveSettings, saveSettings, FlagTypes, Set
  <2>3. copy[o] \in Settings
    BY DEF CopyTypes
  <2>4. settings' \in [Procs -> Settings] /\ file' \in Settings
    BY <1>11, <2>3, NoTypes DEF ModeSave, SaveSettings, saveSettings, ModeTypes, Set
  <2> QED
    BY <2>1, <2>2, <2>4 DEF LifeTypes, FlagTypes, ModeTypes, WishTypes
<1>12. CASE StartTUN(o) \/ TUNReturns(o)
  <2>1. UNCHANGED <<procVars, proxyVars, modeVars, tunOn, stopping, wish>>
    BY <1>12 DEF StartTUN, TUNReturns, GoesOn, Fails
  <2>2. tunStarting' \in [Procs -> BOOLEAN]
    BY <1>12 DEF StartTUN, TUNReturns, FlagTypes, Set
  <2> QED
    BY <2>1, <2>2 DEF LifeTypes, FlagTypes, ModeTypes, WishTypes
<1>13. CASE TUNStart(o) \/ StopTUN(o)
  <2>1. UNCHANGED <<procVars, proxyVars, modeVars, tunStarting, wish>>
    BY <1>13 DEF TUNStart, StopTUN
  <2>2. tunOn' \in [Procs -> BOOLEAN] /\ stopping' \in [Procs -> {"none", "mark", "halt"}]
    BY <1>13 DEF TUNStart, StopTUN, FlagTypes, Set
  <2> QED
    BY <2>1, <2>2 DEF LifeTypes, FlagTypes, ModeTypes, WishTypes
<1> QED
  BY <1>1, <1>2, <1>3, <1>4, <1>5, <1>6, <1>7, <1>8, <1>9, <1>10, <1>11, <1>12, <1>13
     DEF EnsureStep, CallStep

LEMMA ProcStepTypes ==
  ASSUME TypeOK, NEW p \in Procs, ProcStep(p)
  PROVE  TypeOK' /\ UNCHANGED <<case, pc, opVars, history>>
<1> USE TypeParts DEF history, procVars, proxyVars, tunVars, modeVars, opVars, case
<1>1. UNCHANGED <<case, pc, opVars, history, same>>
  BY DEF ProcStep, NewCoreRuntime, Listen, Exit, StopMark, StopHalt
<1>2. Client' /\ WishTypes'
  BY <1>1 DEF Client, ClientTypes, WasTypes, AtTypes, CopyTypes, WishTypes
<1>3. LifeTypes' /\ FlagTypes' /\ ModeTypes'
  <2>1. CASE NewCoreRuntime(p)
    BY <2>1 DEF NewCoreRuntime, LifeTypes, FlagTypes, ModeTypes, Set, Modes
  <2>2. CASE Listen(p)
    BY <2>2 DEF Listen, LifeTypes, FlagTypes, ModeTypes, Set
  <2>3. CASE Exit(p)
    <3>1. ModeTypes' /\ switched' = switched /\ same' = same /\ proxyOn' \in [Procs -> BOOLEAN]
      BY <2>3 DEF Exit, FlagTypes, ModeTypes, Set
    <3> QED
      BY <2>3, <3>1, EndsIs DEF Exit, FlagTypes
  <2>4. CASE StopMark(p)
    BY <2>4 DEF StopMark, LifeTypes, FlagTypes, ModeTypes, Set
  <2>5. CASE StopHalt(p)
    BY <2>5 DEF StopHalt, LifeTypes, FlagTypes, ModeTypes, Set
  <2> QED
    BY <2>1, <2>2, <2>3, <2>4, <2>5 DEF ProcStep
<1> QED
  BY <1>1, <1>2, <1>3 DEF Client

(* What the invariant of the processes needs to know of a step of a call. *)
LEMMA PlacedKeeps ==
  ASSUME TypeOK, NEW o \in Ops, Others(o), Placed,
         \A x \in Procs : Young(x)' => Young(x),
         pc'[o] \in TUNLabels \cup ModeLabels =>
           \/ at'[o] \in Procs /\ life'[at'[o]] \notin {"none", "starting", "loaded"}
           \/ pc[o] \in TUNLabels \cup ModeLabels /\ at'[o] = at[o]
  PROVE  Placed'
<1> SUFFICES ASSUME NEW u \in Ops, pc'[u] \in TUNLabels \cup ModeLabels
             PROVE  at'[u] \in Procs /\ life'[at'[u]] \notin {"none", "starting", "loaded"}
  BY DEF Placed, Young
<1>1. CASE u = o
  BY <1>1 DEF Placed, Young
<1>2. CASE u # o
  BY <1>2 DEF Placed, Young, Others
<1> QED
  BY <1>1, <1>2

LEMMA HoldersKeep ==
  ASSUME OneHolder, OneServing,
         aside' = aside, \A x \in Procs : RunsProxy(x)' => RunsProxy(x),
         \A x \in Procs : life'[x] = "serving" => life[x] = "serving"
  PROVE  OneHolder' /\ OneServing'
BY DEF OneHolder, OneServing, Serving

LEMMA TUNKeeps ==
  ASSUME TypeOK, NEW o \in Ops, Others(o), TUNInv,
         \A x \in Procs : tunStarting'[x] => tunStarting[x] /\ Alive(x)',
         pc[o] \in TUNLabels => (pc'[o] \in TUNLabels /\ at'[o] = at[o]) \/ ~tunStarting'[at[o]]
  PROVE  TUNInv'
<1>1. StartingAlive'
  BY DEF StartingAlive
<1>2. ASSUME NEW p \in Procs, tunStarting'[p]
      PROVE  \E u \in Ops : at'[u] = p /\ pc'[u] \in TUNLabels
  <2>1. PICK u \in Ops : at[u] = p /\ pc[u] \in TUNLabels
    BY <1>2 DEF TUNInv, TUNStartingIsReal, TUNLabels
  <2>2. CASE u = o
    BY <1>2, <2>1, <2>2
  <2>3. CASE u # o
    BY <2>1, <2>3 DEF Others
  <2> QED
    BY <2>2, <2>3
<1> QED
  BY <1>1, <1>2 DEF TUNInv, TUNStartingIsReal, TUNLabels

ProcSafe == YoungRest /\ Placed /\ OneHolder /\ OneServing /\ TUNInv

(* The steps that leave the processes alone. *)
Plain(o) ==
  \/ Begin(o) \/ ReadLog(o) \/ ReadProxy(o) \/ GetInfo(o) \/ Drain(o) \/ DrainGivesUp(o)
  \/ Await(o) \/ SpawnFails(o) \/ AwaitGivesUp(o) \/ CheckElevated(o) \/ CallFails(o)
  \/ ConnectionLost(o) \/ Poll(o) \/ ModeRead(o) \/ GetSettings(o) \/ SaveSettings(o)
  \/ TUNStart(o) \/ StopTUN(o)

LEMMA PlainIs ==
  ASSUME TypeOK, NEW o \in Ops, Plain(o)
  PROVE  /\ Rests
         /\ pc'[o] \in TUNLabels \cup ModeLabels =>
              pc[o] \in TUNLabels \cup ModeLabels /\ at'[o] = at[o]
         /\ pc[o] \in TUNLabels => (pc'[o] \in TUNLabels /\ at'[o] = at[o]) \/ ~Alive(at[o])
<1>0. pc \in [Ops -> Labels]
  BY DEF TypeOK
<1> USE <1>0 DEF TUNLabels, ModeLabels, Rests, procVars, proxyVars, modeVars, tunVars, opVars, history,
                 Goto, Set
<1>1. CASE Begin(o) \/ GetInfo(o)
  BY <1>1 DEF Begin, CanBegin, GetInfo
<1>2. CASE ReadLog(o) \/ ReadProxy(o) \/ DrainGivesUp(o)
  BY <1>2 DEF ReadLog, ReadProxy, DrainGivesUp
<1>3. CASE Drain(o)
  BY <1>3 DEF Drain, Ping
<1>4. CASE Await(o)
  BY <1>4 DEF Await, Ping
<1>5. CASE SpawnFails(o) \/ AwaitGivesUp(o) \/ ConnectionLost(o)
  BY <1>5 DEF SpawnFails, AwaitGivesUp, ConnectionLost, Fails, Return
<1>6. CASE CheckElevated(o)
  BY <1>6 DEF CheckElevated, GoesOn, Fails, Return
<1>7. CASE CallFails(o)
  BY <1>7 DEF CallFails, Succeeds, Fails, Return
<1>8. CASE Poll(o)
  BY <1>8 DEF Poll, Succeeds, Fails, Return
<1>9. CASE ModeRead(o) \/ GetSettings(o)
  BY <1>9 DEF ModeRead, GetSettings, Calls
<1>10. CASE SaveSettings(o) \/ StopTUN(o)
  BY <1>10 DEF SaveSettings, StopTUN, Calls, Succeeds, Fails, Return
<1>11. CASE TUNStart(o)
  BY <1>11 DEF TUNStart
<1> QED
  BY <1>1, <1>2, <1>3, <1>4, <1>5, <1>6, <1>7, <1>8, <1>9, <1>10, <1>11 DEF Plain

LEMMA PlainSafe ==
  ASSUME TypeOK, NEW o \in Ops, Others(o), ProcSafe, Plain(o)
  PROVE  ProcSafe'
<1>1. UNCHANGED <<life, proxyOn, logOn, aside, tunStarting, switched>>
  BY PlainIs DEF Rests
<1>2. \A x \in Procs : (Young(x)' <=> Young(x)) /\ (Alive(x)' <=> Alive(x))
  BY <1>1 DEF Young, Alive
<1>3. YoungRest'
  BY <1>1, <1>2 DEF YoungRest, ProcSafe
<1>4. Placed'
  BY <1>2, PlainIs, PlacedKeeps DEF ProcSafe
<1>5. OneHolder' /\ OneServing'
  BY <1>1, <1>2, HoldersKeep DEF ProcSafe, RunsProxy
<1>6. pc[o] \in TUNLabels => at[o] \in Procs
  BY DEF ProcSafe, Placed
<1>7. pc[o] \in TUNLabels => (pc'[o] \in TUNLabels /\ at'[o] = at[o]) \/ ~tunStarting'[at[o]]
  BY <1>1, <1>6, PlainIs DEF ProcSafe, TUNInv, StartingAlive
<1>8. \A x \in Procs : tunStarting'[x] => tunStarting[x] /\ Alive(x)'
  BY <1>1, <1>2 DEF ProcSafe, TUNInv, StartingAlive
<1>9. TUNInv'
  BY <1>7, <1>8, TUNKeeps DEF ProcSafe
<1> QED
  BY <1>3, <1>4, <1>5, <1>9 DEF ProcSafe

(* startProxy for a call of a core that has listened. *)
LEMMA StartProxySafe ==
  ASSUME TypeOK, ProcSafe, NEW p \in Procs, life[p] \in {"serving", "closing", "gone"}, startProxy(p),
         UNCHANGED switched
  PROVE  /\ YoungRest' /\ OneHolder' /\ OneServing'
         /\ \A x \in Procs : Young(x)' => Young(x)
         /\ \A x \in Procs : tunStarting'[x] => tunStarting[x] /\ Alive(x)'
<1>1. PICK killed \in SUBSET Holders :
        /\ Killed(killed)
        /\ \A x \in Procs : proxyOn'[x] => x = p \/ (proxyOn[x] /\ x \notin killed)
        /\ ~aside' => killed = Holders \/ Holders = {p}
  BY StartProxyIs DEF ProcSafe, Starts
<1>2. \A x \in Procs : /\ life'[x] = IF x \in killed THEN "gone" ELSE life[x]
                       /\ logOn'[x] => logOn[x]
                       /\ tunStarting'[x] => x \notin killed /\ tunStarting[x]
  BY <1>1 DEF Killed
<1>3. \A x \in Procs : Young(x)' => Young(x)
  BY <1>2 DEF Young
<1>4. YoungRest'
  BY <1>1, <1>2, <1>3 DEF ProcSafe, YoungRest, Young
<1>5. OneHolder'
  <2>1. ~aside' => \A x \in Procs : RunsProxy(x)' => x = p
    BY <1>1, <1>2 DEF Alive, Holders, RunsProxy
  <2> QED
    BY <2>1 DEF OneHolder
<1>6. OneServing'
  BY <1>2 DEF ProcSafe, OneServing, Serving
<1>7. \A x \in Procs : tunStarting'[x] => tunStarting[x] /\ Alive(x)'
  BY <1>2 DEF ProcSafe, TUNInv, StartingAlive, Alive
<1> QED
  BY <1>3, <1>4, <1>5, <1>6, <1>7

LEMMA StartSafe ==
  ASSUME TypeOK, NEW o \in Ops, Others(o), ProcSafe,
         RestoreProxy(o) \/ StartProxy(o) \/ TUNProxy(o)
  PROVE  ProcSafe'
<1>0. pc \in [Ops -> Labels]
  BY DEF TypeOK
<1>1. switched' = switched
  BY DEF RestoreProxy, StartProxy, TUNProxy, modeVars
<1>2. \/ startProxyFails
      \/ \E p \in Procs : life[p] \in {"serving", "closing", "gone"} /\ startProxy(p)
  <2>1. CASE TUNProxy(o)
    <3>1. at[o] \in Procs /\ ~Young(at[o])
      BY <2>1 DEF TUNProxy, ProcSafe, Placed, TUNLabels
    <3>2. life[at[o]] \in {"serving", "closing", "gone"}
      BY <3>1, TypeParts DEF Young, LifeTypes
    <3> QED
      BY <2>1, <3>1, <3>2 DEF TUNProxy
  <2>2. CASE RestoreProxy(o) \/ StartProxy(o)
    BY <2>2 DEF RestoreProxy, StartProxy, Serving
  <2> QED
    BY <2>1, <2>2
<1>3. /\ YoungRest' /\ OneHolder' /\ OneServing'
      /\ \A x \in Procs : Young(x)' => Young(x)
      /\ \A x \in Procs : tunStarting'[x] => tunStarting[x] /\ Alive(x)'
  <2>1. CASE startProxyFails
    <3>1. UNCHANGED <<life, proxyOn, logOn, aside, tunStarting, switched>>
      BY <1>1, <2>1 DEF startProxyFails, proxyVars, tunVars
    <3>2. \A x \in Procs : (Young(x)' <=> Young(x)) /\ (Alive(x)' <=> Alive(x))
      BY <3>1 DEF Young, Alive
    <3>3. YoungRest' /\ OneHolder' /\ OneServing'
      BY <3>1, <3>2, HoldersKeep DEF ProcSafe, YoungRest, RunsProxy
    <3> QED
      BY <3>1, <3>2, <3>3 DEF ProcSafe, TUNInv, StartingAlive
  <2> QED
    BY <1>1, <1>2, <2>1, StartProxySafe
<1>4. /\ pc'[o] \in TUNLabels \cup ModeLabels => pc[o] \in TUNLabels \cup ModeLabels /\ at'[o] = at[o]
      /\ pc[o] \in TUNLabels => pc'[o] \in TUNLabels /\ at'[o] = at[o]
  <2> USE <1>0 DEF TUNLabels, ModeLabels, Goto, Set
  <2>1. CASE TUNProxy(o)
    BY <2>1 DEF TUNProxy, opVars
  <2>2. CASE RestoreProxy(o)
    BY <2>2 DEF RestoreProxy, GoesOn, Fails, Return
  <2>3. CASE StartProxy(o)
    BY <2>3 DEF StartProxy, Calls, Succeeds, Fails, Return
  <2> QED
    BY <2>1, <2>2, <2>3
<1>5. Placed'
  BY <1>3, <1>4, PlacedKeeps DEF ProcSafe
<1>6. TUNInv'
  BY <1>3, <1>4, TUNKeeps DEF ProcSafe
<1> QED
  BY <1>3, <1>5, <1>6 DEF ProcSafe

(* The calls that change one thing about a core that listens. *)
LEMMA ChangeSafe ==
  ASSUME TypeOK, NEW o \in Ops, Others(o), ProcSafe,
         \/ Replace(o) \/ Spawn(o) \/ RestoreLog(o) \/ StopProxy(o) \/ StartLogCapture(o)
         \/ Shutdown(o) \/ SwitchMode(o) \/ SetProxyMode(o) \/ ModeSave(o) \/ StartTUN(o) \/ TUNReturns(o)
  PROVE  ProcSafe'
<1>0. pc \in [Ops -> Labels] /\ at \in [Ops -> Procs \cup {None}] /\ LifeTypes /\ FlagTypes
  BY TypeParts DEF TypeOK
<1> USE <1>0 DEF LifeTypes, FlagTypes, Set, Goto, Calls, TUNLabels, ModeLabels
<1>1. \A x \in Procs : /\ Young(x)' => Young(x)
                       /\ life'[x] = "serving" => life[x] = "serving"
                       /\ Alive(x) => Alive(x)'
                       /\ Alive(x)' => Alive(x) \/ Young(x)
                       /\ life'[x] = life[x] \/ life[x] \in {"serving", "none"}
  <2>1. CASE Replace(o) \/ Shutdown(o)
    BY <2>1 DEF Replace, Shutdown, Serving, Young, Alive
  <2>2. CASE Spawn(o)
    BY <2>2 DEF Spawn, Young, Alive
  <2>3. CASE \/ RestoreLog(o) \/ StopProxy(o) \/ StartLogCapture(o) \/ SwitchMode(o) \/ SetProxyMode(o) \/ ModeSave(o)
             \/ StartTUN(o) \/ TUNReturns(o)
    <3>1. life' = life
      BY <2>3 DEF RestoreLog, StopProxy, StartLogCapture, SwitchMode, SetProxyMode, ModeSave, StartTUN, TUNReturns, procVars
    <3> QED
      BY <3>1 DEF Young, Alive
  <2> QED
    BY <2>1, <2>2, <2>3
<1>2. \A x \in Procs : proxyOn'[x] => proxyOn[x]
  <2>1. CASE StopProxy(o)
    BY <2>1 DEF StopProxy
  <2>2. CASE ~StopProxy(o)
    BY <2>2 DEF Replace, Spawn, RestoreLog, StartLogCapture, Shutdown, SwitchMode, SetProxyMode, ModeSave, StartTUN,
                TUNReturns, proxyVars
  <2> QED
    BY <2>1, <2>2
<1>3. \A x \in Procs : logOn'[x] => logOn[x] \/ life'[x] = "serving"
  <2>1. CASE RestoreLog(o) \/ StartLogCapture(o)
    BY <2>1 DEF RestoreLog, StartLogCapture, procVars, Serving
  <2>2. CASE ~(RestoreLog(o) \/ StartLogCapture(o))
    BY <2>2 DEF Replace, Spawn, StopProxy, Shutdown, SwitchMode, SetProxyMode, ModeSave, StartTUN, TUNReturns, proxyVars
  <2> QED
    BY <2>1, <2>2
<1>4. \A x \in Procs : switched'[x] => switched[x] \/ ~Young(x)
  <2>1. CASE SwitchMode(o) \/ SetProxyMode(o)
    BY <2>1 DEF SwitchMode, SetProxyMode, Serving
  <2>2. CASE ModeSave(o)
    BY <2>2 DEF ModeSave, ProcSafe, Placed
  <2>3. CASE ~SwitchMode(o) /\ ~SetProxyMode(o) /\ ~ModeSave(o)
    BY <2>3 DEF Replace, Spawn, RestoreLog, StopProxy, StartLogCapture, Shutdown, StartTUN, TUNReturns, modeVars
  <2> QED
    BY <2>1, <2>2, <2>3
<1>5. ~StartTUN(o) => /\ \A x \in Procs : tunStarting'[x] => tunStarting[x]
                      /\ pc[o] \in TUNLabels => ~tunStarting'[at[o]]
  <2>1. CASE TUNReturns(o)
    <3>1. at[o] \in Procs
      BY <2>1 DEF TUNReturns, ProcSafe, Placed
    <3> QED
      BY <2>1, <3>1 DEF TUNReturns
  <2>2. CASE ~TUNReturns(o)
    BY <2>2 DEF Replace, Spawn, RestoreLog, StopProxy, StartLogCapture, Shutdown, SwitchMode, SetProxyMode, ModeSave, tunVars
  <2> QED
    BY <2>1, <2>2
<1>6. StartTUN(o) => \E p \in Procs :
        /\ life[p] = "serving" /\ life' = life /\ at'[o] = p /\ pc[o] = "call" /\ pc'[o] \in {"tunProxy", "tunFail"}
        /\ \A x \in Procs : tunStarting'[x] => tunStarting[x] \/ x = p
  BY DEF StartTUN, Serving, procVars
<1>7. YoungRest'
  <2>1. \A x \in Procs : Young(x)' => ~proxyOn'[x]
    BY <1>1, <1>2 DEF ProcSafe, YoungRest
  <2>2. \A x \in Procs : Young(x)' => ~logOn'[x]
    BY <1>1, <1>3 DEF ProcSafe, YoungRest, Young
  <2>3. \A x \in Procs : Young(x)' => ~switched'[x]
    BY <1>1, <1>4 DEF ProcSafe, YoungRest
  <2>4. \A x \in Procs : Young(x)' => ~tunStarting'[x]
    BY <1>1, <1>5, <1>6 DEF ProcSafe, YoungRest, Young
  <2> QED
    BY <2>1, <2>2, <2>3, <2>4 DEF YoungRest
<1>8. pc'[o] \in TUNLabels \cup ModeLabels =>
        at'[o] \in Procs /\ life'[at'[o]] \notin {"none", "starting", "loaded"}
  <2>1. CASE StartTUN(o)
    BY <1>6, <2>1
  <2>2. CASE SwitchMode(o)
    BY <2>2 DEF SwitchMode, Serving, procVars
  <2>3. CASE Replace(o) \/ Spawn(o) \/ RestoreLog(o)
    BY <2>3 DEF Replace, Spawn, RestoreLog
  <2>4. CASE StopProxy(o) \/ StartLogCapture(o) \/ Shutdown(o) \/ SetProxyMode(o) \/ ModeSave(o)
    BY <2>4 DEF StopProxy, StartLogCapture, Shutdown, SetProxyMode, ModeSave, Succeeds, Return
  <2>5. CASE TUNReturns(o)
    BY <2>5 DEF TUNReturns, GoesOn, Fails, Return
  <2> QED
    BY <2>1, <2>2, <2>3, <2>4, <2>5
<1>9. Placed'
  BY <1>1, <1>8, PlacedKeeps DEF ProcSafe
<1>10. OneHolder' /\ OneServing'
  <2>1. \A x \in Procs : Alive(x)' /\ proxyOn'[x] => Alive(x) /\ proxyOn[x]
    BY <1>1, <1>2 DEF ProcSafe, YoungRest
  <2>2. aside' = aside
    BY DEF Replace, Spawn, RestoreLog, StopProxy, StartLogCapture, Shutdown, SwitchMode, SetProxyMode, ModeSave,
           StartTUN, TUNReturns, proxyVars
  <2> QED
    BY <1>1, <2>1, <2>2, HoldersKeep DEF ProcSafe, RunsProxy
<1>11. TUNInv'
  <2>1. CASE ~StartTUN(o)
    <3>1. \A x \in Procs : tunStarting'[x] => tunStarting[x] /\ Alive(x)'
      BY <1>1, <1>5, <2>1 DEF ProcSafe, TUNInv, StartingAlive
    <3> QED
      BY <1>5, <2>1, <3>1, TUNKeeps DEF ProcSafe
  <2>2. CASE StartTUN(o)
    <3>1. PICK p \in Procs :
        /\ life[p] = "serving" /\ life' = life /\ at'[o] = p /\ pc[o] = "call" /\ pc'[o] \in {"tunProxy", "tunFail"}
        /\ \A x \in Procs : tunStarting'[x] => tunStarting[x] \/ x = p
      BY <1>6, <2>2
    <3>2. StartingAlive'
      BY <3>1 DEF ProcSafe, TUNInv, StartingAlive, Alive
    <3>3. ASSUME NEW x \in Procs, tunStarting'[x]
          PROVE  \E u \in Ops : at'[u] = x /\ pc'[u] \in TUNLabels
      <4>1. CASE x = p
        BY <3>1, <4>1
      <4>2. CASE x # p
        <5>1. PICK u \in Ops : at[u] = x /\ pc[u] \in TUNLabels
          BY <3>1, <3>3, <4>2 DEF ProcSafe, TUNInv, TUNStartingIsReal
        <5>2. u # o
          BY <3>1, <5>1
        <5> QED
          BY <5>1, <5>2 DEF Others
      <4> QED
        BY <4>1, <4>2
    <3> QED
      BY <3>2, <3>3 DEF TUNInv, TUNStartingIsReal
  <2> QED
    BY <2>1, <2>2
<1> QED
  BY <1>7, <1>9, <1>10, <1>11 DEF ProcSafe

(* The steps of a process. *)
LEMMA ProcStepSafe ==
  ASSUME TypeOK, ProcSafe, NEW p \in Procs, ProcStep(p), UNCHANGED <<case, pc, opVars, history>>
  PROVE  ProcSafe'
<1>0. LifeTypes /\ FlagTypes /\ pc' = pc /\ at' = at
  BY TypeParts DEF opVars
<1> USE <1>0 DEF LifeTypes, FlagTypes, Set
<1>1. \A x \in Procs : Young(x)' => Young(x)
  BY DEF ProcStep, NewCoreRuntime, Listen, Exit, Ends, StopMark, StopHalt, procVars, Young
<1>2. \A x \in Procs : proxyOn'[x] => proxyOn[x]
  BY DEF ProcStep, NewCoreRuntime, Listen, Exit, StopMark, StopHalt, proxyVars
<1>3. \A x \in Procs : logOn'[x] => logOn[x]
  BY DEF ProcStep, NewCoreRuntime, Listen, Exit, Ends, StopMark, StopHalt, proxyVars
<1>4. \A x \in Procs : switched'[x] => switched[x]
  BY DEF ProcStep, NewCoreRuntime, Listen, Exit, StopMark, StopHalt, modeVars
<1>5. \A x \in Procs : (Alive(x)' => Alive(x)) /\ (Alive(x) => Alive(x)' \/ ~tunStarting'[x])
  BY DEF ProcStep, NewCoreRuntime, Listen, Exit, Ends, StopMark, StopHalt, procVars, Alive
<1>6. \A x \in Procs : tunStarting'[x] => tunStarting[x]
  BY DEF ProcStep, NewCoreRuntime, Listen, Exit, Ends, StopMark, StopHalt, tunVars
<1>7. YoungRest'
  BY <1>1, <1>2, <1>3, <1>4, <1>6 DEF ProcSafe, YoungRest
<1>8. Placed'
  BY <1>1 DEF ProcSafe, Placed, Young
<1>9. OneHolder'
  <2>1. aside' = aside
    BY DEF ProcStep, NewCoreRuntime, Listen, Exit, StopMark, StopHalt, proxyVars
  <2> QED
    BY <1>2, <1>5, <2>1 DEF ProcSafe, OneHolder, RunsProxy
<1>10. OneServing'
  <2>1. CASE Listen(p)
    BY <2>1 DEF Listen, ProcSafe, OneServing, Serving
  <2>2. CASE ~Listen(p)
    <3>1. \A x \in Procs : life'[x] = "serving" => life[x] = "serving"
      BY <2>2 DEF ProcStep, NewCoreRuntime, Exit, Ends, StopMark, StopHalt, procVars
    <3> QED
      BY <3>1 DEF ProcSafe, OneServing, Serving
  <2> QED
    BY <2>1, <2>2
<1>11. TUNInv'
  BY <1>5, <1>6 DEF ProcSafe, TUNInv, StartingAlive, TUNStartingIsReal
<1> QED
  BY <1>7, <1>8, <1>9, <1>10, <1>11 DEF ProcSafe

-----------------------------------------------------------------------------
(* Calls one at a time.                                                    *)

Does(o) == Begin(o) \/ EnsureStep(o) \/ CallStep(o)

LEMMA Frame ==
  ASSUME TypeOK, Placed, NEW o \in Ops, Does(o)
  PROVE  Others(o) /\ Client'
BY EnsureFrame, CallFrame DEF Does

(* Where a step of a call leads. *)
LEMMA Where ==
  ASSUME TypeOK, NEW o \in Ops, Does(o)
  PROVE  /\ ~Begin(o) => ~Idle(o)
         /\ pc'[o] = "await" => Spawn(o) \/ pc[o] = "await"
         /\ pc'[o] = "drain" => Replace(o) \/ pc[o] = "drain"
         /\ pc'[o] = "spawn" => Serving = {} \/ pc[o] = "drain"
         /\ pc[o] = "await" /\ pc'[o] # "await" => Serving # {} \/ "await" \in failed'
         /\ pc'[o] \in ModeLabels => SwitchMode(o) \/ ModeRead(o)
         /\ pc'[o] = "save" => GetSettings(o)
<1>0. pc \in [Ops -> Labels]
  BY DEF TypeOK
<1> USE <1>0 DEF Set, Goto, Return, Calls, Idle, ModeLabels
<1>1. CASE Begin(o) \/ ReadLog(o) \/ ReadProxy(o) \/ GetInfo(o)
  BY <1>1 DEF Begin, CanBegin, ReadLog, ReadProxy, GetInfo
<1>2. CASE Replace(o) \/ Spawn(o) \/ RestoreLog(o) \/ DrainGivesUp(o)
  BY <1>2 DEF Replace, Spawn, RestoreLog, DrainGivesUp
<1>3. CASE Drain(o)
  BY <1>3 DEF Drain, Ping
<1>4. CASE Await(o)
  BY <1>4 DEF Await, Ping
<1>5. CASE SpawnFails(o) \/ AwaitGivesUp(o)
  BY <1>5 DEF SpawnFails, AwaitGivesUp, Fails
<1>6. CASE RestoreProxy(o)
  BY <1>6 DEF RestoreProxy, GoesOn, Fails
<1>7. CASE CheckElevated(o)
  BY <1>7 DEF CheckElevated, GoesOn, Fails
<1>8. CASE CallFails(o) \/ StartProxy(o) \/ ConnectionLost(o)
  BY <1>8 DEF CallFails, StartProxy, ConnectionLost, Succeeds, Fails
<1>9. CASE StopProxy(o) \/ StartLogCapture(o) \/ Shutdown(o) \/ StopTUN(o) \/ SetProxyMode(o)
  BY <1>9 DEF StopProxy, StartLogCapture, Shutdown, StopTUN, SetProxyMode, Succeeds
<1>10. CASE ModeSave(o) \/ SaveSettings(o)
  BY <1>10 DEF ModeSave, SaveSettings, Succeeds, Fails
<1>11. CASE SwitchMode(o) \/ ModeRead(o) \/ GetSettings(o) \/ StartTUN(o)
  BY <1>11 DEF SwitchMode, ModeRead, GetSettings, StartTUN
<1>12. CASE TUNProxy(o) \/ TUNStart(o)
  BY <1>12 DEF TUNProxy, TUNStart
<1>13. CASE TUNReturns(o) \/ Poll(o)
  BY <1>13 DEF TUNReturns, Poll, GoesOn, Succeeds, Fails
<1> QED
  BY <1>1, <1>2, <1>3, <1>4, <1>5, <1>6, <1>7, <1>8, <1>9, <1>10, <1>11, <1>12, <1>13
     DEF Does, EnsureStep, CallStep

(* Only Spawn adds a process, and no call makes one listen. *)
LEMMA LifeShrinks ==
  ASSUME TypeOK, ProcSafe, NEW o \in Ops, Does(o)
  PROVE  /\ \A x \in Procs : life'[x] \in {"loaded", "serving"} => life[x] = life'[x]
         /\ ~Spawn(o) => \A x \in Procs : x \in Rising' => x \in Rising
         /\ ~(Replace(o) \/ Shutdown(o) \/ RestoreProxy(o) \/ StartProxy(o) \/ TUNProxy(o)) =>
              \A x \in Procs : life[x] = "serving" => life'[x] = "serving"
<1>0. LifeTypes
  BY TypeParts
<1> USE <1>0 DEF LifeTypes, Set, Rising
<1>1. CASE Plain(o)
  <2>1. life' = life
    BY <1>1, PlainIs DEF Rests
  <2> QED
    BY <2>1
<1>2. CASE Replace(o) \/ Shutdown(o)
  BY <1>2 DEF Replace, Shutdown, Serving
<1>3. CASE Spawn(o)
  BY <1>3 DEF Spawn
<1>4. CASE \/ RestoreLog(o) \/ StopProxy(o) \/ StartLogCapture(o) \/ SwitchMode(o) \/ SetProxyMode(o) \/ ModeSave(o)
           \/ StartTUN(o) \/ TUNReturns(o)
  <2>1. life' = life
    BY <1>4 DEF RestoreLog, StopProxy, StartLogCapture, SwitchMode, SetProxyMode, ModeSave, StartTUN, TUNReturns, procVars
  <2> QED
    BY <2>1
<1>5. CASE RestoreProxy(o) \/ StartProxy(o) \/ TUNProxy(o)
  <2>1. life' = life \/ \E q \in Procs : life' = [life EXCEPT ![q] = "gone"]
    BY <1>5 DEF RestoreProxy, StartProxy, TUNProxy, startProxy, startProxyFails, Ends
  <2> QED
    BY <1>5, <2>1
<1> QED
  BY <1>1, <1>2, <1>3, <1>4, <1>5 DEF Does, EnsureStep, CallStep, Plain

LEMMA Solo ==
  ASSUME TypeOK, CalmInv, serial, NEW o \in Ops, Does(o)
  PROVE  \A u \in Ops \ {o} : Idle(u)
BY Where DEF CalmInv, OneBusy, Begin, CanBegin

(* A call that works in the core that listens finds it there. *)
LEMMA AnsweringKeeps ==
  ASSUME TypeOK, ProcSafe, NEW o \in Ops, Does(o), Answering,
         pc'[o] \in TUNLabels \cup ModeLabels
  PROVE  at'[o] \in Serving'
<1>0. pc \in [Ops -> Labels] /\ at \in [Ops -> Procs \cup {None}] /\ LifeTypes
  BY TypeParts DEF TypeOK
<1> USE <1>0 DEF TUNLabels, ModeLabels, Set, Goto, LifeTypes
<1>1. CASE Plain(o)
  <2>1. life' = life /\ at'[o] = at[o] /\ pc[o] \in TUNLabels \cup ModeLabels
    BY <1>1, PlainIs DEF Rests
  <2> QED
    BY <2>1 DEF Answering, Serving
<1>2. CASE StartTUN(o) \/ SwitchMode(o)
  BY <1>2 DEF StartTUN, SwitchMode, Serving, procVars
<1>3. CASE TUNProxy(o)
  <2>1. at[o] \in Serving /\ at'[o] = at[o]
    BY <1>3 DEF Answering, TUNProxy, opVars
  <2>2. life' = life \/ \E q \in Procs : proxyOn[q] /\ ~proxyOn[at[o]] /\ life' = [life EXCEPT ![q] = "gone"]
    BY <1>3 DEF TUNProxy, startProxy, startProxyFails, Ends, RunsProxy
  <2> QED
    BY <2>1, <2>2 DEF Serving
<1>4. CASE Replace(o) \/ Spawn(o) \/ RestoreLog(o)
  BY <1>4 DEF Replace, Spawn, RestoreLog
<1>5. CASE RestoreProxy(o)
  BY <1>5 DEF RestoreProxy, GoesOn, Fails, Return
<1>6. CASE StopProxy(o) \/ StartLogCapture(o) \/ Shutdown(o) \/ SetProxyMode(o) \/ ModeSave(o)
  BY <1>6 DEF StopProxy, StartLogCapture, Shutdown, SetProxyMode, ModeSave, Succeeds, Return
<1>7. CASE StartProxy(o) \/ TUNReturns(o)
  BY <1>7 DEF StartProxy, TUNReturns, GoesOn, Succeeds, Fails, Return
<1> QED
  BY <1>1, <1>2, <1>3, <1>4, <1>5, <1>6, <1>7 DEF Does, EnsureStep, CallStep, Plain

LEMMA CalmClient ==
  ASSUME TypeOK, ProcSafe, CalmInv, NEW o \in Ops, Does(o)
  PROVE  CalmInv'
<1>1. Others(o)
  BY Frame DEF ProcSafe
<1>2. serial => \A u \in Ops \ {o} : Idle(u) /\ Idle(u)'
  BY <1>1, Solo DEF Others, Idle
<1>3. OneBusy'
  BY <1>1, <1>2 DEF OneBusy, Others
<1> SUFFICES ASSUME Calm' PROVE Awaited' /\ AwaitOne' /\ Cleared' /\ Answering'
  BY <1>3 DEF CalmInv
<1>4. Calm /\ Awaited /\ AwaitOne /\ Cleared /\ Answering /\ "await" \notin failed'
  BY <1>1 DEF Calm, CalmInv, Others
<1>5. \A u \in Ops \ {o} : pc'[u] \in {"new", "done"} /\ pc[u] \in {"new", "done"}
  BY <1>2, <1>4 DEF Calm, Idle
<1>6. Serving' \subseteq Serving
  BY LifeShrinks DEF Serving
<1>7. ~Spawn(o) => Rising' \subseteq Rising
  BY LifeShrinks DEF Rising
<1>8. pc[o] # "await" => Rising = {}
  BY <1>4, <1>5 DEF Awaited
<1>9. CASE Spawn(o)
  <2>1. /\ pc[o] = "spawn" /\ pc'[o] = "await"
        /\ \E p \in Procs : life' = [life EXCEPT ![p] = "starting"]
    BY <1>9, TypeParts DEF Spawn, Goto, Set, ClientTypes
  <2>2. Serving = {} /\ Rising = {}
    BY <1>4, <1>8, <2>1 DEF Cleared
  <2>3. \E p \in Procs : Rising' \cup Serving' \subseteq {p}
    BY <2>1, <2>2, TypeParts DEF Rising, Serving, LifeTypes
  <2>4. Awaited' /\ AwaitOne'
    BY <2>1, <2>3 DEF Awaited, AwaitOne
  <2>5. Cleared' /\ Answering'
    BY <1>5, <2>1 DEF Cleared, Answering, TUNLabels, ModeLabels
  <2> QED
    BY <2>4, <2>5
<1>10. CASE ~Spawn(o)
  <2>1. Awaited'
    <3>1. CASE pc'[o] = "await"
      BY <3>1 DEF Awaited
    <3>2. CASE pc[o] = "await" /\ pc'[o] # "await"
      <4>1. Serving # {}
        BY <1>4, <3>2, Where
      <4>2. Rising \cap Serving = {}
        BY DEF Rising, Serving
      <4>3. Rising = {}
        BY <1>4, <3>2, <4>1, <4>2 DEF AwaitOne
      <4> QED
        BY <1>7, <1>10, <4>3 DEF Awaited
    <3>3. CASE pc[o] # "await"
      BY <1>7, <1>8, <1>10, <3>3 DEF Awaited
    <3> QED
      BY <3>1, <3>2, <3>3
  <2>2. AwaitOne'
    <3>1. (\E u \in Ops : pc'[u] = "await") => pc[o] = "await"
      BY <1>5, <1>10, Where
    <3> QED
      BY <1>4, <1>6, <1>7, <1>10, <3>1 DEF AwaitOne
  <2>3. Cleared'
    <3> SUFFICES ASSUME NEW u \in Ops, pc'[u] \in {"drain", "spawn"} PROVE Serving' = {}
      BY DEF Cleared
    <3>1. u = o
      BY <1>5
    <3>2. CASE Replace(o)
      BY <3>2, TypeParts DEF Replace, Serving, LifeTypes
    <3>3. CASE ~Replace(o)
      <4>1. Serving = {}
        BY <1>4, <3>1, <3>3, Where DEF Cleared
      <4> QED
        BY <1>6, <4>1
    <3> QED
      BY <3>2, <3>3
  <2>4. Answering'
    BY <1>4, <1>5, AnsweringKeeps DEF Answering, TUNLabels, ModeLabels
  <2> QED
    BY <2>1, <2>2, <2>3, <2>4
<1> QED
  BY <1>9, <1>10

(* A process by itself. *)
LEMMA ProcLife ==
  ASSUME TypeOK, NEW p \in Procs, ProcStep(p)
  PROVE  /\ Serving \subseteq Serving' /\ Rising' \subseteq Rising
         /\ Serving' \subseteq Serving \cup (IF Listen(p) THEN {p} ELSE {})
         /\ Listen(p) => p \in Rising /\ p \notin Rising'
BY TypeParts DEF ProcStep, NewCoreRuntime, Listen, Exit, Ends, StopMark, StopHalt, procVars, Serving, Rising,
       LifeTypes, Set

LEMMA CalmProc ==
  ASSUME TypeOK, CalmInv, NEW p \in Procs, ProcStep(p), UNCHANGED <<case, pc, opVars, history>>
  PROVE  CalmInv'
<1>1. serial' = serial /\ failed' = failed /\ pc' = pc /\ at' = at
  BY DEF case, opVars, history
<1>2. OneBusy'
  BY <1>1 DEF CalmInv, OneBusy, Idle
<1> SUFFICES ASSUME Calm PROVE Awaited' /\ AwaitOne' /\ Cleared' /\ Answering'
  BY <1>1, <1>2 DEF CalmInv, Calm
<1>3. OneBusy /\ serial /\ Awaited /\ AwaitOne /\ Cleared /\ Answering
  BY DEF CalmInv, Calm
<1>4. Awaited'
  BY <1>1, <1>3, ProcLife DEF Awaited
<1>5. AwaitOne'
  <2>1. Rising' \cup Serving' \subseteq Rising \cup Serving
    BY ProcLife
  <2> QED
    BY <1>1, <1>3, <2>1 DEF AwaitOne
<1>6. Answering'
  BY <1>1, <1>3, ProcLife DEF Answering
<1>7. Cleared'
  <2> SUFFICES ASSUME NEW u \in Ops, pc[u] \in {"drain", "spawn"} PROVE Serving' = {}
    BY <1>1 DEF Cleared
  <2>1. \A o \in Ops : pc[o] # "await"
    BY <1>3 DEF OneBusy, Idle
  <2>2. Serving = {} /\ Rising = {}
    BY <1>3, <2>1 DEF Cleared, Awaited
  <2> QED
    BY <2>2, ProcLife
<1> QED
  BY <1>4, <1>5, <1>6, <1>7

-----------------------------------------------------------------------------
(* The settings.                                                           *)

(* The steps that write none of it. *)
Unsettled(o) == SwitchMode(o) \/ SetProxyMode(o) \/ ModeRead(o) \/ ModeSave(o) \/ GetSettings(o) \/ SaveSettings(o)

LEMMA ModeRests ==
  ASSUME NEW o \in Ops, Does(o), ~Unsettled(o)
  PROVE  UNCHANGED modeVars
<1> USE DEF modeVars
<1>1. CASE Begin(o) \/ EnsureStep(o)
  BY <1>1 DEF Begin, EnsureStep, ReadLog, ReadProxy, GetInfo, Replace, Drain, DrainGivesUp, Ping, Spawn, SpawnFails,
              Await, AwaitGivesUp, RestoreLog, RestoreProxy, CheckElevated
<1>2. CASE CallStep(o)
  BY <1>2 DEF Unsettled, CallStep, CallFails, StartProxy, StopProxy, StartLogCapture, Shutdown, StartTUN,
              TUNProxy, TUNStart, TUNReturns, Poll, StopTUN, ConnectionLost
<1> QED
  BY <1>1, <1>2 DEF Does

LEMMA ModeClient ==
  ASSUME TypeOK, ProcSafe, CalmInv, ModeInv, NEW o \in Ops, Does(o)
  PROVE  ModeInv'
<1> SUFFICES ASSUME Calm' PROVE FileRead' /\ ModeKept' /\ Copied'
  BY DEF ModeInv
<1>1. Others(o)
  BY Frame DEF ProcSafe
<1>2. Calm /\ Awaited /\ Answering /\ FileRead /\ ModeKept /\ Copied /\ OneServing
  BY <1>1 DEF Calm, CalmInv, Others, ModeInv, ProcSafe
<1>3. \A u \in Ops \ {o} : pc'[u] \in {"new", "done"} /\ pc[u] \in {"new", "done"}
  BY <1>1, <1>2, Solo DEF Calm, Others, Idle
<1>4. \A x \in Procs : life'[x] \in {"loaded", "serving"} => life[x] = life'[x]
  BY LifeShrinks
<1>5. pc \in [Ops -> Labels] /\ CopyTypes /\ ModeTypes /\ FlagTypes /\ AtTypes
  BY TypeParts DEF ClientTypes
<1>6. pc[o] # "await" => \A x \in Procs : life[x] # "loaded"
  BY <1>2, <1>3 DEF Awaited, Rising
<1>7. CASE ~Unsettled(o)
  <2>1. UNCHANGED <<mode, settings, file, switched, unsaved>>
    BY <1>7, ModeRests DEF modeVars
  <2>2. FileRead' /\ ModeKept'
    BY <1>2, <1>4, <2>1 DEF FileRead, ModeKept, Serving
  <2>3. Copied'
    BY <1>3, <1>7, Where DEF Copied, ModeLabels, Unsettled
  <2> QED
    BY <2>2, <2>3
<1>8. CASE SwitchMode(o)
  <2>1. PICK p \in Serving, m \in Modes :
          /\ mode' = Set(mode, p, m) /\ switched' = Set(switched, p, FALSE)
          /\ copy' = [copy EXCEPT ![o].routing = m] /\ at' = Set(at, o, p)
    BY <1>8 DEF SwitchMode
  <2>2. UNCHANGED <<settings, file, unsaved, life>> /\ pc'[o] = "modeRead"
    BY <1>5, <1>8 DEF SwitchMode, Goto, Set, procVars
  <2>3. FileRead'
    BY <1>2, <2>2 DEF FileRead
  <2>4. ModeKept'
    BY <1>2, <1>5, <2>1, <2>2 DEF ModeKept, Serving, Set, FlagTypes, ModeTypes
  <2>5. copy'[o].routing = m
    <3>1. copy[o] \in Settings
      BY <1>5 DEF CopyTypes
    <3> QED
      BY <1>5, <2>1, <3>1 DEF CopyTypes, Settings
  <2>6. mode'[at'[o]] = m
    BY <1>5, <2>1 DEF AtTypes, ModeTypes, Set, Serving
  <2>7. Copied'
    BY <1>3, <2>2, <2>5, <2>6 DEF Copied, ModeLabels
  <2> QED
    BY <2>3, <2>4, <2>7
<1>9. CASE ModeRead(o)
  <2>1. UNCHANGED <<mode, settings, file, switched, unsaved, life, at>> /\ pc'[o] = "modeSave" /\ pc[o] = "modeRead"
    BY <1>5, <1>9 DEF ModeRead, Goto, Set, procVars, modeVars
  <2>2. FileRead' /\ ModeKept'
    BY <1>2, <2>1 DEF FileRead, ModeKept, Serving
  <2>3. copy'[o].routing = copy[o].routing
    <3>1. copy[o] \in Settings
      BY <1>5 DEF CopyTypes
    <3> QED
      BY <1>5, <1>9, <3>1 DEF ModeRead, CopyTypes, Settings
  <2>4. Copied'
    BY <1>2, <1>3, <2>1, <2>3 DEF Copied, ModeLabels
  <2> QED
    BY <2>2, <2>4
<1>10. CASE ModeSave(o)
  <2>1. /\ UNCHANGED <<mode, life>> /\ pc[o] = "modeSave" /\ pc'[o] = "done"
        /\ settings' = [settings EXCEPT ![at[o]] = copy[o]]
        /\ file' = copy[o] \/ unsaved' = Set(unsaved, at[o], TRUE)
    BY <1>5, <1>10 DEF ModeSave, Goto, Set, procVars, Succeeds, Return, saveSettings
  <2>2. at[o] \in Serving /\ mode[at[o]] = copy[o].routing /\ \A x \in Procs : life[x] = "serving" => x = at[o]
    BY <1>2, <2>1 DEF Answering, Copied, ModeLabels, OneServing, Serving
  <2>3. FileRead'
    BY <1>5, <1>6, <2>1, <2>2 DEF FileRead, Serving, ModeTypes, FlagTypes, Set
  <2>4. ModeKept'
    BY <1>5, <2>1, <2>2 DEF ModeKept, Serving, ModeTypes
  <2>5. Copied'
    BY <1>3, <2>1 DEF Copied, ModeLabels
  <2> QED
    BY <2>3, <2>4, <2>5
<1>11. CASE GetSettings(o)
  <2>1. UNCHANGED <<mode, settings, file, switched, unsaved, life>> /\ pc'[o] = "save"
    BY <1>5, <1>11 DEF GetSettings, Goto, Set, procVars, modeVars
  <2>2. FileRead' /\ ModeKept'
    BY <1>2, <2>1 DEF FileRead, ModeKept, Serving
  <2>3. PICK p \in Serving : copy' = Set(copy, o, [settings[p] EXCEPT !.rest = o])
    BY <1>11 DEF GetSettings
  <2>4. copy'[o].routing = settings[p].routing
    <3>1. settings[p] \in Settings
      BY <1>5 DEF ModeTypes, Serving
    <3> QED
      BY <1>5, <2>3, <3>1 DEF Set, CopyTypes, Settings
  <2>5. \A x \in Serving' : copy'[o].routing = settings'[x].routing
    BY <1>2, <2>1, <2>3, <2>4 DEF OneServing, Serving
  <2>6. Copied'
    BY <1>3, <2>1, <2>5 DEF Copied, ModeLabels
  <2> QED
    BY <2>2, <2>6
<1>12. CASE SaveSettings(o)
  <2>1. UNCHANGED <<mode, life, switched>> /\ pc[o] = "save" /\ pc'[o] = "done"
    BY <1>5, <1>12 DEF SaveSettings, Goto, Set, procVars, Succeeds, Fails, Return
  <2>2. \/ UNCHANGED <<settings, file, unsaved>>
        \/ \E p \in Serving : /\ settings' = [settings EXCEPT ![p] = copy[o]]
                              /\ file' = copy[o] \/ unsaved' = Set(unsaved, p, TRUE)
    BY <1>12 DEF SaveSettings, saveSettings, Set
  <2>3. Copied'
    BY <1>3, <2>1 DEF Copied, ModeLabels
  <2>4. CASE UNCHANGED <<settings, file, unsaved>>
    BY <1>2, <2>1, <2>3, <2>4 DEF FileRead, ModeKept, Serving
  <2>5. ASSUME NEW p \in Serving, settings' = [settings EXCEPT ![p] = copy[o]],
               file' = copy[o] \/ unsaved' = Set(unsaved, p, TRUE)
        PROVE  FileRead' /\ ModeKept'
    <3>1. \A x \in Procs : life[x] = "serving" => x = p
      BY <1>2 DEF OneServing, Serving
    <3>2. p \in Procs /\ settings'[p] = copy[o] /\ copy[o].routing = settings[p].routing
      BY <1>2, <1>5, <2>1, <2>5 DEF Copied, ModeTypes, Serving
    <3>3. FileRead'
      BY <1>5, <1>6, <2>1, <2>5, <3>1, <3>2 DEF FileRead, FlagTypes, Set
    <3>4. ModeKept'
      BY <1>2, <2>1, <3>1, <3>2 DEF ModeKept, Serving
    <3> QED
      BY <3>3, <3>4
  <2> QED
    BY <2>2, <2>3, <2>4, <2>5
<1>13. CASE SetProxyMode(o)
  <2>1. PICK p \in Serving : mode' = Set(mode, p, "legacy") /\ switched' = Set(switched, p, FALSE)
    BY <1>13 DEF SetProxyMode
  <2>2. UNCHANGED <<settings, file, unsaved, life>> /\ pc'[o] = "done"
    BY <1>5, <1>13 DEF SetProxyMode, Succeeds, Return, Goto, Set, procVars
  <2>3. FileRead'
    BY <1>2, <2>2 DEF FileRead
  <2>4. ModeKept'
    BY <1>2, <1>5, <2>1, <2>2 DEF ModeKept, Serving, Set, FlagTypes, ModeTypes
  <2>5. Copied'
    BY <1>3, <2>2 DEF Copied, ModeLabels
  <2> QED
    BY <2>3, <2>4, <2>5
<1> QED
  BY <1>7, <1>8, <1>9, <1>10, <1>11, <1>12, <1>13 DEF Unsettled

LEMMA ModeProc ==
  ASSUME TypeOK, ProcSafe, CalmInv, ModeInv, NEW p \in Procs, ProcStep(p), UNCHANGED <<case, pc, opVars, history>>
  PROVE  ModeInv'
<1>1. serial' = serial /\ failed' = failed /\ pc' = pc /\ at' = at /\ copy' = copy
  BY DEF case, opVars, history
<1> SUFFICES ASSUME Calm PROVE FileRead' /\ ModeKept' /\ Copied'
  BY <1>1 DEF ModeInv, Calm
<1>2. OneBusy /\ serial /\ Awaited /\ Answering /\ FileRead /\ ModeKept /\ Copied /\ OneServing
  BY DEF CalmInv, Calm, ModeInv, ProcSafe
<1>3. LifeTypes /\ ModeTypes /\ FlagTypes
  BY TypeParts
<1>4. (\E o \in Ops : pc[o] \in ModeLabels \cup {"save"}) => ~Listen(p)
  <2>1. (\E o \in Ops : pc[o] \in ModeLabels \cup {"save"}) => \A u \in Ops : pc[u] # "await"
    BY <1>2 DEF OneBusy, Idle, ModeLabels
  <2> QED
    BY <1>2, <2>1, ProcLife DEF Awaited
<1>5. CASE NewCoreRuntime(p)
  <2>1. /\ life[p] = "starting" /\ life' = [life EXCEPT ![p] = "loaded"] /\ file' = file /\ switched' = switched
        /\ settings' = [settings EXCEPT ![p] = file] /\ mode' = [mode EXCEPT ![p] = "rule"]
        /\ unsaved' = [unsaved EXCEPT ![p] = FALSE]
    BY <1>5 DEF NewCoreRuntime, Set
  <2>2. FileRead'
    BY <1>2, <1>3, <2>1 DEF FileRead, LifeTypes, ModeTypes, FlagTypes
  <2>3. \A x \in Procs : x # p => settings'[x] = settings[x] /\ mode'[x] = mode[x] /\ life'[x] = life[x]
    BY <1>3, <2>1 DEF LifeTypes, ModeTypes
  <2>4. p \notin Serving /\ Serving' = Serving
    BY <1>3, <2>1 DEF Serving, LifeTypes
  <2>5. ModeKept'
    BY <1>2, <2>1, <2>3, <2>4 DEF ModeKept, Serving
  <2>6. Copied'
    BY <1>1, <1>2, <2>3, <2>4 DEF Copied, Answering, Serving
  <2> QED
    BY <2>2, <2>5, <2>6
<1>6. CASE ~NewCoreRuntime(p)
  <2>1. UNCHANGED <<mode, settings, file, switched, unsaved>>
    BY <1>6 DEF ProcStep, Listen, Exit, StopMark, StopHalt, modeVars
  <2>2. \A x \in Procs : life'[x] \in {"loaded", "serving"} =>
          \/ life[x] = life'[x]
          \/ Listen(p) /\ x = p /\ life[x] = "loaded"
    BY <1>3, <1>6 DEF ProcStep, Listen, Exit, Ends, StopMark, StopHalt, procVars, LifeTypes, Set
  <2>3. FileRead'
    BY <1>2, <2>1, <2>2 DEF FileRead
  <2>4. ModeKept'
    <3>1. \A x \in Procs : life[x] = "loaded" => ~switched[x]
      BY DEF ProcSafe, YoungRest, Young
    <3> QED
      BY <1>2, <2>1, <2>2, <3>1 DEF ModeKept, Serving
  <2>5. Copied'
    BY <1>1, <1>2, <1>4, <2>1, <2>2 DEF Copied, Serving
  <2> QED
    BY <2>3, <2>4, <2>5
<1> QED
  BY <1>5, <1>6

-----------------------------------------------------------------------------
(* The hand-over.                                                          *)

(* Labels at which the client carries nothing. *)
Afar == {"readLog", "elevated", "call", "tunProxy", "tunStart", "tunOk", "tunFail", "poll",
         "modeRead", "modeSave", "save", "done"}

(* The steps that neither change what cores do nor are part of a hand-over. *)
Silent(o) ==
  \/ CheckElevated(o) \/ CallFails(o) \/ SwitchMode(o) \/ SetProxyMode(o) \/ ModeRead(o) \/ ModeSave(o) \/ GetSettings(o)
  \/ SaveSettings(o) \/ StartTUN(o) \/ TUNStart(o) \/ TUNReturns(o) \/ Poll(o) \/ StopTUN(o)
  \/ ConnectionLost(o)

LEMMA SilentIs ==
  ASSUME TypeOK, NEW o \in Ops, Silent(o)
  PROVE  UNCHANGED <<life, proxyOn, logOn, wish>> /\ pc[o] \notin Between /\ pc'[o] \in Afar
<1>0. pc \in [Ops -> Labels]
  BY DEF TypeOK
<1> USE <1>0 DEF Between, Afar, Goto, Set, Return, Calls, procVars, proxyVars, history
<1>1. CASE CheckElevated(o)
  BY <1>1 DEF CheckElevated, GoesOn, Fails
<1>2. CASE CallFails(o) \/ StopTUN(o) \/ SetProxyMode(o)
  BY <1>2 DEF CallFails, StopTUN, SetProxyMode, Succeeds, Fails
<1>3. CASE SwitchMode(o) \/ ModeRead(o) \/ GetSettings(o) \/ StartTUN(o)
  BY <1>3 DEF SwitchMode, ModeRead, GetSettings, StartTUN
<1>4. CASE ModeSave(o) \/ SaveSettings(o)
  BY <1>4 DEF ModeSave, SaveSettings, Succeeds, Fails
<1>5. CASE TUNStart(o)
  BY <1>5 DEF TUNStart
<1>6. CASE TUNReturns(o) \/ ConnectionLost(o)
  BY <1>6 DEF TUNReturns, ConnectionLost, GoesOn, Fails
<1>7. CASE Poll(o)
  BY <1>7 DEF Poll, Succeeds, Fails
<1> QED
  BY <1>1, <1>2, <1>3, <1>4, <1>5, <1>6, <1>7 DEF Silent

(* A call that fails ends what the hand-over promises. *)
LEMMA FailsIs ==
  ASSUME TypeOK, NEW o \in Ops, Fails(o)
  PROVE  failed' # {}
BY DEF Fails

(* The core that is told to start the proxy runs it, and nothing else of   *)
(* it changes, unless it was the one that had it.                          *)
LEMMA Started ==
  ASSUME TypeOK, OneHolder, OneServing, NEW p \in Serving, startProxy(p),
         ~proxyOn[p] \/ life'[p] = "serving"
  PROVE  Serving' = {p} /\ proxyOn'[p] /\ (logOn'[p] <=> logOn[p])
<1>1. p \in Procs
  BY DEF Serving
<1>2. PICK killed \in SUBSET Holders : Killed(killed) /\ (p \notin killed => proxyOn'[p])
  BY <1>1, StartProxyIs DEF Starts
<1>3. p \notin killed
  BY <1>1, <1>2 DEF Killed, Holders, RunsProxy
<1>4. life'[p] = "serving" /\ (logOn'[p] <=> logOn[p])
  BY <1>1, <1>2, <1>3 DEF Killed, Serving
<1>5. \A x \in Procs : life'[x] = "serving" => life[x] = "serving"
  BY <1>2 DEF Killed
<1> QED
  BY <1>1, <1>2, <1>3, <1>4, <1>5 DEF OneServing, Serving

(* Only the call that moves has to be looked at. *)
LEMMA HandedFrame ==
  ASSUME Handed, serial, failed = {}, NEW o \in Ops, Others(o), \A u \in Ops \ {o} : Idle(u),
         HandInv(o)', Agree' \/ pc'[o] \in Between
  PROVE  Handed'
<1>1. ASSUME NEW u \in Ops \ {o}
      PROVE  HandInv(u)'
  <2>1. pc'[u] = pc[u] /\ was'[u] = was[u] /\ pc[u] \in {"new", "done"}
    BY DEF Others, Idle
  <2>2. pc[u] = "new" => was[u] = NoWas
    BY DEF Handed, HandInv
  <2> QED
    BY <2>1, <2>2 DEF HandInv
<1> QED
  BY <1>1 DEF Handed

LEMMA HandedClient ==
  ASSUME TypeOK, ProcSafe, CalmInv, Handed, NEW o \in Ops, Does(o)
  PROVE  Handed'
<1>1. Others(o)
  BY Frame DEF ProcSafe
<1> SUFFICES ASSUME serial', failed' = {} PROVE Handed'
  BY DEF Handed
<1>2. serial /\ failed = {} /\ Calm
  BY <1>1 DEF Others, Calm
<1>3. \A u \in Ops \ {o} : Idle(u)
  BY <1>2, Solo
<1>4. HandInv(o) /\ (pc[o] \notin Between => Agree)
  BY <1>2, <1>3 DEF Handed, Idle, Between
<1>5. OneHolder /\ OneServing /\ Cleared /\ Answering
  BY <1>2 DEF ProcSafe, CalmInv
<1> SUFFICES HandInv(o)' /\ (Agree' \/ pc'[o] \in Between)
  BY <1>1, <1>2, <1>3, HandedFrame
<1>6. pc \in [Ops -> Labels] /\ WasTypes /\ WishTypes /\ LifeTypes /\ FlagTypes
  BY TypeParts DEF ClientTypes
<1>7. ~Fails(o)
  BY FailsIs
<1>8. was[o] \in [proxy : BOOLEAN, log : BOOLEAN]
  BY <1>6 DEF WasTypes
<1>9. ASSUME UNCHANGED <<life, proxyOn, logOn, wish>>, Agree
      PROVE  Agree'
  BY <1>9 DEF Agree, Serving
<1>10. ASSUME pc'[o] \in Afar
       PROVE  HandInv(o)'
  BY <1>10 DEF HandInv, Afar
<1> USE <1>6 DEF Goto, Set
<1>11. CASE Silent(o)
  BY <1>4, <1>9, <1>10, <1>11, SilentIs
<1>12. CASE Begin(o)
  <2>1. /\ UNCHANGED <<life, proxyOn, logOn, wish, was>> /\ pc[o] = "new"
        /\ pc'[o] \in {"call", "spawn", "readLog"} /\ (pc'[o] = "spawn" => Serving = {})
    BY <1>12 DEF Begin, CanBegin, procVars, proxyVars, history, opVars
  <2>2. CASE pc'[o] = "spawn"
    <3>1. ~wish.proxy /\ ~wish.log
      BY <1>4, <2>1, <2>2 DEF Agree, Between
    <3>2. ~was[o].proxy /\ ~was[o].log
      BY <1>4, <2>1 DEF HandInv, NoWas
    <3> QED
      BY <2>1, <2>2, <3>1, <3>2 DEF HandInv, Noted, Between
  <2>3. CASE pc'[o] # "spawn"
    BY <1>4, <1>9, <1>10, <2>1, <2>3 DEF Afar, Between
  <2> QED
    BY <2>2, <2>3
<1>13. CASE ReadLog(o)
  <2>1. /\ UNCHANGED <<life, proxyOn, logOn, wish>> /\ pc[o] = "readLog" /\ pc'[o] = "readProxy"
        /\ was' = [was EXCEPT ![o].log = \E p \in Serving : logOn[p]]
    BY <1>13 DEF ReadLog, procVars, proxyVars, history
  <2>2. Agree
    BY <1>4, <2>1 DEF Between
  <2>3. was'[o].log <=> \E p \in Serving : logOn[p]
    BY <1>8, <2>1 DEF WasTypes
  <2>4. was'[o].log <=> wish.log
    BY <2>2, <2>3 DEF Agree
  <2> QED
    BY <1>9, <2>1, <2>2, <2>4 DEF HandInv
<1>14. CASE ReadProxy(o)
  <2>1. /\ UNCHANGED <<life, proxyOn, logOn, wish>> /\ pc[o] = "readProxy" /\ pc'[o] = "info"
        /\ was' = [was EXCEPT ![o].proxy = \E p \in Serving : proxyOn[p]]
    BY <1>14 DEF ReadProxy, procVars, proxyVars, history
  <2>2. Agree /\ (was[o].log <=> wish.log)
    BY <1>4, <2>1 DEF Between, HandInv
  <2>3. (was'[o].proxy <=> \E p \in Serving : proxyOn[p]) /\ was'[o].log = was[o].log
    BY <1>8, <2>1 DEF WasTypes
  <2>4. (was'[o].proxy <=> wish.proxy) /\ (was'[o].log <=> wish.log)
    BY <2>2, <2>3 DEF Agree
  <2> QED
    BY <1>9, <2>1, <2>2, <2>4 DEF HandInv, Noted
<1>15. CASE GetInfo(o)
  <2>1. /\ UNCHANGED <<life, proxyOn, logOn, wish, was>> /\ pc[o] = "info"
        /\ pc'[o] \in {"call", "shutdown"}
    BY <1>15 DEF GetInfo, procVars, proxyVars, history, opVars
  <2>2. Agree /\ Noted(o)
    BY <1>4, <2>1 DEF Between, HandInv
  <2> QED
    BY <1>9, <2>1, <2>2 DEF HandInv, Noted
<1>16. CASE Replace(o) \/ Drain(o) \/ DrainGivesUp(o)
  <2>1. /\ UNCHANGED <<wish, was>> /\ pc[o] \in {"shutdown", "drain"} /\ pc'[o] \in {"drain", "spawn"}
    BY <1>16 DEF Replace, Drain, DrainGivesUp, Ping, history, opVars
  <2>2. Noted(o)
    BY <1>4, <2>1 DEF HandInv
  <2> QED
    BY <2>1, <2>2 DEF HandInv, Noted, Between
<1>17. CASE Spawn(o)
  <2>1. /\ UNCHANGED <<wish, was>> /\ pc[o] = "spawn" /\ pc'[o] = "await"
        /\ \E p \in Procs : life' = [life EXCEPT ![p] = "starting"]
    BY <1>17 DEF Spawn, history, opVars
  <2>2. Noted(o) /\ Serving = {}
    BY <1>4, <1>5, <2>1 DEF HandInv, Cleared
  <2>3. Serving' = {}
    BY <2>1, <2>2 DEF Serving, LifeTypes
  <2> QED
    BY <2>1, <2>2, <2>3 DEF HandInv, Noted, Between
<1>18. CASE Await(o)
  <2>1. /\ UNCHANGED <<life, proxyOn, logOn, wish, was>> /\ pc[o] = "await"
        /\ pc'[o] = "await" \/ (pc'[o] = "restoreLog" /\ Serving # {})
    BY <1>18 DEF Await, Ping, procVars, proxyVars, history
  <2>2. Noted(o) /\ \A p \in Serving : ~proxyOn[p] /\ ~logOn[p]
    BY <1>4, <2>1 DEF HandInv
  <2>3. Serving' = Serving
    BY <2>1 DEF Serving
  <2> QED
    BY <2>1, <2>2, <2>3 DEF HandInv, Noted, Between
<1>19. CASE RestoreLog(o)
  <2>1. /\ UNCHANGED <<life, proxyOn, wish, was>> /\ pc[o] = "restoreLog" /\ pc'[o] = "restoreProxy"
        /\ logOn' = [p \in Procs |-> logOn[p] \/ (was[o].log /\ p \in Serving)]
    BY <1>19 DEF RestoreLog, procVars, history, opVars
  <2>2. Noted(o) /\ Serving # {} /\ \A p \in Serving : ~proxyOn[p] /\ ~logOn[p]
    BY <1>4, <2>1 DEF HandInv
  <2>3. Serving' = Serving
    BY <2>1 DEF Serving
  <2>4. \A p \in Serving : p \in Procs
    BY DEF Serving
  <2>5. \A p \in Serving : ~proxyOn'[p] /\ (logOn'[p] <=> wish.log)
    BY <2>1, <2>2, <2>4 DEF Noted
  <2> QED
    BY <2>1, <2>2, <2>3, <2>5 DEF HandInv, Noted, Between
<1>20. CASE RestoreProxy(o)
  <2>1. pc[o] = "restoreProxy"
    BY <1>20 DEF RestoreProxy
  <2>2. Noted(o) /\ Serving # {} /\ \A p \in Serving : ~proxyOn[p] /\ (logOn[p] <=> wish.log)
    BY <1>4, <2>1 DEF HandInv
  <2>3. CASE ~was[o].proxy /\ startProxyFails /\ GoesOn(o, "elevated")
    <3>1. UNCHANGED <<life, proxyOn, logOn, wish>> /\ pc'[o] = "elevated"
      BY <2>3 DEF startProxyFails, GoesOn, proxyVars, history
    <3>2. Agree
      BY <2>2, <2>3 DEF Agree, Noted
    <3> QED
      BY <1>9, <1>10, <3>1, <3>2 DEF Afar
  <2>4. ASSUME NEW p \in Serving, was[o].proxy, startProxy(p), GoesOn(o, "elevated")
        PROVE  HandInv(o)' /\ Agree'
    <3>1. wish' = wish /\ pc'[o] = "elevated"
      BY <2>4 DEF GoesOn, history
    <3>2. Serving' = {p} /\ proxyOn'[p] /\ (logOn'[p] <=> logOn[p])
      BY <1>5, <2>2, <2>4, Started
    <3>3. Agree'
      BY <2>2, <2>4, <3>1, <3>2 DEF Agree, Noted
    <3> QED
      BY <1>10, <3>1, <3>3 DEF Afar
  <2> QED
    BY <1>7, <1>20, <2>3, <2>4 DEF RestoreProxy
<1>21. CASE StartProxy(o)
  <2>1. pc[o] = "call" /\ Agree
    BY <1>4, <1>21 DEF StartProxy, Calls, Between
  <2>2. PICK p \in Serving : startProxy(p) /\ life'[p] = "serving" /\ Succeeds(o)
                             /\ wish' = [wish EXCEPT !.proxy = TRUE]
    BY <1>7, <1>21 DEF StartProxy
  <2>3. Serving' = {p} /\ proxyOn'[p] /\ (logOn'[p] <=> logOn[p])
    BY <1>5, <2>2, Started
  <2>4. wish'.proxy /\ wish'.log = wish.log
    BY <2>2 DEF WishTypes
  <2>5. Agree'
    BY <2>1, <2>3, <2>4 DEF Agree
  <2> QED
    BY <1>10, <2>2, <2>5 DEF Afar, Succeeds, Return
<1>22. CASE StopProxy(o)
  <2>1. /\ pc[o] = "call" /\ life' = life /\ logOn' = logOn /\ Serving # {} /\ pc'[o] = "done"
        /\ proxyOn' = [p \in Procs |-> proxyOn[p] /\ p \notin Serving]
        /\ wish' = [wish EXCEPT !.proxy = FALSE]
    BY <1>22 DEF StopProxy, Calls, procVars, Succeeds, Return
  <2>2. Agree
    BY <1>4, <2>1 DEF Between
  <2>3. ~wish'.proxy /\ wish'.log = wish.log
    BY <2>1 DEF WishTypes
  <2>4. Serving' = Serving /\ \A p \in Serving : ~proxyOn'[p]
    BY <2>1 DEF Serving
  <2>5. Agree'
    BY <2>1, <2>2, <2>3, <2>4 DEF Agree
  <2> QED
    BY <1>10, <2>1, <2>5 DEF Afar
<1>23. CASE StartLogCapture(o)
  <2>1. /\ pc[o] = "call" /\ life' = life /\ proxyOn' = proxyOn /\ Serving # {} /\ pc'[o] = "done"
        /\ logOn' = [p \in Procs |-> logOn[p] \/ p \in Serving]
        /\ wish' = [wish EXCEPT !.log = TRUE]
    BY <1>23 DEF StartLogCapture, Calls, procVars, Succeeds, Return
  <2>2. Agree
    BY <1>4, <2>1 DEF Between
  <2>3. wish'.log /\ wish'.proxy = wish.proxy
    BY <2>1 DEF WishTypes
  <2>4. Serving' = Serving /\ \A p \in Serving : logOn'[p]
    BY <2>1 DEF Serving
  <2>5. Agree'
    BY <2>1, <2>2, <2>3, <2>4 DEF Agree
  <2> QED
    BY <1>10, <2>1, <2>5 DEF Afar
<1>24. CASE Shutdown(o)
  <2>1. /\ life' = [p \in Procs |-> IF p \in Serving THEN "closing" ELSE life[p]]
        /\ wish' = [proxy |-> FALSE, log |-> FALSE] /\ pc'[o] = "done"
    BY <1>24 DEF Shutdown, Succeeds, Return
  <2>2. Serving' = {}
    BY <2>1 DEF Serving
  <2>3. Agree'
    BY <2>1, <2>2 DEF Agree
  <2> QED
    BY <1>10, <2>1, <2>3 DEF Afar
<1>25. CASE TUNProxy(o)
  <2>1. pc[o] = "tunProxy" /\ pc'[o] \in {"tunStart", "tunFail"}
    BY <1>25 DEF TUNProxy
  <2>2. Agree /\ at[o] \in Serving
    BY <1>4, <1>5, <2>1 DEF Between, Answering, TUNLabels
  <2>3. CASE startProxyFails /\ UNCHANGED wish
    <3>1. UNCHANGED <<life, proxyOn, logOn, wish>>
      BY <2>3 DEF startProxyFails, proxyVars
    <3> QED
      BY <1>9, <1>10, <2>1, <2>2, <3>1 DEF Afar
  <2>4. CASE ~proxyOn[at[o]] /\ startProxy(at[o]) /\ wish' = [wish EXCEPT !.proxy = TRUE]
    <3>1. Serving' = {at[o]} /\ proxyOn'[at[o]] /\ (logOn'[at[o]] <=> logOn[at[o]])
      BY <1>5, <2>2, <2>4, Started
    <3>2. wish'.proxy /\ wish'.log = wish.log
      BY <2>4 DEF WishTypes
    <3>3. Agree'
      BY <2>2, <3>1, <3>2 DEF Agree
    <3> QED
      BY <1>10, <2>1, <3>3 DEF Afar
  <2> QED
    BY <1>25, <2>3, <2>4 DEF TUNProxy
<1>26. CASE SpawnFails(o) \/ AwaitGivesUp(o)
  BY <1>7, <1>26 DEF SpawnFails, AwaitGivesUp
<1> QED
  BY <1>11, <1>12, <1>13, <1>14, <1>15, <1>16, <1>17, <1>18, <1>19, <1>20, <1>21, <1>22, <1>23, <1>24,
     <1>25, <1>26 DEF Does, EnsureStep, CallStep, Silent

LEMMA HandedProc ==
  ASSUME TypeOK, ProcSafe, CalmInv, Handed, NEW p \in Procs, ProcStep(p), UNCHANGED <<case, pc, opVars, history>>
  PROVE  Handed'
<1>1. serial' = serial /\ failed' = failed /\ pc' = pc /\ was' = was /\ wish' = wish
  BY DEF case, opVars, history
<1> SUFFICES ASSUME serial, failed = {} PROVE Handed'
  BY <1>1 DEF Handed
<1>2. OneBusy /\ Awaited /\ (\A o \in Ops : HandInv(o)) /\ (Agree \/ \E o \in Ops : pc[o] \in Between)
  BY DEF CalmInv, Calm, Handed
<1>3. \A x \in Procs : x \in Serving => proxyOn'[x] = proxyOn[x] /\ logOn'[x] = logOn[x]
  BY DEF ProcStep, NewCoreRuntime, Listen, Exit, Ends, StopMark, StopHalt, proxyVars, Set, Serving,
         TypeOK
<1>4. CASE Listen(p)
  <2>1. p \in Rising /\ ~proxyOn[p] /\ ~logOn[p] /\ UNCHANGED <<proxyOn, logOn>>
    BY <1>4, ProcLife DEF ProcSafe, YoungRest, Young, Rising, Listen, proxyVars
  <2>2. PICK o \in Ops : pc[o] = "await"
    BY <1>2, <2>1 DEF Awaited
  <2>3. \A u \in Ops \ {o} : pc[u] \in {"new", "done"}
    BY <1>2, <2>2 DEF OneBusy, Idle
  <2>4. \A x \in Serving' : ~proxyOn'[x] /\ ~logOn'[x]
    <3>1. \A x \in Serving : ~proxyOn[x] /\ ~logOn[x]
      BY <1>2, <2>2 DEF HandInv
    <3>2. Serving' \subseteq Serving \cup {p}
      BY <1>4, ProcLife
    <3> QED
      BY <2>1, <3>1, <3>2
  <2>5. HandInv(o)'
    BY <1>1, <1>2, <2>2, <2>4 DEF HandInv, Noted
  <2>6. \A u \in Ops \ {o} : HandInv(u)'
    BY <1>1, <1>2, <2>3 DEF HandInv
  <2> QED
    BY <1>1, <2>2, <2>5, <2>6 DEF Handed, Between
<1>5. CASE ~Listen(p)
  <2>1. Serving' = Serving
    BY <1>5, ProcLife
  <2>2. ASSUME NEW x \in Serving
        PROVE  proxyOn'[x] = proxyOn[x] /\ logOn'[x] = logOn[x]
    BY <1>3 DEF Serving
  <2>3. \A o \in Ops : HandInv(o)'
    BY <1>1, <1>2, <2>1, <2>2 DEF HandInv, Noted
  <2>4. Agree => Agree'
    BY <1>1, <2>1, <2>2 DEF Agree
  <2> QED
    BY <1>1, <1>2, <2>3, <2>4 DEF Handed
<1> QED
  BY <1>4, <1>5

-----------------------------------------------------------------------------
(* The invariant.                                                          *)

LEMMA InitCore == Init => CoreInv
<1> SUFFICES ASSUME Init PROVE CoreInv
  OBVIOUS
<1>0. /\ pc = [o \in Ops |-> "new"] /\ was = [o \in Ops |-> NoWas] /\ failed = {} /\ file = NoSettings
      /\ tunStarting = [p \in Procs |-> FALSE] /\ switched = [p \in Procs |-> FALSE]
      /\ settings = [p \in Procs |-> file]
  BY DEF Init
<1>1. PICK l \in {"none", "serving"}, e \in BOOLEAN, s \in BOOLEAN, run \in BOOLEAN :
        /\ l = "none" => ~e /\ s /\ ~run
        /\ life = [p \in Procs |-> IF p = 1 THEN l ELSE "none"]
        /\ elevated = [p \in Procs |-> p = 1 /\ e] /\ same = [p \in Procs |-> p # 1 \/ s]
        /\ proxyOn = [p \in Procs |-> p = 1 /\ run] /\ logOn = [p \in Procs |-> p = 1 /\ run]
        /\ wish = [proxy |-> run, log |-> run]
  BY DEF Init
<1>2. 1 \in Procs
  BY CoreAssumption DEF Procs
<1>3. TypeOK
  <2>1. ClientTypes
    BY CoreAssumption, ConstTypes DEF Init, ClientTypes
  <2>2. WasTypes /\ AtTypes /\ CopyTypes
    BY NoTypes DEF Init, WasTypes, AtTypes, CopyTypes
  <2>3. LifeTypes
    BY <1>1 DEF LifeTypes
  <2>4. FlagTypes
    BY <1>1 DEF Init, FlagTypes
  <2>5. ModeTypes
    BY NoTypes DEF Init, ModeTypes, Modes
  <2>6. WishTypes
    BY <1>1 DEF WishTypes
  <2> QED
    BY <2>1, <2>2, <2>3, <2>4, <2>5, <2>6, TypeParts
<1>4. ProcInv
  <2>1. YoungRest
    BY <1>0, <1>1 DEF YoungRest, Young
  <2>2. Placed
    BY <1>0 DEF Placed, TUNLabels, ModeLabels
  <2>3. OneHolder /\ OneServing
    BY <1>1 DEF OneHolder, OneServing, Serving, RunsProxy
  <2> QED
    BY <1>3, <2>1, <2>2, <2>3 DEF ProcInv
<1>5. TUNInv
  BY <1>0 DEF TUNInv, TUNStartingIsReal, StartingAlive
<1>6. CalmInv
  <2>1. Rising = {}
    BY <1>1 DEF Rising
  <2>2. \A o \in Ops : Idle(o) /\ pc[o] = "new"
    BY <1>0 DEF Idle
  <2> QED
    BY <2>1, <2>2 DEF CalmInv, OneBusy, Awaited, AwaitOne, Cleared, Answering, TUNLabels, ModeLabels
<1>7. ModeInv
  BY <1>0 DEF ModeInv, FileRead, ModeKept, Copied, Serving, ModeLabels
<1>8. Handed
  <2>1. \A o \in Ops : HandInv(o)
    BY <1>0 DEF HandInv
  <2>2. Agree
    BY <1>1, <1>2 DEF Agree, Serving
  <2> QED
    BY <2>1, <2>2 DEF Handed
<1> QED
  BY <1>4, <1>5, <1>6, <1>7, <1>8 DEF CoreInv

LEMMA StepCore == CoreInv /\ [Next]_vars => CoreInv'
<1> SUFFICES ASSUME CoreInv, [Next]_vars PROVE CoreInv'
  OBVIOUS
<1>1. TypeOK /\ ProcInv /\ ProcSafe /\ Placed /\ CalmInv /\ ModeInv /\ Handed
  BY DEF CoreInv, ProcInv, ProcSafe
<1>2. ASSUME TypeOK', ProcSafe', CalmInv', ModeInv', Handed'
      PROVE  CoreInv'
  BY <1>2 DEF CoreInv, ProcInv, ProcSafe
<1>3. ASSUME NEW o \in Ops, Does(o)
      PROVE  CoreInv'
  <2>1. Others(o) /\ Client'
    BY <1>1, <1>3, Frame
  <2>2. TypeOK'
    BY <1>1, <1>3, <2>1, ProcTypes, TypeParts DEF Does, Client
  <2>3. ProcSafe'
    <3>1. CASE Plain(o)
      BY <1>1, <2>1, <3>1, PlainSafe
    <3>2. CASE RestoreProxy(o) \/ StartProxy(o) \/ TUNProxy(o)
      BY <1>1, <2>1, <3>2, StartSafe
    <3>3. CASE ~Plain(o) /\ ~(RestoreProxy(o) \/ StartProxy(o) \/ TUNProxy(o))
      BY <1>1, <1>3, <2>1, <3>3, ChangeSafe DEF Does, EnsureStep, CallStep, Plain
    <3> QED
      BY <3>1, <3>2, <3>3
  <2>4. CalmInv' /\ ModeInv' /\ Handed'
    BY <1>1, <1>3, CalmClient, ModeClient, HandedClient
  <2> QED
    BY <1>2, <2>2, <2>3, <2>4
<1>4. ASSUME NEW p \in Procs, ProcStep(p)
      PROVE  CoreInv'
  <2>1. TypeOK' /\ UNCHANGED <<case, pc, opVars, history>>
    BY <1>1, <1>4, ProcStepTypes
  <2>2. ProcSafe'
    BY <1>1, <1>4, <2>1, ProcStepSafe
  <2>3. CalmInv' /\ ModeInv' /\ Handed'
    BY <1>1, <1>4, <2>1, CalmProc, ModeProc, HandedProc
  <2> QED
    BY <1>2, <2>1, <2>2, <2>3
<1>5. CASE UNCHANGED vars
  <2>1. UNCHANGED <<serial, kind, pc, pings, was, at, copy, life, elevated, same, proxyOn, logOn, mode,
                    settings, file, switched, unsaved, aside, tunStarting, tunOn, stopping, wish, failed>>
    BY <1>5 DEF vars, case, opVars, procVars, proxyVars, modeVars, tunVars, history
  <2>2. TypeOK'
    BY <1>1, <2>1 DEF TypeOK
  <2>3. ProcSafe'
    BY <1>1, <2>1 DEF ProcSafe, YoungRest, Young, Placed, OneHolder, RunsProxy, OneServing, Serving, Alive,
                      TUNInv, TUNStartingIsReal, StartingAlive
  <2>4. CalmInv'
    BY <1>1, <2>1 DEF CalmInv, OneBusy, Idle, Calm, Awaited, AwaitOne, Cleared, Answering, Rising, Serving
  <2>5. ModeInv'
    BY <1>1, <2>1 DEF ModeInv, Calm, FileRead, ModeKept, Copied, Serving
  <2>6. Handed'
    BY <1>1, <2>1 DEF Handed, HandInv, Agree, Noted, Serving
  <2> QED
    BY <1>2, <2>2, <2>3, <2>4, <2>5, <2>6
<1> QED
  BY <1>3, <1>4, <1>5 DEF Next, Does

(* The invariant the theorems below are read off from. *)
THEOREM CoreInvariant == Spec => []CoreInv
BY InitCore, StepCore, PTL DEF Spec

LEMMA AtMostOne ==
  ASSUME NEW S, \A p, q \in S : p = q
  PROVE  Cardinality(S) <= 1
<1>1. CASE S = {}
  BY <1>1, FS_EmptySet
<1>2. CASE S # {}
  <2>1. PICK q : q \in S
    BY <1>2
  <2>2. S = {q}
    BY <2>1
  <2>3. Cardinality({q}) = 1
    BY FS_Singleton
  <2> QED
    BY <2>2, <2>3
<1> QED
  BY <1>1, <1>2

(* However cores are replaced, closed and killed by overlapping calls, of  *)
(* the processes that run the proxy all but one are closing; there is one  *)
(* at most as long as no startProxy has had to go to another port; and a   *)
(* core that says the TUN is starting has a startTUN under way             *)
(* (core_client.go:48-101, core_runtime.go:229-262, 333-375, 414-427,      *)
(* port_manager.go:222-258).                                               *)
THEOREM CoreAlwaysSound == Spec => []CoreSound
<1>1. CoreInv => CoreSound
  <2> SUFFICES ASSUME CoreInv PROVE CoreSound
    OBVIOUS
  <2>1. OneProxy
    <3> DEFINE running == {p \in Procs : RunsProxy(p)}
               staying == {p \in running : life[p] # "closing"}
    <3>1. \A p \in staying : p \in Serving
      BY DEF CoreInv, ProcInv, YoungRest, Young, RunsProxy, Alive, Serving
    <3>2. \A p, q \in staying : p = q
      BY <3>1 DEF CoreInv, ProcInv, OneServing
    <3>3. ~aside => \A p, q \in running : p = q
      BY DEF CoreInv, ProcInv, OneHolder
    <3>4. Cardinality(staying) <= 1
      BY <3>2, AtMostOne
    <3>5. ~aside => Cardinality(running) <= 1
      BY <3>3, AtMostOne
    <3> QED
      BY <3>4, <3>5 DEF OneProxy
  <2> QED
    BY <2>1 DEF CoreInv, ProcInv, TUNInv, CoreSound
<1> QED
  BY <1>1, CoreInvariant, PTL

(* Calls one at a time and none failing: whenever no call is under way the *)
(* core that answers runs the proxy and captures logs just when the calls  *)
(* asked for it, however many cores have replaced each other               *)
(* (core_client.go:48-93).                                                 *)
THEOREM CoreHandsOver == Spec => []HandedOver
<1>1. CoreInv => HandedOver
  <2> SUFFICES ASSUME CoreInv, serial, failed = {}, Quiet, NEW p \in Serving
               PROVE  proxyOn[p] = wish.proxy /\ logOn[p] = wish.log
    BY DEF HandedOver
  <2>1. Agree
    BY DEF CoreInv, Handed, Quiet, Idle, Between
  <2>2. (proxyOn[p] <=> wish.proxy) /\ (logOn[p] <=> wish.log)
    BY <2>1 DEF Agree
  <2>3. /\ proxyOn[p] \in BOOLEAN /\ logOn[p] \in BOOLEAN
        /\ wish.proxy \in BOOLEAN /\ wish.log \in BOOLEAN
    BY DEF CoreInv, ProcInv, TypeOK, Serving
  <2> QED
    BY <2>2, <2>3
<1> QED
  BY <1>1, CoreInvariant, PTL

(* Calls one at a time, and none has given up on a core it had started:    *)
(* whenever no call is under way the core that answers has the settings of *)
(* the file unless its last save failed, and routes by the mode it shows   *)
(* while a switchMode, its save failed or not, was the last to set its     *)
(* mode (core_runtime.go:266-317, v2ray_manager.go:119-134).               *)
THEOREM ModeAlwaysAgrees == Spec => []ModeAgrees
<1>1. CoreInv => ModeAgrees
  BY DEF CoreInv, ModeInv, Calm, FileRead, ModeKept, ModeAgrees, Serving
<1> QED
  BY <1>1, CoreInvariant, PTL
=============================================================================
