---------------------------- MODULE V2RayManager ----------------------------
(***************************************************************************)
(* The manager of the in-process V2Ray core (proxy/v2ray_manager.go):      *)
(*   - StartCore and StopCore, which own the published core instance,      *)
(*   - TestConfigReal and SpeedTestConfig, which run an instance of their  *)
(*     own and borrow the field corePort to say where it should listen,    *)
(*   - the configuration store and the settings with their two files, and  *)
(*     a process that ends at any point and is started again.              *)
(*                                                                         *)
(* A critical section of m.mu is one action.  StopCore calls               *)
(* SetCoreRunning with the lock held, so it never gives it back: `locked`. *)
(* What an instance does is left out but for the port it listens on (which *)
(* stands for the SOCKS and the HTTP port): two instances cannot listen on *)
(* one.  An instance whose Start failed is not closed, and may keep one of *)
(* the two: `half`.  Of a configuration only its ID is kept; CoreActive,   *)
(* which goes with CoreRunning, is left out.                               *)
(***************************************************************************)
EXTENDS Naturals, Sequences, FiniteSets, SequencesExt

CONSTANTS Starts, Stops, Tests, \* the calls of StartCore, StopCore, the tests
          Ports,                \* ports a user may choose
          DefaultPort,          \* 11808
          TestPorts,            \* 21000 and up
          Ids,                  \* the values of the clock AddConfig uses
          MaxConfigs, MaxEdits, MaxCrashes,  \* bounds
          None

ASSUME V2RayAssumption ==
  /\ Ports \cap TestPorts = {} /\ DefaultPort \in Ports
  /\ None \notin Ports \cup TestPorts \cup Ids \cup Starts \cup Tests
  /\ Starts \cap Stops = {} /\ Starts \cap Tests = {} /\ Stops \cap Tests = {}
  /\ MaxConfigs \in Nat /\ MaxEdits \in Nat /\ MaxCrashes \in Nat

VARIABLES
  pc,           \* where each call is
  port,         \* the local variable port (StartCore), originalPort (tests)
  listen,       \* the port in the JSON the call generated
  live,         \* the calls whose instance runs
  half,         \* the calls whose instance failed to start and kept a port
  coreInstance, \* m.coreInstance, named by the call that created it
  corePort,     \* m.corePort
  store,        \* m.store
  storeFile,    \* what configs.json reads as (a torn file: the default)
  settingsFile, \* the core port in settings.json; None: no file, or 0
  locked,       \* m.mu is held for ever
  edits, crashes,
  silenced,     \* history: V2RayStopCore was called since the last StartCore
  moved,        \* history: corePort was changed while a StartCore was under way
  mixed         \* history: a test overlapped another one or a StartCore

callVars == <<pc, port, listen, live, half, coreInstance>>
fileVars == <<store, storeFile, settingsFile>>
vars == <<pc, port, listen, live, half, coreInstance, corePort, store, storeFile,
          settingsFile, locked, edits, crashes, silenced, moved, mixed>>

Calls == Starts \cup Stops \cup Tests
Stores == [configs : Seq(Ids), selected : Ids \cup {None}, corePort : Ports,
           running : BOOLEAN]

(* The manager's state has its type: what is stored and what is listened   *)
(* on is a port.                                                           *)
TypeOK ==
  /\ pc \in [Calls -> {"new", "read", "closed", "generated", "started", "published",
                       "borrowed", "restore", "stuck", "lost", "done"}]
  /\ port \in [Calls -> Ports \cup TestPorts \cup {None}]
  /\ listen \in [Calls -> Ports \cup TestPorts \cup {None}]
  /\ live \in SUBSET (Starts \cup Tests) /\ half \in SUBSET (Starts \cup Tests)
  /\ coreInstance \in Starts \cup {None}
  /\ corePort \in Ports \cup TestPorts
  /\ store \in Stores /\ storeFile \in Stores
  /\ settingsFile \in Ports \cup {None}
  /\ locked \in BOOLEAN /\ silenced \in BOOLEAN /\ moved \in BOOLEAN /\ mixed \in BOOLEAN
  /\ edits \in 0..MaxEdits /\ crashes \in 0..MaxCrashes

DefaultConfigStore == [configs |-> <<>>, selected |-> None, corePort |-> DefaultPort,
                       running |-> FALSE]

(* A process that has just loaded some store.                              *)
Init ==
  /\ pc = [c \in Calls |-> "new"]
  /\ port = [c \in Calls |-> None] /\ listen = [c \in Calls |-> None]
  /\ live = {} /\ half = {} /\ coreInstance = None
  /\ corePort = DefaultPort /\ settingsFile = None
  /\ \E ids \in SeqOf(Ids, MaxConfigs) : \E id \in ToSet(ids) \cup {None} :
       storeFile = [DefaultConfigStore EXCEPT !.configs = ids, !.selected = id]
  /\ store = storeFile
  /\ locked = FALSE /\ edits = 0 /\ crashes = 0
  /\ silenced = FALSE /\ moved = FALSE /\ mixed = FALSE

Goto(c, label) == pc' = [pc EXCEPT ![c] = label]

(* The call returns; its local variable is gone.                           *)
Return(c) == Goto(c, "done") /\ port' = [port EXCEPT ![c] = None]

(* Close of an instance: its port is free again.                           *)
Close(i) ==
  /\ live' = live \ {i}
  /\ listen' = [c \in Calls |-> IF c = i THEN None ELSE listen[c]]

UnderWay(c) == pc[c] \notin {"new", "stuck", "lost", "done"}

(* corePort is written: by whom does not matter, only while a start runs.  *)
SetPort(p, others) ==
  /\ corePort' = p
  /\ moved' = (moved \/ (p # corePort /\ \E s \in others : UnderWay(s)))

-----------------------------------------------------------------------------
(* StartCore.                                                              *)

getSelectedConfigLocked == IF store.selected \in ToSet(store.configs) THEN store.selected ELSE None

StartRead(c) ==
  /\ pc[c] = "new" /\ ~locked
  /\ IF getSelectedConfigLocked = None
     THEN Return(c) /\ UNCHANGED mixed
     ELSE /\ Goto(c, "read")
          /\ port' = [port EXCEPT ![c] = corePort]
          /\ mixed' = (mixed \/ \E t \in Tests : UnderWay(t))
  /\ UNCHANGED <<listen, live, half, coreInstance, corePort, fileVars, locked, edits, crashes, silenced, moved>>

StartClosePrevious(c) ==
  /\ pc[c] = "read" /\ ~locked
  /\ Close(coreInstance) /\ coreInstance' = None
  /\ Goto(c, "closed")
  /\ UNCHANGED <<port, half, corePort, fileVars, locked, edits, crashes, silenced, moved, mixed>>

(* GenerateCoreJSON reads m.corePort without the lock, and may reject the  *)
(* configuration, as may LoadJSONConfig and core.New.                      *)
GenerateCoreJSON(c) ==
  /\ pc[c] \in {"closed", "borrowed"}
  /\ \/ Goto(c, "generated") /\ listen' = [listen EXCEPT ![c] = corePort]
     \/ Goto(c, "restore") /\ UNCHANGED listen
  /\ UNCHANGED <<port, live, half, coreInstance, corePort, fileVars, locked, edits, crashes, silenced, moved, mixed>>

(* instance.Start fails when its port is taken, or for another reason.     *)
(* Nobody closes the instance then: of its two listeners the one that was  *)
(* opened first, if any, stays open until the process ends.                *)
InstanceStarts(c) ==
  /\ pc[c] = "generated"
  /\ \/ /\ \A i \in live \cup half : listen[i] # listen[c]
        /\ Goto(c, "started") /\ live' = live \cup {c} /\ UNCHANGED <<listen, half>>
     \/ Goto(c, "restore") /\ half' = half \cup {c} /\ UNCHANGED <<listen, live>>
     \/ Goto(c, "restore") /\ Close(c) /\ UNCHANGED half
  /\ UNCHANGED <<port, coreInstance, corePort, fileVars, locked, edits, crashes, silenced, moved, mixed>>

(* Mutant: an instance that is already in the field is kept.               *)
StartPublishesLate(c) ==
  /\ pc[c] = "started" /\ ~locked
  /\ coreInstance' = (IF coreInstance = None THEN c ELSE coreInstance)
  /\ SetPort(port[c], Starts \ {c})
  /\ Goto(c, "published")
  /\ UNCHANGED <<port, listen, live, half, fileVars, locked, edits, crashes, silenced, mixed>>

StartPublish(c) ==
  /\ pc[c] = "started" /\ ~locked
  /\ coreInstance' = c
  /\ SetPort(port[c], Starts \ {c})
  /\ Goto(c, "published")
  /\ UNCHANGED <<port, listen, live, half, fileVars, locked, edits, crashes, silenced, mixed>>

(* A StartCore that failed has nothing to restore.                         *)
StartFails(c) ==
  /\ pc[c] = "restore"
  /\ Return(c)
  /\ UNCHANGED <<listen, live, half, coreInstance, corePort, fileVars, locked, edits, crashes, silenced, moved, mixed>>

(* save(): the file is written in place.  When the open fails the old one  *)
(* stays; a write that fails leaves a torn one, which reads as the default.*)
Save(s) == store' = s /\ storeFile' \in {s, storeFile, DefaultConfigStore}

(* SetCoreRunning(true).                                                   *)
StartMark(c) ==
  /\ pc[c] = "published" /\ ~locked
  /\ Save([store EXCEPT !.running = TRUE])
  /\ silenced' = FALSE
  /\ Return(c)
  /\ UNCHANGED <<listen, live, half, coreInstance, corePort, settingsFile, locked,
                 edits, crashes, moved, mixed>>

(* StopCore calls SetCoreRunning(false) with m.mu held; only the path of a *)
(* Close that reports an error returns, with the instance in the field.    *)
StopCore(c) ==
  /\ pc[c] = "new" /\ ~locked
  /\ Close(coreInstance)
  /\ \/ coreInstance' = None /\ locked' = TRUE /\ Goto(c, "stuck")
     \/ /\ coreInstance # None
        /\ Goto(c, "done") /\ UNCHANGED <<coreInstance, locked>>
  /\ UNCHANGED <<port, half, corePort, fileVars, edits, crashes, silenced, moved, mixed>>

-----------------------------------------------------------------------------
(* TestConfigReal and SpeedTestConfig.                                     *)

(* originalPort is read before the lock is taken.                          *)
TestRead(c) ==
  /\ pc[c] = "new"
  /\ Goto(c, "read")
  /\ port' = [port EXCEPT ![c] = corePort]
  /\ mixed' = (mixed \/ \E o \in Tests \cup Starts : UnderWay(o))
  /\ UNCHANGED <<listen, live, half, coreInstance, corePort, fileVars, locked, edits, crashes, silenced, moved>>

TestBorrow(c) ==
  /\ pc[c] = "read" /\ ~locked
  /\ \E p \in TestPorts : SetPort(p, Starts)
  /\ Goto(c, "borrowed")
  /\ UNCHANGED <<port, listen, live, half, coreInstance, fileVars, locked, edits, crashes, silenced, mixed>>

(* Mutant: the deferred function takes the lock before it closes.          *)
TestEndsLocked(c) ==
  /\ pc[c] = "started" /\ ~locked
  /\ Close(c)
  /\ Goto(c, "restore")
  /\ UNCHANGED <<port, half, coreInstance, corePort, fileVars, locked, edits, crashes, silenced, moved, mixed>>

(* The requests through the instance end (15 s, 30 s) and it is closed.    *)
TestEnds(c) ==
  /\ pc[c] = "started"
  /\ Close(c)
  /\ Goto(c, "restore")
  /\ UNCHANGED <<port, half, coreInstance, corePort, fileVars, locked, edits, crashes, silenced, moved, mixed>>

TestRestore(c) ==
  /\ pc[c] = "restore" /\ ~locked
  /\ SetPort(port[c], Starts)
  /\ Return(c)
  /\ UNCHANGED <<listen, live, half, coreInstance, fileVars, locked, edits, crashes, silenced, mixed>>

-----------------------------------------------------------------------------
(* The configuration store and the settings; each is one section.          *)

Edit == ~locked /\ edits < MaxEdits /\ edits' = edits + 1
EditUnchanged == UNCHANGED <<callVars, locked, crashes, mixed>>

(* The links that parse get the time as ID, which two of them may share.   *)
parseAndAdd(ids) == [store EXCEPT !.configs = @ \o ids]

AddConfig(ids) ==
  /\ Edit
  /\ Len(store.configs) + Len(ids) <= MaxConfigs
  /\ Save(parseAndAdd(ids))
  /\ UNCHANGED <<corePort, settingsFile, silenced, moved>> /\ EditUnchanged

(* The lock is held while the subscription is fetched, so that its links   *)
(* too are added in one section; when the fetch fails nothing changes.     *)
AddConfigsFromSub(ids) == AddConfig(ids)

AddSubWithInfo(ids) == AddConfigsFromSub(ids)

(* The ID of a configuration stays when its fields change.                 *)
UpdateConfig(id) ==
  /\ Edit
  /\ id \in ToSet(store.configs)
  /\ Save(store)
  /\ UNCHANGED <<corePort, settingsFile, silenced, moved>> /\ EditUnchanged

UpdateConfigField(id) == UpdateConfig(id)

(* Mutant: the selection is not cleared.                                   *)
DeleteKeepsSelection(id) ==
  /\ Edit
  /\ id \in ToSet(store.configs)
  /\ Save([store EXCEPT !.configs = RemoveFirst(@, id)])
  /\ UNCHANGED <<corePort, settingsFile, silenced, moved>> /\ EditUnchanged

(* The first configuration with the ID goes.                               *)
DeleteConfig(id) ==
  /\ Edit
  /\ id \in ToSet(store.configs)
  /\ Save([store EXCEPT !.configs = RemoveFirst(@, id),
                        !.selected = IF @ = id THEN None ELSE @])
  /\ UNCHANGED <<corePort, settingsFile, silenced, moved>> /\ EditUnchanged

SelectConfig(id) ==
  /\ Edit
  /\ id \in ToSet(store.configs)
  /\ Save([store EXCEPT !.selected = id])
  /\ UNCHANGED <<corePort, settingsFile, silenced, moved>> /\ EditUnchanged

ClearConfigs ==
  /\ Edit
  /\ Save([store EXCEPT !.configs = <<>>, !.selected = None])
  /\ UNCHANGED <<corePort, settingsFile, silenced, moved>> /\ EditUnchanged

SetCorePort(p) ==
  /\ Edit
  /\ Save([store EXCEPT !.corePort = p])
  /\ SetPort(p, Starts)
  /\ UNCHANGED <<settingsFile, silenced>> /\ EditUnchanged

SaveSettings(p) ==
  /\ Edit
  /\ SetPort(IF p = None THEN corePort ELSE p, Starts)
  /\ settingsFile' \in {p, settingsFile, None}
  /\ UNCHANGED <<store, storeFile, silenced>> /\ EditUnchanged

(* The RPCs V2RayStartCore and V2RayStopCore start and stop nothing: they  *)
(* only say that the core runs, or not (SetCoreRunning).                   *)
SetCoreRunning(running) ==
  /\ Edit
  /\ Save([store EXCEPT !.running = running])
  /\ silenced' = ~running
  /\ UNCHANGED <<corePort, settingsFile, moved>> /\ EditUnchanged

V2RayStartCore == SetCoreRunning(TRUE)

V2RayStopCore == SetCoreRunning(FALSE)

-----------------------------------------------------------------------------
(* The process ends, perhaps while one of the files is being written, and  *)
(* NewV2RayManager and loadSettings read what is left: a file that does    *)
(* not parse gives the default store, the port of the settings wins.  The  *)
(* calls of the new process are those of an initial state and not followed.*)

Crash ==
  /\ crashes < MaxCrashes /\ crashes' = crashes + 1
  /\ storeFile' \in {storeFile, DefaultConfigStore}
  /\ settingsFile' \in {settingsFile, None}
  /\ store' = storeFile'
  /\ corePort' = IF settingsFile' = None THEN store'.corePort ELSE settingsFile'
  /\ pc' = [c \in Calls |-> "lost"]
  /\ port' = [c \in Calls |-> None] /\ listen' = [c \in Calls |-> None]
  /\ live' = {} /\ half' = {} /\ coreInstance' = None /\ locked' = FALSE
  /\ silenced' = FALSE /\ moved' = FALSE /\ mixed' = FALSE
  /\ UNCHANGED edits

-----------------------------------------------------------------------------
StartStep(c) ==
  \/ StartRead(c) \/ StartClosePrevious(c) \/ GenerateCoreJSON(c) \/ InstanceStarts(c)
  \/ StartPublish(c) \/ StartMark(c) \/ StartFails(c)

TestStep(c) ==
  \/ TestRead(c) \/ TestBorrow(c) \/ GenerateCoreJSON(c) \/ InstanceStarts(c)
  \/ TestEnds(c) \/ TestRestore(c)

Step(c) ==
  \/ c \in Starts /\ StartStep(c)
  \/ c \in Stops /\ StopCore(c)
  \/ c \in Tests /\ TestStep(c)

Edits ==
  \/ \E ids \in SeqOf(Ids, 2) : AddConfig(ids) \/ AddConfigsFromSub(ids) \/ AddSubWithInfo(ids)
  \/ \E id \in Ids : DeleteConfig(id) \/ SelectConfig(id) \/ UpdateConfig(id) \/ UpdateConfigField(id)
  \/ ClearConfigs
  \/ \E p \in Ports : SetCorePort(p)
  \/ \E p \in Ports \cup {None} : SaveSettings(p)
  \/ V2RayStartCore \/ V2RayStopCore

Next == (\E c \in Calls : Step(c)) \/ Edits \/ Crash

Spec == Init /\ [][Next]_vars

(* Every call of a start or of a test that has begun goes on.              *)
FairSpec == Spec /\ WF_vars(\E c \in Starts \cup Tests : pc[c] # "new" /\ Step(c))

-----------------------------------------------------------------------------
(* What the manager promises.                                              *)

(* The selected configuration exists, in memory and in the file, also when *)
(* two configurations share an ID and after a crash.                       *)
SelectedListed ==
  \A s \in {store, storeFile} :
    s.selected # None => s.selected \in ToSet(s.configs)

(* Overlapping StartCore calls leave no started instance behind that       *)
(* nobody can close: only the port that both want keeps the second one     *)
(* from starting, so nothing may change corePort in the meantime.  The     *)
(* listener of an instance whose Start failed is not covered: no field     *)
(* holds that instance and nothing closes it (:231, :799, :916).           *)
NoOrphanCore ==
  ~moved => \A s \in Starts \cap live : coreInstance = s \/ pc[s] = "started"

(* Tests that ran one at a time and not during a StartCore leave the       *)
(* core's port a port the user chose.  (Two tests that overlap do not:     *)
(* the second one saves and restores the first one's test port.)           *)
NoTestPortLeft ==
  (~mixed /\ ~\E t \in Tests : UnderWay(t)) => corePort \in Ports

(* m.mu is only ever lost to a StopCore.                                   *)
LockLostToStop == locked => \E c \in Stops : pc[c] = "stuck"

(* The instance a test started is closed in the end, even when StopCore    *)
(* has taken the lock for good in the meantime.  One that failed to start  *)
(* is never closed and keeps what it had opened.                           *)
TestInstanceEnds == []<>(live \cap Tests = {})

(* A core that a completed StartCore left in place is announced as running *)
(* (IsCoreRunning), unless the RPC V2RayStopCore, which stops no core, was *)
(* called after the last StartCore.                                        *)
CoreAnnounced ==
  coreInstance \in live /\ pc[coreInstance] = "done" /\ ~silenced => store.running

(* The manager keeps hold of the cores it started: a running core is       *)
(* published, and announced unless an RPC denied it, its port is not a     *)
(* test's when tests ran alone, and m.mu is lost to StopCore only          *)
(* (v2ray_manager.go:180-268, 765-987, core_api.go:266-276).               *)
ManagerSound == TypeOK /\ NoOrphanCore /\ CoreAnnounced /\ NoTestPortLeft /\ LockLostToStop
=============================================================================
