---------------------------- MODULE V2RayProofs ----------------------------
(***************************************************************************)
(* Theorems about V2RayManager, for any number of calls, ports,            *)
(* configurations, edits and crashes.                                      *)
(***************************************************************************)
EXTENDS V2RayManager, TLAPS, WellFoundedInduction, SequenceTheorems

(* The places of the three kinds of calls.                                 *)
Places ==
  /\ \A c \in Starts : pc[c] \in {"new", "read", "closed", "generated", "started", "published",
                                  "restore", "lost", "done"}
  /\ \A c \in Stops : pc[c] \in {"new", "stuck", "lost", "done"}
  /\ \A c \in Tests : pc[c] \in {"new", "read", "borrowed", "generated", "started", "restore",
                                 "lost", "done"}

(* Who may be running, and whose instance may be published.                *)
Running ==
  /\ \A s \in Starts \cap live : pc[s] \in {"started", "published", "done"}
  /\ \A s \in Starts : pc[s] = "started" => s \in live
  /\ coreInstance # None => pc[coreInstance] \in {"published", "done"}
  /\ \A s, u \in Starts \cap live : listen[s] = listen[u] => s = u

(* While nothing moved corePort, the StartCore calls under way all mean    *)
(* the same port: once one of them has closed the previous core, every     *)
(* core that runs listens there, so that there is one at most.             *)
OnePort ==
  ~moved =>
    /\ \A s \in Starts : UnderWay(s) => port[s] = corePort
    /\ \A s \in Starts : pc[s] \in {"generated", "started"} => listen[s] = corePort
    /\ (\E c \in Starts : UnderWay(c) /\ pc[c] # "read") =>
         \A s \in Starts \cap live : listen[s] = corePort

(* While tests run alone, they restore a port that is not a test's.        *)
TestsAlone ==
  ~mixed =>
    /\ \A t, u \in Tests : UnderWay(t) /\ UnderWay(u) => t = u
    /\ \A t \in Tests, s \in Starts : ~(UnderWay(t) /\ UnderWay(s))
    /\ \A c \in Tests \cup Starts : UnderWay(c) => port[c] \in Ports

(* What the running cores look like.                                       *)
CoreHeld == Running /\ OnePort /\ NoOrphanCore /\ CoreAnnounced

(* Where corePort points.                                                  *)
PortInv == TestsAlone /\ NoTestPortLeft

-----------------------------------------------------------------------------
(* Sequences of configurations.                                            *)

LEMMA ToSetIs ==
  ASSUME NEW S, NEW s \in Seq(S)
  PROVE  ToSet(s) = {s[i] : i \in 1..Len(s)} /\ ToSet(s) \subseteq S
BY DEF ToSet

LEMMA BoundedIsSeq ==
  ASSUME NEW S, NEW n \in Nat, NEW s \in SeqOf(S, n)
  PROVE  s \in Seq(S)
<1> PICK m \in 0..n : s \in [1..m -> S]
  BY DEF SeqOf
<1> QED
  OBVIOUS

(* The smallest of some positions. *)
LEMMA MinIs ==
  ASSUME NEW I \in SUBSET Nat, I # {}
  PROVE  Min(I) \in I
<1>1. IsWellFoundedOn(OpToRel(<, Nat), Nat)
  BY NatLessThanWellFounded
<1>2. PICK x \in I : \A y \in I : ~(<<y, x>> \in OpToRel(<, Nat))
  BY <1>1, WFMin
<1>3. ASSUME NEW y \in I PROVE x <= y
  <2>1. ASSUME y < x PROVE FALSE
    <3>1. <<y, x>> \in Nat \X Nat /\ <<y, x>>[1] = y /\ <<y, x>>[2] = x
      OBVIOUS
    <3>2. <<y, x>> \in OpToRel(<, Nat)
      BY <2>1, <3>1 DEF OpToRel
    <3> QED
      BY <1>2, <3>2
  <2> QED
    BY <2>1
<1> QED
  BY <1>3 DEF Min

(* The first configuration with an ID goes, the others stay. *)
LEMMA RemoveFirstIs ==
  ASSUME NEW S, NEW s \in Seq(S), NEW e \in ToSet(s)
  PROVE  /\ RemoveFirst(s, e) \in Seq(S)
         /\ \A x \in ToSet(s) : x # e => x \in ToSet(RemoveFirst(s, e))
<1> DEFINE I == {i \in 1..Len(s) : s[i] = e}
           k == Min(I)
           a == SubSeq(s, 1, k - 1)
           b == SubSeq(s, k + 1, Len(s))
           t == a \o b
<1>1. Len(s) \in Nat /\ I \in SUBSET Nat /\ I # {}
  BY ToSetIs
<1>2. k \in 1..Len(s) /\ s[k] = e
  BY <1>1, MinIs
<1>3. RemoveFirst(s, e) = t
  <2>1. \E i \in 1..Len(s) : s[i] = e
    BY <1>2
  <2>2. RemoveFirst(s, e) = RemoveAt(s, SelectInSeq(s, LAMBDA v : v = e))
    BY <2>1 DEF RemoveFirst
  <2>3. SelectInSeq(s, LAMBDA v : v = e) = k
    BY <1>1 DEF SelectInSeq
  <2> QED
    BY <2>2, <2>3 DEF RemoveAt
<1> HIDE DEF k
<1>4. /\ t \in Seq(S) /\ Len(t) = Len(s) - 1
      /\ \A i \in 1..k-1 : t[i] = s[i]
      /\ \A i \in k..Len(s)-1 : t[i] = s[i+1]
  <2>1. a \in Seq(S) /\ Len(a) = k - 1 /\ \A i \in 1..k-1 : a[i] = s[i]
    BY <1>1, <1>2
  <2>2. b \in Seq(S) /\ Len(b) = Len(s) - k /\ \A i \in 1..Len(s)-k : b[i] = s[i+k]
    BY <1>1, <1>2
  <2> HIDE DEF a, b
  <2>3. t \in Seq(S) /\ Len(t) = Len(a) + Len(b)
    BY <2>1, <2>2, SMTT(30)
  <2>4. /\ \A i \in 1..Len(a) : t[i] = a[i]
        /\ \A i \in Len(a)+1..Len(a)+Len(b) : t[i] = b[i - Len(a)]
    BY <2>1, <2>2
  <2>5. ASSUME NEW i \in k..Len(s)-1 PROVE t[i] = s[i+1]
    <3>1. i \in Len(a)+1..Len(a)+Len(b) /\ i - Len(a) \in 1..Len(s)-k /\ i - Len(a) + k = i + 1
      BY <1>1, <1>2, <2>1, <2>2, SMTT(30)
    <3> QED
      BY <2>2, <2>4, <3>1
  <2> HIDE DEF t
  <2> QED
    BY <1>1, <1>2, <2>1, <2>2, <2>3, <2>4, <2>5
<1> HIDE DEF t
<1>5. ASSUME NEW x \in ToSet(s), x # e PROVE x \in ToSet(t)
  <2>1. PICK i \in 1..Len(s) : s[i] = x
    BY ToSetIs
  <2>2. CASE i < k
    <3>1. i \in 1..Len(t) /\ t[i] = x
      BY <1>1, <1>2, <1>4, <2>1, <2>2
    <3> QED
      BY <1>4, <3>1, ToSetIs
  <2>3. CASE i > k
    <3>1. i - 1 \in 1..Len(t) /\ t[i-1] = x
      BY <1>1, <1>2, <1>4, <2>1, <2>3
    <3> QED
      BY <1>4, <3>1, ToSetIs
  <2> QED
    BY <1>2, <1>5, <2>1, <2>2, <2>3
<1> QED
  BY <1>3, <1>4, <1>5

-----------------------------------------------------------------------------
(* The store.                                                              *)

(* A store whose selection exists. *)
Sound(s) == s \in Stores /\ (s.selected # None => s.selected \in ToSet(s.configs))

StoresSound == Sound(store) /\ Sound(storeFile) /\ settingsFile \in Ports \cup {None}

LEMMA DefaultSound == Sound(DefaultConfigStore)
<1>1. <<>> \in Seq(Ids)
  OBVIOUS
<1> QED
  BY <1>1, V2RayAssumption DEF Sound, DefaultConfigStore, Stores, V2RayAssumption

LEMMA SavesSound ==
  ASSUME StoresSound, NEW s, Sound(s), Save(s), UNCHANGED settingsFile
  PROVE  StoresSound'
BY DefaultSound DEF StoresSound, Save

(* Changes of the list and of the selection. *)
LEMMA ChangeSound ==
  ASSUME NEW s \in Stores, NEW ids \in Seq(Ids), NEW id \in Ids \cup {None},
         id # None => id \in ToSet(ids)
  PROVE  Sound([s EXCEPT !.configs = ids, !.selected = id])
BY DEF Sound, Stores

LEMMA StoreEdits ==
  ASSUME StoresSound, Edits PROVE StoresSound'
<1> DEFINE ids == store.configs
           id == store.selected
<1>0. /\ store \in Stores /\ ids \in Seq(Ids) /\ id \in Ids \cup {None}
      /\ store.corePort \in Ports /\ store.running \in BOOLEAN
      /\ id # None => id \in ToSet(ids)
  BY DEF StoresSound, Sound, Stores
<1>1. ASSUME NEW new \in SeqOf(Ids, 2), AddConfig(new) PROVE StoresSound'
  <2>1. new \in Seq(Ids)
    BY BoundedIsSeq
  <2>2. ids \o new \in Seq(Ids) /\ ToSet(ids) \subseteq ToSet(ids \o new)
    <3> DEFINE all == ids \o new
    <3>1. all \in Seq(Ids) /\ Len(all) = Len(ids) + Len(new) /\ \A i \in 1..Len(ids) : all[i] = ids[i]
      BY <1>0, <2>1
    <3> HIDE DEF all
    <3>2. ASSUME NEW x \in ToSet(ids) PROVE x \in ToSet(all)
      <4>1. PICK i \in 1..Len(ids) : ids[i] = x
        BY <1>0, ToSetIs
      <4>2. i \in 1..Len(all) /\ all[i] = x
        BY <1>0, <2>1, <3>1, <4>1
      <4>3. ToSet(all) = {all[n] : n \in 1..Len(all)}
        BY <3>1, ToSetIs
      <4> QED
        BY <4>2, <4>3
    <3> QED
      BY <3>1, <3>2 DEF all
  <2>3. Sound(parseAndAdd(new))
    BY <1>0, <2>2 DEF Sound, parseAndAdd, Stores
  <2> QED
    BY <1>1, <2>3, SavesSound DEF AddConfig
<1>2. ASSUME NEW x \in Ids, UpdateConfig(x) PROVE StoresSound'
  BY <1>2, SavesSound DEF UpdateConfig, StoresSound
<1>3. ASSUME NEW x \in Ids, DeleteConfig(x) PROVE StoresSound'
  <2> DEFINE r == RemoveFirst(ids, x)
             d == IF id = x THEN None ELSE id
             new == [store EXCEPT !.configs = r, !.selected = d]
  <2>1. x \in ToSet(ids) /\ Save(new) /\ UNCHANGED settingsFile
    BY <1>3 DEF DeleteConfig
  <2>2. r \in Seq(Ids) /\ \A y \in ToSet(ids) : y # x => y \in ToSet(r)
    BY <1>0, <2>1, RemoveFirstIs
  <2>3. d \in Ids \cup {None} /\ (d # None => d \in ToSet(r))
    BY <1>0, <2>2
  <2> HIDE DEF r, d
  <2>4. Sound(new)
    BY <1>0, <2>2, <2>3, ChangeSound
  <2> QED
    BY <2>1, <2>4, SavesSound
<1>4. ASSUME NEW x \in Ids, SelectConfig(x) PROVE StoresSound'
  <2>1. Sound([store EXCEPT !.selected = x])
    BY <1>0, <1>4 DEF SelectConfig, Sound, Stores
  <2> QED
    BY <1>4, <2>1, SavesSound DEF SelectConfig
<1>5. CASE ClearConfigs
  <2> DEFINE none == <<>>
  <2>1. none \in Seq(Ids) /\ None \in Ids \cup {None}
    OBVIOUS
  <2>2. Save([store EXCEPT !.configs = none, !.selected = None]) /\ UNCHANGED settingsFile
    BY <1>5 DEF ClearConfigs
  <2> HIDE DEF none
  <2>3. Sound([store EXCEPT !.configs = none, !.selected = None])
    BY <1>0, <2>1, ChangeSound
  <2> QED
    BY <2>2, <2>3, SavesSound
<1>6. ASSUME NEW p \in Ports, SetCorePort(p) PROVE StoresSound'
  <2>1. Sound([store EXCEPT !.corePort = p])
    BY <1>0 DEF Sound, Stores
  <2> QED
    BY <1>6, <2>1, SavesSound DEF SetCorePort
<1>7. ASSUME NEW p \in Ports \cup {None}, SaveSettings(p) PROVE StoresSound'
  BY <1>7 DEF SaveSettings, StoresSound
<1>8. ASSUME NEW b \in BOOLEAN, SetCoreRunning(b) PROVE StoresSound'
  <2>1. Sound([store EXCEPT !.running = b])
    BY <1>0 DEF Sound, Stores
  <2> QED
    BY <1>8, <2>1, SavesSound DEF SetCoreRunning
<1>9. CASE V2RayStartCore \/ V2RayStopCore
  BY <1>8, <1>9 DEF V2RayStartCore, V2RayStopCore
<1> QED
  BY <1>1, <1>2, <1>3, <1>4, <1>5, <1>6, <1>7, <1>9
     DEF Edits, AddConfigsFromSub, AddSubWithInfo, UpdateConfigField

LEMMA StoreNext == StoresSound /\ [Next]_vars => StoresSound'
<1> SUFFICES ASSUME StoresSound, [Next]_vars PROVE StoresSound'
  OBVIOUS
<1>1. CASE Edits
  BY <1>1, StoreEdits
<1>2. CASE UNCHANGED fileVars
  BY <1>2 DEF StoresSound, fileVars
<1>3. ASSUME NEW c \in Starts, StartMark(c) PROVE StoresSound'
  <2>1. Sound([store EXCEPT !.running = TRUE])
    BY DEF StoresSound, Sound, Stores
  <2> QED
    BY <1>3, <2>1, SavesSound DEF StartMark
<1>4. CASE Crash
  BY <1>4, DefaultSound DEF Crash, StoresSound
<1>5. ASSUME NEW c \in Calls, Step(c) PROVE StoresSound'
  BY <1>2, <1>3, <1>5
     DEF Step, StartStep, TestStep, StartRead, StartClosePrevious, GenerateCoreJSON,
         InstanceStarts, StartPublish, StartFails, StopCore, TestRead, TestBorrow,
         TestEnds, TestRestore
<1> QED
  BY <1>1, <1>2, <1>4, <1>5 DEF Next, vars, fileVars

LEMMA StoreInit == Init => StoresSound
<1> SUFFICES ASSUME Init PROVE StoresSound
  OBVIOUS
<1>0. PICK ids \in SeqOf(Ids, MaxConfigs) : \E id \in ToSet(ids) \cup {None} :
           storeFile = [DefaultConfigStore EXCEPT !.configs = ids, !.selected = id]
  BY DEF Init
<1>1. PICK id \in ToSet(ids) \cup {None} :
           storeFile = [DefaultConfigStore EXCEPT !.configs = ids, !.selected = id]
  BY <1>0
<1>2. ids \in Seq(Ids) /\ id \in Ids \cup {None} /\ (id # None => id \in ToSet(ids))
  BY BoundedIsSeq, ToSetIs, V2RayAssumption DEF V2RayAssumption
<1>3. Sound(storeFile)
  BY <1>1, <1>2, DefaultSound, ChangeSound DEF Sound
<1> QED
  BY <1>3 DEF Init, StoresSound

LEMMA StoresAlwaysSound == Spec => []StoresSound
BY StoreInit, StoreNext, PTL DEF Spec

(* The selected configuration exists in memory and in the file, for any    *)
(* number of configurations, shared IDs, edits, failed saves and crashes   *)
(* (v2ray_manager.go:180-268, 765-987).                                    *)
THEOREM SelectionListed == Spec => []SelectedListed
<1>1. StoresSound => SelectedListed
  BY DEF StoresSound, Sound, SelectedListed
<1> QED
  BY <1>1, StoresAlwaysSound, PTL

-----------------------------------------------------------------------------
(* Types.                                                                  *)

AllPorts == Ports \cup TestPorts

CallTypes ==
  /\ pc \in [Calls -> {"new", "read", "closed", "generated", "started", "published",
                       "borrowed", "restore", "stuck", "lost", "done"}]
  /\ port \in [Calls -> AllPorts \cup {None}]
  /\ listen \in [Calls -> AllPorts \cup {None}]
  /\ live \in SUBSET (Starts \cup Tests) /\ half \in SUBSET (Starts \cup Tests)
  /\ coreInstance \in Starts \cup {None}

(* A call keeps the port it read while it is under way. *)
PortsHeld ==
  /\ corePort \in AllPorts
  /\ \A c \in Starts \cup Tests : UnderWay(c) => port[c] \in AllPorts

CountTypes ==
  /\ locked \in BOOLEAN /\ silenced \in BOOLEAN /\ moved \in BOOLEAN /\ mixed \in BOOLEAN
  /\ edits \in 0..MaxEdits /\ crashes \in 0..MaxCrashes

Types == CallTypes /\ PortsHeld /\ CountTypes /\ Places

LEMMA TypesAre == Types /\ StoresSound => TypeOK
BY DEF Types, CallTypes, PortsHeld, CountTypes, StoresSound, Sound, TypeOK, AllPorts

LEMMA TypesInit == Init => Types
<1> SUFFICES ASSUME Init PROVE Types
  OBVIOUS
<1>1. CallTypes
  BY DEF Init, CallTypes
<1>2. PortsHeld
  BY V2RayAssumption DEF Init, PortsHeld, UnderWay, AllPorts, V2RayAssumption, Calls
<1>3. CountTypes
  <2>1. edits \in 0..MaxEdits /\ crashes \in 0..MaxCrashes
    BY V2RayAssumption DEF Init, V2RayAssumption
  <2>2. locked \in BOOLEAN /\ silenced \in BOOLEAN /\ moved \in BOOLEAN /\ mixed \in BOOLEAN
    BY DEF Init
  <2> QED
    BY <2>1, <2>2 DEF CountTypes
<1>4. Places
  BY DEF Init, Places, Calls
<1> QED
  BY <1>1, <1>2, <1>3, <1>4 DEF Types

(* The steps of the calls, one by one. *)
LEMMA StepCases ==
  ASSUME NEW c \in Calls, Step(c)
  PROVE  \/ c \in Starts /\ (StartRead(c) \/ StartClosePrevious(c) \/ StartPublish(c) \/ StartMark(c) \/ StartFails(c))
         \/ c \in Starts \cup Tests /\ (GenerateCoreJSON(c) \/ InstanceStarts(c))
         \/ c \in Stops /\ StopCore(c)
         \/ c \in Tests /\ (TestRead(c) \/ TestBorrow(c) \/ TestEnds(c) \/ TestRestore(c))
BY DEF Step, StartStep, TestStep

(* Where a step leads its call. *)
LEMMA PlacesStep ==
  ASSUME Types, NEW c \in Calls, Step(c)
  PROVE  /\ Places'
         /\ \A d \in Calls : d # c => pc'[d] = pc[d]
         /\ pc' \in [Calls -> {"new", "read", "closed", "generated", "started", "published",
                               "borrowed", "restore", "stuck", "lost", "done"}]
<1>0. CallTypes /\ Places
  BY DEF Types
<1> USE <1>0, V2RayAssumption DEF Places, CallTypes, Calls, Goto, Return, V2RayAssumption
<1>1. CASE c \in Starts /\ (StartRead(c) \/ StartClosePrevious(c) \/ StartPublish(c) \/ StartMark(c) \/ StartFails(c))
  BY <1>1 DEF StartRead, StartClosePrevious, StartPublish, StartMark, StartFails
<1>2. CASE c \in Starts \cup Tests /\ (GenerateCoreJSON(c) \/ InstanceStarts(c))
  BY <1>2 DEF GenerateCoreJSON, InstanceStarts
<1>3. CASE c \in Stops /\ StopCore(c)
  BY <1>3 DEF StopCore
<1>4. CASE c \in Tests /\ (TestRead(c) \/ TestBorrow(c) \/ TestEnds(c) \/ TestRestore(c))
  BY <1>4 DEF TestRead, TestBorrow, TestEnds, TestRestore
<1> QED
  BY <1>1, <1>2, <1>3, <1>4, StepCases

LEMMA CallTypesStep ==
  ASSUME Types, NEW c \in Calls, Step(c) PROVE CallTypes'
<1>0. CallTypes /\ corePort \in AllPorts
  BY DEF Types, PortsHeld
<1>1. pc' \in [Calls -> {"new", "read", "closed", "generated", "started", "published",
                         "borrowed", "restore", "stuck", "lost", "done"}]
  BY PlacesStep
<1>2. port' \in [Calls -> AllPorts \cup {None}]
  BY <1>0, StepCases DEF CallTypes, Return, StartRead, StartClosePrevious, StartPublish,
     StartMark, StartFails, GenerateCoreJSON, InstanceStarts, StopCore, TestRead, TestBorrow,
     TestEnds, TestRestore
<1>3. listen' \in [Calls -> AllPorts \cup {None}]
  BY <1>0, StepCases DEF CallTypes, Close, StartRead, StartClosePrevious, StartPublish,
     StartMark, StartFails, GenerateCoreJSON, InstanceStarts, StopCore, TestRead, TestBorrow,
     TestEnds, TestRestore
<1>4. /\ live' \in SUBSET (Starts \cup Tests) /\ half' \in SUBSET (Starts \cup Tests)
      /\ coreInstance' \in Starts \cup {None}
  BY <1>0, StepCases DEF CallTypes, Close, StartRead, StartClosePrevious, StartPublish,
     StartMark, StartFails, GenerateCoreJSON, InstanceStarts, StopCore, TestRead, TestBorrow,
     TestEnds, TestRestore
<1> QED
  BY <1>1, <1>2, <1>3, <1>4 DEF CallTypes

LEMMA PortsHeldStep ==
  ASSUME Types, NEW c \in Calls, Step(c) PROVE PortsHeld'
<1>0. CallTypes /\ PortsHeld /\ Places
  BY DEF Types
<1>1. \A d \in Calls : d # c => pc'[d] = pc[d]
  BY PlacesStep
<1>2. \A d \in Calls : d # c => port'[d] = port[d]
  BY <1>0, StepCases DEF CallTypes, Return, StartRead, StartClosePrevious, StartPublish,
     StartMark, StartFails, GenerateCoreJSON, InstanceStarts, StopCore, TestRead, TestBorrow,
     TestEnds, TestRestore
<1>3. UnderWay(c)' /\ c \in Starts \cup Tests => port'[c] \in AllPorts
  <2>1. CASE (c \in Starts /\ StartRead(c)) \/ (c \in Tests /\ TestRead(c))
    BY <1>0, <2>1 DEF StartRead, TestRead, CallTypes, PortsHeld, UnderWay, Return, Goto
  <2>2. CASE /\ c \in Starts \cup Tests
             /\ StartMark(c) \/ StartFails(c) \/ TestRestore(c)
    BY <1>0, <2>2 DEF StartMark, StartFails, TestRestore, CallTypes, UnderWay, Return, Goto
  <2>3. CASE UNCHANGED port /\ UnderWay(c)
    BY <1>0, <2>3 DEF PortsHeld
  <2>4. CASE c \in Stops
    BY <2>4, V2RayAssumption DEF V2RayAssumption
  <2> QED
    BY <2>1, <2>2, <2>3, <2>4, StepCases
       DEF StartClosePrevious, StartPublish, GenerateCoreJSON, InstanceStarts, TestBorrow, TestEnds, UnderWay
<1>4. corePort' \in AllPorts
  <2>1. CASE UNCHANGED corePort
    BY <1>0, <2>1 DEF PortsHeld
  <2>2. CASE c \in Starts \cup Tests /\ UnderWay(c) /\ corePort' = port[c]
    BY <1>0, <2>2 DEF PortsHeld
  <2>3. CASE corePort' \in TestPorts
    BY <2>3 DEF AllPorts
  <2> QED
    BY <2>1, <2>2, <2>3, StepCases DEF StartRead, StartClosePrevious, StartPublish,
     StartMark, StartFails, GenerateCoreJSON, InstanceStarts, StopCore, TestRead, TestBorrow,
     TestEnds, TestRestore, SetPort, UnderWay
<1> QED
  BY <1>0, <1>1, <1>2, <1>3, <1>4 DEF PortsHeld, UnderWay, Calls

LEMMA CountTypesStep ==
  ASSUME Types, NEW c \in Calls, Step(c) PROVE CountTypes'
<1>0. CountTypes
  BY DEF Types
<1>1. UNCHANGED <<edits, crashes>>
  BY StepCases DEF StartRead, StartClosePrevious, StartPublish,
     StartMark, StartFails, GenerateCoreJSON, InstanceStarts, StopCore, TestRead, TestBorrow,
     TestEnds, TestRestore
<1>2. moved' \in BOOLEAN
  BY <1>0, StepCases DEF CountTypes, SetPort, StartRead, StartClosePrevious, StartPublish,
     StartMark, StartFails, GenerateCoreJSON, InstanceStarts, StopCore, TestRead, TestBorrow,
     TestEnds, TestRestore
<1>3. mixed' \in BOOLEAN
  BY <1>0, StepCases DEF CountTypes, StartRead, StartClosePrevious, StartPublish,
     StartMark, StartFails, GenerateCoreJSON, InstanceStarts, StopCore, TestRead, TestBorrow,
     TestEnds, TestRestore
<1>4. locked' \in BOOLEAN
  BY <1>0, StepCases DEF CountTypes, StartRead, StartClosePrevious, StartPublish,
     StartMark, StartFails, GenerateCoreJSON, InstanceStarts, StopCore, TestRead, TestBorrow,
     TestEnds, TestRestore
<1>5. silenced' \in BOOLEAN
  BY <1>0, StepCases DEF CountTypes, StartRead, StartClosePrevious, StartPublish,
     StartMark, StartFails, GenerateCoreJSON, InstanceStarts, StopCore, TestRead, TestBorrow,
     TestEnds, TestRestore
<1> QED
  BY <1>0, <1>1, <1>2, <1>3, <1>4, <1>5 DEF CountTypes

(* An edit leaves the calls alone and sets corePort to a port, if at all. *)
LEMMA EditsDo ==
  ASSUME StoresSound, Edits
  PROVE  /\ UNCHANGED <<callVars, locked, crashes, mixed>> /\ edits < MaxEdits /\ edits' = edits + 1
         /\ \/ UNCHANGED <<corePort, moved>>
            \/ \E p \in Ports \cup {corePort} : SetPort(p, Starts)
         /\ (store'.running = store.running /\ UNCHANGED silenced) \/ silenced' \/ store'.running
         /\ silenced \in BOOLEAN => silenced' \in BOOLEAN
<1>0. store \in Stores
  BY DEF StoresSound, Sound
<1> USE <1>0 DEF Edit, EditUnchanged, Save, Stores
<1> DEFINE Same == store'.running = store.running /\ UNCHANGED silenced
<1>1. ASSUME NEW ids, AddConfig(ids) PROVE Same
  BY <1>1 DEF AddConfig, parseAndAdd
<1>2. ASSUME NEW id, DeleteConfig(id) PROVE Same
  BY <1>2 DEF DeleteConfig
<1>5. ASSUME V2RayStartCore \/ V2RayStopCore PROVE silenced' \/ store'.running
  <2>1. V2RayStartCore => store'.running /\ silenced' = FALSE
    BY DEF V2RayStartCore, SetCoreRunning
  <2>2. V2RayStopCore => silenced' = TRUE
    BY DEF V2RayStopCore, SetCoreRunning
  <2> QED
    BY <1>5, <2>1, <2>2
<1>6. ASSUME ~(V2RayStartCore \/ V2RayStopCore) PROVE Same
  BY <1>1, <1>2, <1>6 DEF Edits, AddConfigsFromSub, AddSubWithInfo, UpdateConfigField, SelectConfig,
     UpdateConfig, ClearConfigs, SetCorePort, SaveSettings
<1>3. /\ Same \/ silenced' \/ store'.running
      /\ silenced \in BOOLEAN => silenced' \in BOOLEAN
  <2>1. V2RayStartCore \/ V2RayStopCore => silenced' \in BOOLEAN
    BY DEF V2RayStartCore, V2RayStopCore, SetCoreRunning
  <2> QED
    BY <1>5, <1>6, <2>1
<1> HIDE <1>0
<1>4. /\ UNCHANGED <<callVars, locked, crashes, mixed>> /\ edits < MaxEdits /\ edits' = edits + 1
      /\ \/ UNCHANGED <<corePort, moved>>
         \/ \E p \in Ports \cup {corePort} : SetPort(p, Starts)
  BY DEF Edits, AddConfigsFromSub, AddSubWithInfo, AddConfig, UpdateConfigField, SelectConfig,
     UpdateConfig, DeleteConfig, ClearConfigs, SetCorePort, SaveSettings,
     V2RayStartCore, V2RayStopCore, SetCoreRunning
<1> QED
  BY <1>3, <1>4

LEMMA TypesNext == StoresSound /\ Types /\ [Next]_vars => Types'
<1> SUFFICES ASSUME StoresSound, Types, [Next]_vars PROVE Types'
  OBVIOUS
<1>1. ASSUME NEW c \in Calls, Step(c) PROVE Types'
  BY <1>1, PlacesStep, CallTypesStep, PortsHeldStep, CountTypesStep DEF Types
<1>2. CASE Edits
  <2>1. /\ UNCHANGED <<pc, port, listen, live, half, coreInstance, locked, crashes, mixed>>
        /\ edits < MaxEdits /\ edits' = edits + 1
    BY <1>2, EditsDo DEF callVars
  <2>2. corePort' \in AllPorts
    BY <1>2, EditsDo DEF SetPort, Types, PortsHeld, AllPorts
  <2>3. moved' \in BOOLEAN
    BY <1>2, EditsDo DEF SetPort, Types, CountTypes
  <2>4. edits' \in 0..MaxEdits
    BY <2>1, V2RayAssumption DEF Types, CountTypes, V2RayAssumption
  <2>5. CallTypes' /\ Places'
    BY <2>1 DEF Types, CallTypes, Places
  <2>6. PortsHeld'
    BY <2>1, <2>2 DEF Types, PortsHeld, UnderWay
  <2>7. CountTypes'
    <3>1. silenced' \in BOOLEAN
      BY <1>2, EditsDo DEF Types, CountTypes
    <3> QED
      BY <2>1, <2>3, <2>4, <3>1 DEF Types, CountTypes
  <2> QED
    BY <2>5, <2>6, <2>7 DEF Types
<1>3. CASE Crash
  <2>1. CallTypes' /\ Places'
    BY <1>3 DEF Crash, CallTypes, Places, Calls
  <2>2. PortsHeld'
    <3>1. storeFile'.corePort \in Ports /\ settingsFile' \in Ports \cup {None}
      BY <1>3, DefaultSound DEF Crash, StoresSound, Sound, Stores
    <3>2. corePort' \in AllPorts
      BY <1>3, <3>1 DEF Crash, AllPorts
    <3> QED
      BY <1>3, <3>2 DEF Crash, PortsHeld, UnderWay, Calls
  <2>3. CountTypes'
    <3>1. edits' \in 0..MaxEdits
      BY <1>3 DEF Crash, Types, CountTypes
    <3>2. crashes' \in 0..MaxCrashes
      BY <1>3, V2RayAssumption DEF Crash, Types, CountTypes, V2RayAssumption
    <3>3. locked' \in BOOLEAN /\ silenced' \in BOOLEAN
      BY <1>3 DEF Crash
    <3>4. moved' \in BOOLEAN /\ mixed' \in BOOLEAN
      BY <1>3 DEF Crash
    <3> QED
      BY <3>1, <3>2, <3>3, <3>4 DEF CountTypes
  <2> QED
    BY <2>1, <2>2, <2>3 DEF Types
<1>4. CASE UNCHANGED vars
  BY <1>4 DEF vars, Types, CallTypes, Places, PortsHeld, CountTypes, UnderWay
<1> QED
  BY <1>1, <1>2, <1>3, <1>4 DEF Next

(* The manager's state stays well typed: a port that is read, generated,   *)
(* borrowed or restored is a port, whatever calls and crashes interleave   *)
(* (v2ray_manager.go:765-987).                                             *)
THEOREM V2RayTypeCorrect == Spec => []TypeOK
BY TypesInit, TypesNext, TypesAre, StoresAlwaysSound, PTL DEF Spec

-----------------------------------------------------------------------------
(* One core.                                                               *)

(* A step of a StartCore. *)
LEMMA StartKeepsCore ==
  ASSUME StoresSound, Types, CoreHeld, NEW c \in Starts,
         \/ StartRead(c) \/ StartClosePrevious(c) \/ StartPublish(c)
         \/ StartMark(c) \/ StartFails(c)
  PROVE  CoreHeld'
<1>0. /\ CallTypes /\ Places /\ c \in Calls /\ None \notin Starts \cup Tests
      /\ \A s \in Starts : s \in Calls
  BY V2RayAssumption DEF Types, V2RayAssumption, Calls
<1>1. CASE StartRead(c)
  <2>1. /\ pc[c] = "new" /\ pc'[c] \in {"read", "done"}
        /\ \A d \in Calls : d # c => pc'[d] = pc[d] /\ port'[d] = port[d]
        /\ pc'[c] = "read" => port'[c] = corePort
        /\ UNCHANGED <<listen, live, coreInstance, corePort, store, silenced, moved>>
    BY <1>0, <1>1 DEF StartRead, CallTypes, Goto, Return, fileVars
  <2>2. Running' /\ NoOrphanCore' /\ CoreAnnounced'
    <3>1. Running'
      BY <1>0, <2>1 DEF CoreHeld, Running, CallTypes
    <3>2. NoOrphanCore'
      BY <1>0, <2>1 DEF CoreHeld, NoOrphanCore, Running, CallTypes
    <3>3. CoreAnnounced'
      <4>1. ASSUME coreInstance \in live, pc'[coreInstance] = "done" PROVE pc[coreInstance] = "done"
        BY <1>0, <2>1, <4>1 DEF CoreHeld, Running, CallTypes
      <4> QED
        BY <2>1, <4>1 DEF CoreHeld, CoreAnnounced
    <3> QED
      BY <3>1, <3>2, <3>3
  <2>3. OnePort'
    BY <1>0, <2>1 DEF CoreHeld, OnePort, UnderWay
  <2> QED
    BY <2>2, <2>3 DEF CoreHeld
<1>2. CASE StartClosePrevious(c)
  <2>1. /\ pc[c] = "read" /\ pc'[c] = "closed"
        /\ \A d \in Calls : d # c => pc'[d] = pc[d]
        /\ live' = live \ {coreInstance} /\ coreInstance' = None
        /\ \A d \in Calls : d # coreInstance => listen'[d] = listen[d]
        /\ UNCHANGED <<port, corePort, store, moved>>
    BY <1>0, <1>2 DEF StartClosePrevious, CallTypes, Goto, Close, fileVars
  <2>2. Running' /\ NoOrphanCore' /\ CoreAnnounced'
    <3>1. Running'
      BY <1>0, <2>1 DEF CoreHeld, Running, CallTypes
    <3>2. NoOrphanCore'
      BY <1>0, <2>1 DEF CoreHeld, NoOrphanCore, Running, CallTypes
    <3>3. CoreAnnounced'
      BY <1>0, <2>1 DEF CoreAnnounced, CallTypes
    <3> QED
      BY <3>1, <3>2, <3>3
  <2>3. OnePort'
    <3>1. ASSUME ~moved PROVE \A s \in Starts \cap live' : listen'[s] = corePort
      <4>1. ASSUME NEW s \in Starts \cap live' PROVE listen'[s] = corePort
        <5>1. s \in live /\ s # coreInstance /\ pc[s] = "started" /\ listen'[s] = listen[s]
          BY <1>0, <2>1, <3>1, <4>1 DEF CoreHeld, NoOrphanCore
        <5> QED
          BY <3>1, <5>1 DEF CoreHeld, OnePort
      <4> QED
        BY <4>1
    <3>2. ASSUME ~moved, NEW s \in Starts, UnderWay(s)' PROVE port'[s] = corePort
      BY <1>0, <2>1, <3>2 DEF CoreHeld, OnePort, UnderWay
    <3>3. ASSUME ~moved, NEW s \in Starts, pc'[s] \in {"generated", "started"} PROVE listen'[s] = corePort
      BY <1>0, <2>1, <3>3 DEF CoreHeld, OnePort, Running
    <3> QED
      BY <2>1, <3>1, <3>2, <3>3 DEF OnePort
  <2> QED
    BY <2>2, <2>3 DEF CoreHeld
<1>3. CASE StartPublish(c)
  <2>1. /\ pc[c] = "started" /\ pc'[c] = "published"
        /\ \A d \in Calls : d # c => pc'[d] = pc[d]
        /\ coreInstance' = c
        /\ UNCHANGED <<port, listen, live, store>>
    BY <1>0, <1>3 DEF StartPublish, CallTypes, Goto, fileVars
  <2>2. ~moved' => ~moved /\ UNCHANGED corePort
    BY <1>3, <2>1 DEF StartPublish, SetPort, CoreHeld, OnePort, UnderWay
  <2>3. Running' /\ CoreAnnounced'
    BY <1>0, <2>1 DEF CoreHeld, Running, CoreAnnounced, CallTypes
  <2>4. NoOrphanCore'
    <3>1. ASSUME ~moved', NEW s \in Starts \cap live PROVE s = c
      <4>1. UnderWay(c) /\ c \in live /\ listen[c] = corePort
        BY <2>1, <2>2, <3>1 DEF CoreHeld, Running, OnePort, UnderWay
      <4>2. listen[s] = corePort
        BY <2>1, <2>2, <3>1, <4>1 DEF CoreHeld, OnePort
      <4> QED
        BY <4>1, <4>2 DEF CoreHeld, Running
    <3> QED
      BY <2>1, <3>1 DEF NoOrphanCore
  <2>5. OnePort'
    BY <1>0, <2>1, <2>2 DEF CoreHeld, OnePort, UnderWay
  <2> QED
    BY <2>3, <2>4, <2>5 DEF CoreHeld
<1>4. CASE StartMark(c)
  <2>1. /\ pc[c] = "published" /\ pc'[c] = "done"
        /\ \A d \in Calls : d # c => pc'[d] = pc[d] /\ port'[d] = port[d]
        /\ UNCHANGED <<listen, live, coreInstance, corePort, moved>>
    BY <1>0, <1>4 DEF StartMark, CallTypes, Goto, Return
  <2>2. store'.running
    BY <1>4 DEF StartMark, Save, StoresSound, Sound, Stores
  <2>3. Running' /\ NoOrphanCore'
    BY <1>0, <2>1 DEF CoreHeld, Running, NoOrphanCore, CallTypes
  <2>4. OnePort'
    BY <1>0, <2>1 DEF CoreHeld, OnePort, UnderWay
  <2> QED
    BY <2>2, <2>3, <2>4 DEF CoreHeld, CoreAnnounced
<1>5. CASE StartFails(c)
  <2>1. /\ pc[c] = "restore" /\ pc'[c] = "done"
        /\ \A d \in Calls : d # c => pc'[d] = pc[d] /\ port'[d] = port[d]
        /\ UNCHANGED <<listen, live, coreInstance, corePort, store, silenced, moved>>
    BY <1>0, <1>5 DEF StartFails, CallTypes, Goto, Return, fileVars
  <2>2. Running' /\ NoOrphanCore' /\ CoreAnnounced'
    <3>1. Running'
      BY <1>0, <2>1 DEF CoreHeld, Running, CallTypes
    <3>2. NoOrphanCore'
      BY <1>0, <2>1 DEF CoreHeld, NoOrphanCore, Running, CallTypes
    <3>3. CoreAnnounced'
      <4>1. ASSUME coreInstance \in live, pc'[coreInstance] = "done" PROVE pc[coreInstance] = "done"
        BY <1>0, <2>1, <4>1 DEF CoreHeld, Running, CallTypes
      <4> QED
        BY <2>1, <4>1 DEF CoreHeld, CoreAnnounced
    <3> QED
      BY <3>1, <3>2, <3>3
  <2>3. OnePort'
    BY <1>0, <2>1 DEF CoreHeld, OnePort, UnderWay
  <2> QED
    BY <2>2, <2>3 DEF CoreHeld
<1> QED
  BY <1>1, <1>2, <1>3, <1>4, <1>5

(* A step of a test or of a StopCore. *)
LEMMA OthersKeepCore ==
  ASSUME StoresSound, Types, CoreHeld, NEW c \in Calls,
         \/ c \in Stops /\ StopCore(c)
         \/ c \in Tests /\ (TestRead(c) \/ TestBorrow(c) \/ TestEnds(c) \/ TestRestore(c))
  PROVE  CoreHeld'
<1>0. /\ CallTypes /\ c \notin Starts /\ None \notin Starts \cup Tests
      /\ \A s \in Starts : s \in Calls
      /\ coreInstance \in Starts \cup {None}
  BY V2RayAssumption DEF Types, V2RayAssumption, Calls, CallTypes
<1>1. UNCHANGED <<store, silenced>>
  BY DEF StopCore, TestRead, TestBorrow, TestEnds, TestRestore, fileVars
<1>2. \A s \in Starts : pc'[s] = pc[s] /\ port'[s] = port[s]
  BY <1>0 DEF StopCore, TestRead, TestBorrow, TestEnds, TestRestore, CallTypes, Goto, Return
<1>3. CASE c \in Stops /\ StopCore(c)
  <2>1. /\ live' = live \ {coreInstance} /\ coreInstance' \in {None, coreInstance}
        /\ \A d \in Calls : d # coreInstance => listen'[d] = listen[d]
        /\ UNCHANGED <<corePort, moved>>
    BY <1>3 DEF StopCore, Close
  <2>2. Running'
    BY <1>0, <1>2, <2>1 DEF CoreHeld, Running
  <2>3. NoOrphanCore'
    BY <1>0, <1>2, <2>1 DEF CoreHeld, NoOrphanCore
  <2>4. OnePort'
    BY <1>0, <1>2, <2>1 DEF CoreHeld, OnePort, UnderWay, Running
  <2>5. CoreAnnounced'
    <3>1. coreInstance' \notin live'
      BY <1>0, <2>1 DEF CallTypes
    <3> QED
      BY <3>1 DEF CoreAnnounced
  <2> QED
    BY <2>2, <2>3, <2>4, <2>5 DEF CoreHeld
<1>4. CASE c \in Tests /\ (TestRead(c) \/ TestBorrow(c) \/ TestEnds(c) \/ TestRestore(c))
  <2>1. /\ coreInstance' = coreInstance
        /\ \A s \in Starts : listen'[s] = listen[s] /\ (s \in live' <=> s \in live)
    BY <1>0, <1>4 DEF TestRead, TestBorrow, TestEnds, TestRestore, Close
  <2>2. \/ UNCHANGED <<corePort, moved>>
        \/ \E p : SetPort(p, Starts)
    BY <1>4 DEF TestRead, TestBorrow, TestEnds, TestRestore
  <2>3. Running'
    BY <1>0, <1>2, <2>1 DEF CoreHeld, Running
  <2>4. ~moved' => ~moved /\ (UNCHANGED corePort \/ ~\E s \in Starts : UnderWay(s))
    BY <2>2 DEF SetPort
  <2>5. NoOrphanCore'
    BY <1>0, <1>2, <2>1, <2>4 DEF CoreHeld, NoOrphanCore
  <2>6. OnePort'
    BY <1>0, <1>2, <2>1, <2>4 DEF CoreHeld, OnePort, UnderWay
  <2>7. CoreAnnounced'
    <3>1. ASSUME coreInstance' \in live', pc'[coreInstance'] = "done"
          PROVE  coreInstance \in live /\ pc[coreInstance] = "done"
      <4>1. coreInstance' \in Starts
        <5>1. live' \in SUBSET (Starts \cup Tests)
          BY <1>0, <1>4 DEF CallTypes, TestRead, TestBorrow, TestEnds, TestRestore, Close
        <5> QED
          BY <1>0, <2>1, <3>1, <5>1
      <4> QED
        BY <1>2, <2>1, <3>1, <4>1
    <3> QED
      BY <1>1, <3>1 DEF CoreHeld, CoreAnnounced
  <2> QED
    BY <2>3, <2>5, <2>6, <2>7 DEF CoreHeld
<1> QED
  BY <1>3, <1>4

(* Generating the configuration and starting the instance. *)
LEMMA InstanceKeepsCore ==
  ASSUME StoresSound, Types, CoreHeld, NEW c \in Starts \cup Tests,
         GenerateCoreJSON(c) \/ InstanceStarts(c)
  PROVE  CoreHeld'
<1>0. /\ CallTypes /\ c \in Calls /\ None \notin Starts \cup Tests
      /\ \A s \in Starts : s \in Calls
  BY V2RayAssumption DEF Types, V2RayAssumption, Calls
<1>1. /\ UNCHANGED <<port, coreInstance, corePort, store, silenced, moved>>
      /\ \A d \in Calls : d # c => pc'[d] = pc[d] /\ listen'[d] = listen[d]
  BY <1>0 DEF GenerateCoreJSON, InstanceStarts, CallTypes, Goto, Close, fileVars
<1>2. pc[c] \in {"closed", "borrowed", "generated"}
  BY DEF GenerateCoreJSON, InstanceStarts
<1>3. c \in Starts => c \notin live /\ c # coreInstance
  BY <1>0, <1>2 DEF CoreHeld, Running
<1>4. \/ pc'[c] = "generated" /\ listen'[c] = corePort /\ live' = live
      \/ pc'[c] = "restore" /\ live' \in {live, live \ {c}}
      \/ /\ pc'[c] = "started" /\ live' = live \cup {c} /\ listen'[c] = listen[c]
         /\ pc[c] = "generated" /\ \A i \in live : listen[i] # listen[c]
  <2>1. CASE GenerateCoreJSON(c)
    BY <1>0, <2>1 DEF GenerateCoreJSON, CallTypes, Goto
  <2>2. CASE InstanceStarts(c)
    BY <1>0, <2>2 DEF InstanceStarts, CallTypes, Goto, Close
  <2> QED
    BY <2>1, <2>2
<1>5. Running'
  BY <1>0, <1>1, <1>2, <1>3, <1>4 DEF CoreHeld, Running, CallTypes
<1>6. NoOrphanCore'
  BY <1>0, <1>1, <1>2, <1>3, <1>4 DEF CoreHeld, NoOrphanCore
<1>7. OnePort'
  <2>1. ASSUME ~moved, NEW s \in Starts, UnderWay(s)' PROVE port'[s] = corePort
    BY <1>0, <1>1, <1>2, <2>1 DEF CoreHeld, OnePort, UnderWay
  <2>2. ASSUME ~moved, NEW s \in Starts, pc'[s] \in {"generated", "started"} PROVE listen'[s] = corePort
    BY <1>0, <1>1, <1>4, <2>2 DEF CoreHeld, OnePort
  <2>3. ASSUME ~moved, NEW s \in Starts, UnderWay(s)', pc'[s] # "read",
               NEW u \in Starts \cap live'
        PROVE  listen'[u] = corePort
    <3>1. UnderWay(s) /\ pc[s] # "read"
      BY <1>0, <1>1, <1>2, <2>3 DEF UnderWay
    <3>2. CASE u = c
      BY <1>3, <1>4, <2>2, <2>3, <3>2
    <3>3. CASE u # c
      BY <1>0, <1>1, <1>4, <2>3, <3>1, <3>3 DEF CoreHeld, OnePort
    <3> QED
      BY <3>2, <3>3
  <2> QED
    BY <1>1, <2>1, <2>2, <2>3 DEF OnePort
<1>8. CoreAnnounced'
  <2>1. ASSUME coreInstance \in live', pc'[coreInstance] = "done"
        PROVE  coreInstance \in live /\ pc[coreInstance] = "done"
    BY <1>0, <1>1, <1>4, <2>1 DEF CallTypes
  <2> QED
    BY <1>1, <2>1 DEF CoreHeld, CoreAnnounced
<1> QED
  BY <1>5, <1>6, <1>7, <1>8 DEF CoreHeld

LEMMA CoreNext == StoresSound /\ Types /\ CoreHeld /\ [Next]_vars => CoreHeld'
<1> SUFFICES ASSUME StoresSound, Types, CoreHeld, [Next]_vars PROVE CoreHeld'
  OBVIOUS
<1>1. ASSUME NEW c \in Calls, Step(c) PROVE CoreHeld'
  BY <1>1, StepCases, StartKeepsCore, OthersKeepCore, InstanceKeepsCore
<1>2. CASE Edits
  <2>1. /\ UNCHANGED <<pc, port, listen, live, coreInstance>>
        /\ (store'.running = store.running /\ UNCHANGED silenced) \/ silenced' \/ store'.running
    BY <1>2, EditsDo DEF callVars
  <2>2. ~moved' => ~moved /\ (UNCHANGED corePort \/ ~\E s \in Starts : UnderWay(s))
    BY <1>2, EditsDo DEF SetPort
  <2>3. Running'
    BY <2>1 DEF CoreHeld, Running
  <2>4. NoOrphanCore'
    BY <2>1, <2>2 DEF CoreHeld, NoOrphanCore
  <2>5. OnePort'
    BY <2>1, <2>2 DEF CoreHeld, OnePort, UnderWay
  <2>6. CoreAnnounced'
    BY <2>1 DEF CoreHeld, CoreAnnounced
  <2> QED
    BY <2>3, <2>4, <2>5, <2>6 DEF CoreHeld
<1>3. CASE Crash
  <2>1. live' = {} /\ coreInstance' = None /\ \A s \in Starts : pc'[s] = "lost"
    BY <1>3 DEF Crash, Calls
  <2> QED
    BY <2>1 DEF CoreHeld, Running, OnePort, NoOrphanCore, CoreAnnounced, UnderWay
<1>4. CASE UNCHANGED vars
  BY <1>4 DEF vars, CoreHeld, Running, OnePort, NoOrphanCore, CoreAnnounced, UnderWay
<1> QED
  BY <1>1, <1>2, <1>3, <1>4 DEF Next

-----------------------------------------------------------------------------
(* The borrowed port and the lock.                                         *)

LEMMA PortNext == StoresSound /\ Types /\ PortInv /\ [Next]_vars => PortInv'
<1> SUFFICES ASSUME StoresSound, Types, PortInv, [Next]_vars PROVE PortInv'
  OBVIOUS
<1>0. /\ CallTypes /\ Starts \cap Tests = {} /\ Stops \cap (Starts \cup Tests) = {}
      /\ \A s \in Starts \cup Tests : s \in Calls
  BY V2RayAssumption DEF Types, V2RayAssumption, Calls
<1>1. ASSUME NEW c \in Calls, Step(c) PROVE PortInv'
  <2>1. \A d \in Calls : d # c => pc'[d] = pc[d]
    BY <1>1, PlacesStep
  <2>2. CASE c \in Starts /\ StartRead(c)
    <3>1. /\ pc[c] = "new" /\ UNCHANGED corePort
          /\ \A d \in Calls : d # c => port'[d] = port[d]
      BY <1>0, <2>2 DEF StartRead, CallTypes, Return
    <3>2. \/ pc'[c] = "done" /\ mixed' = mixed
          \/ pc'[c] = "read" /\ port'[c] = corePort /\ mixed' = (mixed \/ \E t \in Tests : UnderWay(t))
      BY <1>0, <2>2 DEF StartRead, CallTypes, Return, Goto
    <3>3. ~mixed' => ~mixed /\ (pc'[c] = "done" \/ (port'[c] = corePort /\ ~\E t \in Tests : UnderWay(t)))
      BY <3>2
    <3>4. \A t \in Tests : UnderWay(t)' = UnderWay(t)
      BY <1>0, <2>1, <2>2 DEF UnderWay
    <3>5. NoTestPortLeft'
      BY <3>1, <3>3, <3>4 DEF PortInv, NoTestPortLeft
    <3>6. TestsAlone'
      <4>1. ASSUME ~mixed', NEW t \in Tests, NEW s \in Starts, UnderWay(t)', UnderWay(s)' PROVE FALSE
        BY <1>0, <2>1, <2>2, <3>3, <3>4, <4>1 DEF PortInv, TestsAlone, UnderWay
      <4>2. ASSUME ~mixed', NEW d \in Tests \cup Starts, UnderWay(d)' PROVE port'[d] \in Ports
        <5>1. CASE d = c
          BY <3>3, <4>2, <5>1 DEF PortInv, NoTestPortLeft, UnderWay
        <5>2. CASE d # c
          BY <1>0, <2>1, <3>1, <3>3, <4>2, <5>2 DEF PortInv, TestsAlone, UnderWay
        <5> QED
          BY <5>1, <5>2
      <4> QED
        BY <3>3, <3>4, <4>1, <4>2 DEF PortInv, TestsAlone
    <3> QED
      BY <3>5, <3>6 DEF PortInv
  <2>3. CASE c \in Tests /\ TestRead(c)
    <3>1. /\ pc[c] = "new" /\ pc'[c] = "read" /\ UNCHANGED corePort /\ port'[c] = corePort
          /\ \A d \in Calls : d # c => port'[d] = port[d]
      BY <1>0, <2>3 DEF TestRead, CallTypes, Goto
    <3>2. ~mixed' => ~mixed /\ ~\E o \in Tests \cup Starts : UnderWay(o)
      BY <2>3 DEF TestRead
    <3>3. ASSUME ~mixed', NEW d \in Tests \cup Starts, UnderWay(d)' PROVE d = c
      BY <1>0, <2>1, <3>2, <3>3 DEF UnderWay
    <3>4. TestsAlone'
      BY <1>0, <2>3, <3>1, <3>2, <3>3 DEF PortInv, TestsAlone, NoTestPortLeft
    <3>5. NoTestPortLeft'
      BY <2>3, <3>1 DEF NoTestPortLeft, UnderWay
    <3> QED
      BY <3>4, <3>5 DEF PortInv
  <2>4. ASSUME UNCHANGED mixed,
               \A d \in Starts \cup Tests : UnderWay(d)' => UnderWay(d) /\ port'[d] = port[d],
               ~mixed /\ ~(\E t \in Tests : UnderWay(t)') => corePort' \in Ports
        PROVE  PortInv'
    BY <2>4 DEF PortInv, TestsAlone, NoTestPortLeft
  <2>5. CASE /\ c \in Starts \cup Tests
             /\ \/ StartClosePrevious(c) \/ GenerateCoreJSON(c) \/ InstanceStarts(c) \/ TestEnds(c)
    <3>1. /\ UNCHANGED <<mixed, corePort, port>> /\ UnderWay(c) /\ UnderWay(c)'
      BY <1>0, <2>5 DEF StartClosePrevious, GenerateCoreJSON, InstanceStarts, TestEnds, UnderWay, Goto, CallTypes
    <3>2. \A d \in Starts \cup Tests : UnderWay(d)' = UnderWay(d)
      BY <1>0, <2>1, <3>1 DEF UnderWay
    <3> QED
      BY <2>4, <3>1, <3>2 DEF PortInv, NoTestPortLeft
  <2>6. CASE /\ c \in Starts /\ (StartMark(c) \/ StartFails(c) \/ StartPublish(c))
    <3>1. /\ UNCHANGED mixed /\ UnderWay(c)
          /\ corePort' \in {corePort, port[c]}
          /\ \A d \in Calls : d # c => port'[d] = port[d]
          /\ UnderWay(c)' => port'[c] = port[c]
      BY <1>0, <2>6 DEF StartMark, StartFails, StartPublish, UnderWay, Goto, Return, CallTypes, SetPort
    <3>2. \A d \in Tests : UnderWay(d)' = UnderWay(d)
      BY <1>0, <2>1, <2>6 DEF UnderWay
    <3>3. \A d \in Starts \cup Tests : UnderWay(d)' => UnderWay(d) /\ port'[d] = port[d]
      BY <1>0, <2>1, <3>1 DEF UnderWay
    <3>4. ~mixed /\ ~(\E t \in Tests : UnderWay(t)') => corePort' \in Ports
      BY <2>6, <3>1, <3>2 DEF PortInv, TestsAlone, NoTestPortLeft
    <3> QED
      BY <2>4, <3>1, <3>3, <3>4
  <2>7. CASE c \in Stops /\ StopCore(c)
    <3>1. UNCHANGED <<mixed, corePort, port>> /\ \A d \in Starts \cup Tests : UnderWay(d)' = UnderWay(d)
      BY <1>0, <2>1, <2>7 DEF StopCore, UnderWay
    <3> QED
      BY <2>4, <3>1 DEF PortInv, NoTestPortLeft
  <2>8. CASE c \in Tests /\ TestBorrow(c)
    <3>1. UNCHANGED <<mixed, port>> /\ UnderWay(c) /\ UnderWay(c)'
      BY <1>0, <2>8 DEF TestBorrow, UnderWay, Goto, CallTypes
    <3>2. \A d \in Starts \cup Tests : UnderWay(d)' => UnderWay(d)
      BY <1>0, <2>1, <3>1 DEF UnderWay
    <3> QED
      BY <2>4, <2>8, <3>1, <3>2
  <2>9. CASE c \in Tests /\ TestRestore(c)
    <3>1. /\ UNCHANGED mixed /\ UnderWay(c) /\ ~UnderWay(c)' /\ corePort' = port[c]
          /\ \A d \in Calls : d # c => port'[d] = port[d]
      BY <1>0, <2>9 DEF TestRestore, UnderWay, Goto, Return, CallTypes, SetPort
    <3>2. \A d \in Starts \cup Tests : UnderWay(d)' => UnderWay(d) /\ port'[d] = port[d]
      BY <1>0, <2>1, <3>1 DEF UnderWay
    <3>3. ~mixed => corePort' \in Ports
      BY <2>9, <3>1 DEF PortInv, TestsAlone
    <3> QED
      BY <2>4, <3>1, <3>2, <3>3
  <2> QED
    BY <1>1, <2>2, <2>3, <2>5, <2>6, <2>7, <2>8, <2>9, StepCases
<1>2. CASE Edits
  <2>1. UNCHANGED <<pc, port, mixed>> /\ corePort' \in Ports \cup {corePort}
    BY <1>2, EditsDo DEF callVars, SetPort
  <2> QED
    BY <2>1 DEF PortInv, TestsAlone, NoTestPortLeft, UnderWay
<1>3. CASE Crash
  <2>1. \A s \in Starts \cup Tests : ~UnderWay(s)'
    BY <1>0, <1>3 DEF Crash, UnderWay
  <2>2. corePort' \in Ports
    <3>1. storeFile'.corePort \in Ports /\ settingsFile' \in Ports \cup {None}
      BY <1>3, DefaultSound DEF Crash, StoresSound, Sound, Stores
    <3> QED
      BY <1>3, <3>1 DEF Crash
  <2> QED
    BY <2>1, <2>2 DEF PortInv, TestsAlone, NoTestPortLeft
<1>4. CASE UNCHANGED vars
  BY <1>4 DEF vars, PortInv, TestsAlone, NoTestPortLeft, UnderWay
<1> QED
  BY <1>1, <1>2, <1>3, <1>4 DEF Next

(* A StopCore that never returned stays where it is until the process ends. *)
LEMMA LockNext == Types /\ LockLostToStop /\ StoresSound /\ [Next]_vars => LockLostToStop'
<1> SUFFICES ASSUME Types, LockLostToStop, StoresSound, [Next]_vars PROVE LockLostToStop'
  OBVIOUS
<1>0. CallTypes /\ Stops \subseteq Calls
  BY DEF Types, Calls
<1>1. ASSUME NEW c \in Calls, Step(c) PROVE LockLostToStop'
  <2>1. CASE c \in Stops /\ StopCore(c)
    <3>1. CASE pc'[c] = "stuck"
      BY <2>1, <3>1 DEF LockLostToStop
    <3>2. CASE UNCHANGED locked
      BY <2>1, <3>2 DEF StopCore, LockLostToStop
    <3> QED
      BY <1>0, <2>1, <3>1, <3>2 DEF StopCore, Goto, CallTypes
  <2>2. CASE UNCHANGED locked /\ pc[c] # "stuck"
    <3>1. \A d \in Calls : d # c => pc'[d] = pc[d]
      BY <1>1, PlacesStep
    <3> QED
      BY <1>0, <2>2, <3>1 DEF LockLostToStop
  <2> QED
    BY <1>1, <2>1, <2>2, StepCases DEF StartRead, StartClosePrevious, StartPublish,
       StartMark, StartFails, GenerateCoreJSON, InstanceStarts, TestRead, TestBorrow,
       TestEnds, TestRestore
<1>2. CASE Edits
  <2>1. UNCHANGED <<pc, locked>>
    BY <1>2, EditsDo DEF callVars
  <2> QED
    BY <2>1 DEF LockLostToStop
<1>3. CASE Crash
  BY <1>3 DEF Crash, LockLostToStop
<1>4. CASE UNCHANGED vars
  BY <1>4 DEF vars, LockLostToStop
<1> QED
  BY <1>1, <1>2, <1>3, <1>4 DEF Next

LEMMA ManagerInit == Init => CoreHeld /\ PortInv /\ LockLostToStop
<1> SUFFICES ASSUME Init PROVE CoreHeld /\ PortInv /\ LockLostToStop
  OBVIOUS
<1>0. /\ \A c \in Calls : pc[c] = "new"
      /\ live = {} /\ coreInstance = None /\ corePort = DefaultPort /\ locked = FALSE
  BY DEF Init
<1>1. CoreHeld
  BY <1>0 DEF CoreHeld, Running, OnePort, NoOrphanCore, CoreAnnounced, UnderWay, Calls
<1>2. PortInv
  BY <1>0, V2RayAssumption DEF PortInv, TestsAlone, NoTestPortLeft, UnderWay, Calls, V2RayAssumption
<1>3. LockLostToStop
  BY <1>0 DEF LockLostToStop
<1> QED
  BY <1>1, <1>2, <1>3

(* For any number of StartCore, StopCore and test calls, edits and crashes *)
(* two overlapping StartCore leave no started core behind that nobody can  *)
(* close unless corePort moved in the meantime, a core left in place is    *)
(* announced unless the RPC V2RayStopCore denied it, corePort is not a     *)
(* test's port once tests that ran alone are over, and m.mu is lost to     *)
(* StopCore only.  Instances whose Start failed are outside it: the code   *)
(* leaves them open (v2ray_manager.go:180-268, 765-987, core_api.go:266).  *)
THEOREM ManagerAlwaysSound == Spec => []ManagerSound
<1>1. Init => StoresSound /\ Types /\ CoreHeld /\ PortInv /\ LockLostToStop
  BY StoreInit, TypesInit, ManagerInit
<1>2. StoresSound /\ Types /\ CoreHeld /\ PortInv /\ LockLostToStop /\ [Next]_vars
        => (StoresSound /\ Types /\ CoreHeld /\ PortInv /\ LockLostToStop)'
  BY StoreNext, TypesNext, CoreNext, PortNext, LockNext
<1>3. StoresSound /\ Types /\ CoreHeld /\ PortInv /\ LockLostToStop => ManagerSound
  BY TypesAre DEF CoreHeld, PortInv, ManagerSound
<1> QED
  BY <1>1, <1>2, <1>3, PTL DEF Spec
=============================================================================
