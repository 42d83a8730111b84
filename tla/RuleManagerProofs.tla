------------------------- MODULE RuleManagerProofs --------------------------
(***************************************************************************)
(* Theorems about RuleManager, for every finite set of operations and      *)
(* every choice of their kinds.                                            *)
(***************************************************************************)
EXTENDS RuleManager, TLAPS, FiniteSetTheorems

(* Which operations can be at which place; a match never gets the write    *)
(* lock it may ask for, as it holds the read lock meanwhile; a process     *)
(* that is down runs nothing.                                              *)
Places ==
  \A t \in Threads :
    /\ pc[t] = "locked" => kind[t] # "match"
    /\ pc[t] \in {"saveSettings", "writeSettings"} => kind[t] \in SettingsKinds
    /\ pc[t] \in {"saveRules", "writeRules"} => kind[t] \in RulesKinds \cup {"load"}
    /\ pc[t] \in {"matching", "resolve", "query", "emit"} => kind[t] = "match"
    /\ pc[t] \in {"assign", "loadRules", "assignRules", "clear", "build", "listen"} => kind[t] = "load"
    /\ pc[t] = "stuck" => kind[t] \in {"load", "listen"}
    /\ pc[t] \in {"fetch", "cache", "writeCache", "fetched"} => kind[t] = "refresh"
    /\ pc[t] = "save" => kind[t] = "listen"
    /\ crashed # "no" => pc[t] = "done"

(* Who holds rm.mu, and how, follows from where the operations are. *)
Saving(t) == pc[t] \in {"saveSettings", "writeSettings", "saveRules", "writeRules"}
HoldsWrite(t) == pc[t] = "locked" \/ (kind[t] \in {"group", "upstream"} /\ Saving(t))
HoldsRead(t) ==
  \/ kind[t] = "match" /\ pc[t] \in {"matching", "resolve", "query", "emit", "want"}
  \/ kind[t] = "listen" /\ Saving(t)
LockHeld ==
  \A t \in Threads :
    /\ pending = t <=> pc[t] = "want"
    /\ writer = t <=> HoldsWrite(t)
    /\ t \in readers <=> HoldsRead(t)

(* What an operation has in hand. *)
InHand ==
  \A t \in Threads :
    /\ pc[t] \in {"writeSettings", "assign"} => snap[t] \in Stored
    /\ pc[t] \in {"writeRules", "assignRules", "build"} => snap[t] \in Rules
    /\ pc[t] \in {"fetch", "cache", "writeCache"} => snap[t] \in Names
    /\ t \in mixed => pc[t] \in {"writeSettings", "writeRules"}
    /\ t \in acked => pc[t] = "done"

(* Serial operations and reloads that did not race run alone; one reload   *)
(* at a time runs in any case.                                             *)
Alone ==
  /\ serial => ~raced
  /\ serial => \A t, u \in Busy : t = u
  /\ ~raced => \A t, u \in Busy : kind[t] = "load" => t = u
  /\ \A t, u \in Busy : kind[t] = "load" /\ kind[u] = "load" => t = u

-----------------------------------------------------------------------------
Up == crashed \in {"no", "restarted"}

(* What the manager keeps twice in memory differs only while a reload is   *)
(* between its steps, or after an edit has built the rules beside one; the *)
(* list differs from its cache while a refresh is about to save it or has  *)
(* failed to; a start fails for a file only.                               *)
Rebuilt == raced /\ Doing({"group", "import"}) # {}
Reloading(t) == kind[t] = "load" /\ pc[t] \notin {"new", "done", "assign"}
Follows ==
  /\ Up => rules.groups = groups \/ Rebuilt \/ \E t \in Threads : pc[t] \in {"clear", "build"}
  /\ \A t \in Threads : pc[t] = "build" => Rebuilt \/ (rules.groups = {} /\ snap[t].groups = groups)
  /\ Up => router.cfg = auto \/ aborted \/ \E t \in Threads : Reloading(t)
  /\ Up /\ ~raced =>
       \/ lists[router.gen] = cacheFile \/ uncached
       \/ \E t \in Threads : pc[t] \in {"cache", "writeCache"}
  /\ ~raced => \A t \in Threads : pc[t] \in {"fetch", "cache", "writeCache"} => snap[t] = router.gen
  /\ crashed = "failed" => Torn \in {rulesFile, settingsFile}

(* Acknowledged edits are in the file and in memory, and the two differ    *)
(* only while somebody is about to save or has failed to; a file that      *)
(* cannot be read is being written or its last write broke off.            *)
KeepsRules(r) ==
  /\ Base \in r.groups
  /\ \A t \in acked :
       /\ kind[t] \in {"group", "import"} => t \in r.groups
       /\ kind[t] = "upstream" => t \in r.upstreams
SavingRules(t) == pc[t] \in {"saveRules", "writeRules"}
RulesSaved == \A t \in Doing(RulesKinds) : pc[t] = "done" => t \in acked

RulesMemory ==
  /\ Up => KeepsRules(Current)
  /\ \A t \in Threads : SavingRules(t) =>
       /\ kind[t] \in {"group", "import"} => t \in groups
       /\ kind[t] = "upstream" => t \in upstreams
RulesOnDisk ==
  /\ rulesFile # Torn => KeepsRules(rulesFile)
  /\ crashed = "no" /\ rulesFile = Torn => "rules" \in broken \/ \E t \in Threads : pc[t] = "writeRules"
  /\ crashed \in {"down", "failed"} => rulesFile # Torn \/ "rules" \in broken
RulesInHand ==
  \A t \in Threads :
    /\ pc[t] = "writeRules" => snap[t] = Current /\ t \notin mixed
    /\ pc[t] = "assignRules" => snap[t] = rulesFile
    /\ kind[t] = "load" /\ pc[t] \in {"clear", "build", "saveRules"} => rulesFile = Current
RulesFollowFile ==
  crashed = "no" /\ RulesSaved =>
    rulesFile = Current \/ "rules" \in broken \/ \E t \in Threads : SavingRules(t)
RulesInv == RulesSafe => RulesMemory /\ RulesOnDisk /\ RulesInHand /\ RulesFollowFile

(* The same of the settings, of which a listen port is saved first.        *)
KeepsSettings(s) == \A t \in acked : kind[t] \in {"setting", "listen"} => t \in s.settings
SavingSettings(t) == pc[t] \in {"save", "saveSettings", "writeSettings"}
SettingsSaved == \A t \in Doing(SettingsKinds) : pc[t] = "done" => t \in acked

SettingsMemory ==
  /\ Up => KeepsSettings(CurrentSettings)
  /\ \A t \in Threads :
       kind[t] \in {"setting", "listen"} /\ (SavingSettings(t) \/ SavingRules(t)) => t \in settings
SettingsOnDisk ==
  /\ settingsFile # Torn => KeepsSettings(settingsFile)
  /\ settingsFile # Torn => \A t \in Threads : kind[t] = "listen" /\ SavingRules(t) => t \in settingsFile.settings
  /\ crashed = "no" /\ settingsFile = Torn => "settings" \in broken \/ \E t \in Threads : pc[t] = "writeSettings"
  /\ crashed \in {"down", "failed"} => settingsFile # Torn \/ "settings" \in broken
SettingsInHand ==
  \A t \in Threads :
    /\ pc[t] = "writeSettings" => snap[t] = CurrentSettings /\ t \notin mixed
    /\ pc[t] = "assign" => snap[t] = settingsFile
SettingsFollowFile ==
  crashed = "no" /\ SettingsSaved => settingsFile = CurrentSettings \/ \E t \in Threads : SavingSettings(t)
SettingsInv == SettingsSafe => SettingsMemory /\ SettingsOnDisk /\ SettingsInHand /\ SettingsFollowFile

(* A match knows of acknowledged edits only. *)
MatchInv ==
  /\ \A t \in Threads : pc[t] = "new" => result[t] = None
  /\ \A t \in Threads : known[t] \subseteq {u \in acked : kind[u] \in {"group", "import"}}
  /\ MatchComplete

-----------------------------------------------------------------------------
Labels == {"new", "want", "locked", "saveSettings", "writeSettings", "saveRules",
           "writeRules", "matching", "resolve", "query", "emit", "assign", "loadRules", "assignRules",
           "clear", "build", "listen", "stuck", "fetch", "cache", "writeCache", "fetched", "save", "done"}
TypeFlags == serial \in BOOLEAN /\ raced \in BOOLEAN /\ aborted \in BOOLEAN /\ uncached \in BOOLEAN
TypeLock ==
  /\ kind \in Schedules /\ pc \in [Threads -> Labels]
  /\ readers \subseteq Threads /\ pending \in Threads \cup {None} /\ writer \in Threads \cup {None}
  /\ pending # None => writer = None
  /\ writer # None => readers = {}
  /\ crashed \in {"no", "down", "downSaving", "restarted", "failed", "failedSaving"}
TypeData ==
  /\ groups \subseteq Names /\ upstreams \subseteq Names /\ rules \in Rules
  /\ settings \subseteq Names /\ auto \subseteq Names /\ router \in Router
  /\ rulesFile \in Rules \cup {Torn} /\ settingsFile \in Stored \cup {Torn}
  /\ cacheFile \in Names \cup {Torn} /\ lists \in [Names -> Names \cup {Torn}]
  /\ broken \subseteq {"settings", "rules"}
TypeOwn ==
  /\ snap \in [Threads -> Rules \cup Stored \cup Names \cup {None}]
  /\ mixed \subseteq Threads /\ acked \subseteq Threads
  /\ result \in [Threads -> Rules \cup {None}] /\ known \in [Threads -> SUBSET Threads]

LEMMA TypeParts == TypeFlags /\ TypeLock /\ TypeData /\ TypeOwn => TypeOK
BY RuleAssumption DEF TypeOK, TypeFlags, TypeLock, TypeData, TypeOwn, Labels

(* rm.mu and the places of the operations. *)
Lk == TypeLock /\ Places /\ LockHeld

LEMMA LkInit == Init => Lk
BY RuleAssumption DEF Init, Lk, TypeLock, Places, LockHeld, Saving, HoldsWrite, HoldsRead, Labels, RuleAssumption

LEMMA LkStep == ASSUME NEW t \in Threads, Lk, Step(t) PROVE Lk'
<1> USE RuleAssumption DEF Lk, TypeLock, Places, LockHeld, Saving, HoldsWrite, HoldsRead, At, Goto, Set,
      Labels, RuleAssumption, Kinds, SettingsKinds, RulesKinds, case, lockVars
<1>1. CASE WantLock(t)
  BY <1>1 DEF WantLock, Begins, Announce, CanRead
<1>2. CASE Lock(t)
  BY <1>2 DEF Lock
<1>3. CASE EditSiteGroup(t)
  BY <1>3 DEF EditSiteGroup
<1>4. CASE EditUpstream(t)
  BY <1>4 DEF EditUpstream
<1>5. CASE ImportConfigWithSummary(t)
  BY <1>5 DEF ImportConfigWithSummary
<1>6. CASE SetSetting(t)
  BY <1>6 DEF SetSetting
<1>7. CASE UpdateAutoRoutingConfig(t)
  BY <1>7 DEF UpdateAutoRoutingConfig
<1>8. CASE SaveConfig(t)
  BY <1>8 DEF SaveConfig, CanRead
<1>9. CASE saveSettingsConfig(t)
  BY <1>9 DEF saveSettingsConfig
<1>10. CASE SettingsWritten(t)
  BY <1>10 DEF SettingsWritten, Overlaps
<1>11. CASE saveRulesConfig(t)
  BY <1>11 DEF saveRulesConfig
<1>12. CASE RulesWritten(t)
  BY <1>12 DEF RulesWritten, Unlocks, Overlaps
<1>13. CASE SaveFails(t)
  BY <1>13 DEF SaveFails, Returns, Unlocks
<1>14. CASE matchRule(t)
  BY <1>14 DEF matchRule, Begins, CanRead
<1>15. CASE MatchReads(t)
  BY <1>15 DEF MatchReads
<1>16. CASE GetDNSNodes(t)
  BY <1>16 DEF GetDNSNodes, CanRead
<1>17. CASE LookupReturns(t)
  BY <1>17 DEF LookupReturns
<1>18. CASE LookupRefreshesECH(t)
  BY <1>18 DEF LookupRefreshesECH, Announce, CanRead
<1>19. CASE emitRouteEvent(t)
  BY <1>19 DEF emitRouteEvent, CanRead, Returns
<1>20. CASE loadSettingsConfig(t)
  BY <1>20 DEF loadSettingsConfig, Begins, LoadReads, Returns
<1>21. CASE LoadAssignsSettings(t)
  BY <1>21 DEF LoadAssignsSettings
<1>22. CASE loadRulesConfig(t)
  BY <1>22 DEF loadRulesConfig, LoadReads, Returns
<1>23. CASE LoadAssignsRules(t)
  BY <1>23 DEF LoadAssignsRules
<1>24. CASE LoadClearsRules(t)
  BY <1>24 DEF LoadClearsRules
<1>25. CASE LoadBuilds(t)
  BY <1>25 DEF LoadBuilds
<1>26. CASE ReloadRefused(t)
  BY <1>26 DEF ReloadRefused, Returns
<1>27. CASE InitAutoRouter(t)
  BY <1>27 DEF InitAutoRouter, Returns
<1>28. CASE RefreshReads(t)
  BY <1>28 DEF RefreshReads, Begins, CanRead
<1>29. CASE LoadFromURL(t)
  BY <1>29 DEF LoadFromURL
<1>30. CASE FetchFails(t)
  BY <1>30 DEF FetchFails, Returns
<1>31. CASE RefreshNotes(t)
  BY <1>31 DEF RefreshNotes
<1>32. CASE WriteFails(t)
  BY <1>32 DEF WriteFails, Unlocks, Overlaps
<1>33. CASE ProxyLockLost(t)
  BY <1>33 DEF ProxyLockLost, Begins, CanRead
<1>34. CASE SaveToFile(t)
  BY <1>34 DEF SaveToFile
<1>35. CASE ListSaved(t)
  BY <1>35 DEF ListSaved
<1>36. CASE ListUnsaved(t)
  BY <1>36 DEF ListUnsaved
<1> HIDE DEF Lk
<1> QED
  BY <1>1, <1>2, <1>3, <1>4, <1>5, <1>6, <1>7, <1>8, <1>9, <1>10, <1>11, <1>12, <1>13,
     <1>14, <1>15, <1>16, <1>17, <1>18, <1>19, <1>20, <1>21, <1>22, <1>23, <1>24,
     <1>25, <1>26, <1>27, <1>28, <1>29, <1>30, <1>31, <1>32, <1>33, <1>34, <1>35, <1>36
  DEF Step, LockStep, EditStep, SaveStep, MatchStep, LoadStep, RefreshStep

LEMMA LkCrash == Lk /\ (Crash \/ Restart) => Lk'
BY RuleAssumption
DEF Lk, TypeLock, Places, LockHeld, Saving, HoldsWrite, HoldsRead, Labels, RuleAssumption, Crash, Restart, case, lockVars

(* Who runs beside whom. *)
Aln == TypeFlags /\ Alone

LEMMA AlnInit == Init => Aln
BY DEF Init, Aln, TypeFlags, Alone, Busy

LEMMA AlnStep == ASSUME NEW t \in Threads, Lk, Aln, Step(t) PROVE Aln'
<1> USE DEF Lk, TypeLock, Aln, TypeFlags, Alone, Busy, Quiet, At, Goto, Set, Labels, case, history, lost
<1>1. CASE WantLock(t)
  <2>1. CASE Begins(t, {"group", "upstream", "setting", "auto", "import", "listen"})
    <3>1. TypeFlags'
      BY <1>1, <2>1 DEF WantLock, Begins
    <3>2. \A u \in Busy' : u = t \/ u \in Busy
      BY <1>1 DEF WantLock, Announce
    <3>3. kind' = kind /\ serial' = serial /\ kind[t] # "load" /\ t \notin Busy
      BY <1>1, <2>1 DEF WantLock, Begins
    <3>4. (serial => Busy = {} /\ ~raced') /\ (~raced' => ~raced /\ \A u \in Busy : kind[u] # "load")
      BY <2>1 DEF Begins
    <3> QED
      BY <3>1, <3>2, <3>3, <3>4
  <2>2. CASE pc[t] \in {"listen", "fetched"} /\ UNCHANGED raced
    <3>1. TypeFlags'
      BY <1>1, <2>2 DEF WantLock
    <3> QED
      BY <1>1, <2>2, <3>1 DEF WantLock, Announce
  <2> QED
    BY <1>1, <2>1, <2>2 DEF WantLock
<1>2. CASE Lock(t)
  BY <1>2 DEF Lock
<1>3. CASE EditSiteGroup(t)
  BY <1>3 DEF EditSiteGroup
<1>4. CASE EditUpstream(t)
  BY <1>4 DEF EditUpstream
<1>5. CASE ImportConfigWithSummary(t)
  BY <1>5 DEF ImportConfigWithSummary
<1>6. CASE SetSetting(t)
  BY <1>6 DEF SetSetting
<1>7. CASE UpdateAutoRoutingConfig(t)
  BY <1>7 DEF UpdateAutoRoutingConfig
<1>8. CASE SaveConfig(t)
  BY <1>8 DEF SaveConfig, CanRead
<1>9. CASE saveSettingsConfig(t)
  BY <1>9 DEF saveSettingsConfig
<1>10. CASE SettingsWritten(t)
  BY <1>10 DEF SettingsWritten, Overlaps
<1>11. CASE saveRulesConfig(t)
  BY <1>11 DEF saveRulesConfig
<1>12. CASE RulesWritten(t)
  BY <1>12 DEF RulesWritten, Unlocks, Overlaps
<1>13. CASE SaveFails(t)
  BY <1>13 DEF SaveFails, Returns, Unlocks
<1>14. CASE matchRule(t)
  <2>1. TypeFlags'
    BY <1>14 DEF matchRule, Begins
  <2>2. \A u \in Busy' : u = t \/ u \in Busy
    BY <1>14 DEF matchRule
  <2>3. kind' = kind /\ serial' = serial /\ kind[t] # "load" /\ t \notin Busy
    BY <1>14 DEF matchRule, Begins
  <2>4. (serial => Busy = {} /\ ~raced') /\ (~raced' => ~raced /\ \A u \in Busy : kind[u] # "load")
    BY <1>14 DEF matchRule, Begins
  <2> QED
    BY <2>1, <2>2, <2>3, <2>4
<1>15. CASE MatchReads(t)
  BY <1>15 DEF MatchReads
<1>16. CASE GetDNSNodes(t)
  BY <1>16 DEF GetDNSNodes, CanRead
<1>17. CASE LookupReturns(t)
  BY <1>17 DEF LookupReturns
<1>18. CASE LookupRefreshesECH(t)
  BY <1>18 DEF LookupRefreshesECH, Announce, CanRead
<1>19. CASE emitRouteEvent(t)
  BY <1>19 DEF emitRouteEvent, CanRead, Returns
<1>20. CASE loadSettingsConfig(t)
  <2>1. TypeFlags'
    BY <1>20 DEF loadSettingsConfig, Begins, LoadReads
  <2>2. \A u \in Busy' : u = t \/ u \in Busy
    BY <1>20 DEF loadSettingsConfig, LoadReads, Returns
  <2>3. kind' = kind /\ serial' = serial /\ kind[t] = "load" /\ \A u \in Busy : kind[u] # "load"
    BY <1>20 DEF loadSettingsConfig, Begins, LoadReads
  <2>4. (serial => Busy = {} /\ ~raced') /\ (~raced' => ~raced /\ Busy = {})
    BY <1>20, <2>3 DEF loadSettingsConfig, Begins
  <2> QED
    BY <2>1, <2>2, <2>3, <2>4
<1>21. CASE LoadAssignsSettings(t)
  BY <1>21 DEF LoadAssignsSettings
<1>22. CASE loadRulesConfig(t)
  BY <1>22 DEF loadRulesConfig, LoadReads, Returns
<1>23. CASE LoadAssignsRules(t)
  BY <1>23 DEF LoadAssignsRules
<1>24. CASE LoadClearsRules(t)
  BY <1>24 DEF LoadClearsRules
<1>25. CASE LoadBuilds(t)
  BY <1>25 DEF LoadBuilds
<1>26. CASE ReloadRefused(t)
  BY <1>26 DEF ReloadRefused, Returns
<1>27. CASE InitAutoRouter(t)
  <2>1. TypeFlags'
    BY <1>27 DEF InitAutoRouter
  <2>2. UNCHANGED <<serial, kind, raced>> /\ Busy' \subseteq Busy
    BY <1>27 DEF InitAutoRouter, Returns
  <2> QED
    BY <2>1, <2>2
<1>28. CASE RefreshReads(t)
  <2>1. TypeFlags'
    BY <1>28 DEF RefreshReads, Begins
  <2>2. \A u \in Busy' : u = t \/ u \in Busy
    BY <1>28 DEF RefreshReads
  <2>3. kind' = kind /\ serial' = serial /\ kind[t] # "load" /\ t \notin Busy
    BY <1>28 DEF RefreshReads, Begins
  <2>4. (serial => Busy = {} /\ ~raced') /\ (~raced' => ~raced /\ \A u \in Busy : kind[u] # "load")
    BY <1>28 DEF RefreshReads, Begins
  <2> QED
    BY <2>1, <2>2, <2>3, <2>4
<1>29. CASE LoadFromURL(t)
  BY <1>29 DEF LoadFromURL
<1>30. CASE FetchFails(t)
  BY <1>30 DEF FetchFails, Returns
<1>31. CASE RefreshNotes(t)
  BY <1>31 DEF RefreshNotes
<1>32. CASE WriteFails(t)
  BY <1>32 DEF WriteFails, Unlocks, Overlaps
<1>33. CASE ProxyLockLost(t)
  <2>1. CASE Begins(t, {"listen"})
    <3>1. TypeFlags'
      BY <1>33, <2>1 DEF ProxyLockLost, Begins
    <3>2. \A u \in Busy' : u = t \/ u \in Busy
      BY <1>33 DEF ProxyLockLost
    <3>3. kind' = kind /\ serial' = serial /\ kind[t] # "load" /\ t \notin Busy
      BY <1>33, <2>1 DEF ProxyLockLost, Begins
    <3>4. (serial => Busy = {} /\ ~raced') /\ (~raced' => ~raced /\ \A u \in Busy : kind[u] # "load")
      BY <2>1 DEF Begins
    <3> QED
      BY <3>1, <3>2, <3>3, <3>4
  <2>2. CASE pc[t] = "listen" /\ UNCHANGED raced
    <3>1. TypeFlags'
      BY <1>33, <2>2 DEF ProxyLockLost
    <3>2. UNCHANGED <<serial, kind, raced>> /\ Busy' \subseteq Busy
      BY <1>33, <2>2 DEF ProxyLockLost
    <3> QED
      BY <3>1, <3>2
  <2> QED
    BY <1>33, <2>1, <2>2 DEF ProxyLockLost
<1>34. CASE SaveToFile(t)
  BY <1>34 DEF SaveToFile
<1>35. CASE ListSaved(t)
  BY <1>35 DEF ListSaved
<1>36. CASE ListUnsaved(t)
  BY <1>36 DEF ListUnsaved
<1> HIDE DEF Aln, Lk
<1> QED
  BY <1>1, <1>2, <1>3, <1>4, <1>5, <1>6, <1>7, <1>8, <1>9, <1>10, <1>11, <1>12, <1>13,
     <1>14, <1>15, <1>16, <1>17, <1>18, <1>19, <1>20, <1>21, <1>22, <1>23, <1>24,
     <1>25, <1>26, <1>27, <1>28, <1>29, <1>30, <1>31, <1>32, <1>33, <1>34, <1>35, <1>36
  DEF Step, LockStep, EditStep, SaveStep, MatchStep, LoadStep, RefreshStep

LEMMA AlnCrash == Lk /\ Aln /\ (Crash \/ Restart) => Aln'
BY DEF Lk, TypeLock, Aln, TypeFlags, Alone, Busy, Labels, Crash, Restart, case, history, lost

(* What the manager keeps, and what an operation has in hand. *)
Own == TypeData /\ TypeOwn /\ InHand

LEMMA OwnInit == Init => Own
BY RuleAssumption DEF Init, Own, TypeData, TypeOwn, InHand, BaseRules, BaseSettings, Names, Rules, Stored, Router, RuleAssumption

LEMMA OwnStep == ASSUME NEW t \in Threads, Lk, Own, Step(t) PROVE Own'
<1> USE RuleAssumption DEF Lk, TypeLock, Own, TypeData, TypeOwn, InHand, At, Goto, Set, Names, Rules, Stored,
      Router, ruleVars, setVars, fileVars, matchVars, history, lost
<1>1. CASE WantLock(t)
  BY <1>1 DEF WantLock, Begins, Announce, CanRead
<1>2. CASE Lock(t)
  BY <1>2 DEF Lock
<1>3. CASE EditSiteGroup(t)
  BY <1>3 DEF EditSiteGroup, buildRules
<1>4. CASE EditUpstream(t)
  BY <1>4 DEF EditUpstream
<1>5. CASE ImportConfigWithSummary(t)
  BY <1>5 DEF ImportConfigWithSummary, buildRules
<1>6. CASE SetSetting(t)
  BY <1>6 DEF SetSetting
<1>7. CASE UpdateAutoRoutingConfig(t)
  BY <1>7 DEF UpdateAutoRoutingConfig
<1>8. CASE SaveConfig(t)
  BY <1>8 DEF SaveConfig, CanRead
<1>9. CASE saveSettingsConfig(t)
  BY <1>9 DEF saveSettingsConfig, CurrentSettings
<1>10. CASE SettingsWritten(t)
  BY <1>10 DEF SettingsWritten, Overlaps
<1>11. CASE saveRulesConfig(t)
  BY <1>11 DEF saveRulesConfig, Current
<1>12. CASE RulesWritten(t)
  BY <1>12 DEF RulesWritten, Unlocks, Overlaps
<1>13. CASE SaveFails(t)
  BY <1>13 DEF SaveFails, Returns, Unlocks
<1>14. CASE matchRule(t)
  BY <1>14 DEF matchRule, Begins, CanRead, matchVars
<1>15. CASE MatchReads(t)
  BY <1>15 DEF MatchReads, matchVars
<1>16. CASE GetDNSNodes(t)
  BY <1>16 DEF GetDNSNodes, CanRead
<1>17. CASE LookupReturns(t)
  BY <1>17 DEF LookupReturns
<1>18. CASE LookupRefreshesECH(t)
  BY <1>18 DEF LookupRefreshesECH, Announce, CanRead
<1>19. CASE emitRouteEvent(t)
  BY <1>19 DEF emitRouteEvent, CanRead, Returns
<1>20. CASE loadSettingsConfig(t)
  BY <1>20 DEF loadSettingsConfig, Begins, LoadReads, Returns
<1>21. CASE LoadAssignsSettings(t)
  BY <1>21 DEF LoadAssignsSettings
<1>22. CASE loadRulesConfig(t)
  BY <1>22 DEF loadRulesConfig, LoadReads, Returns
<1>23. CASE LoadAssignsRules(t)
  BY <1>23 DEF LoadAssignsRules
<1>24. CASE LoadClearsRules(t)
  BY <1>24 DEF LoadClearsRules, Current
<1>25. CASE LoadBuilds(t)
  BY <1>25 DEF LoadBuilds, Appended, buildRules
<1>26. CASE ReloadRefused(t)
  BY <1>26 DEF ReloadRefused, Returns
<1>27. CASE InitAutoRouter(t)
  BY <1>27 DEF InitAutoRouter, Returns
<1>28. CASE RefreshReads(t)
  BY <1>28 DEF RefreshReads, Begins, CanRead
<1>29. CASE LoadFromURL(t)
  BY <1>29 DEF LoadFromURL
<1>30. CASE FetchFails(t)
  BY <1>30 DEF FetchFails, Returns
<1>31. CASE RefreshNotes(t)
  BY <1>31 DEF RefreshNotes
<1>32. CASE WriteFails(t)
  BY <1>32 DEF WriteFails, Unlocks, Overlaps
<1>33. CASE ProxyLockLost(t)
  BY <1>33 DEF ProxyLockLost, Begins, CanRead
<1>34. CASE SaveToFile(t)
  BY <1>34 DEF SaveToFile
<1>35. CASE ListSaved(t)
  BY <1>35 DEF ListSaved
<1>36. CASE ListUnsaved(t)
  BY <1>36 DEF ListUnsaved
<1> HIDE DEF Own, Lk
<1> QED
  BY <1>1, <1>2, <1>3, <1>4, <1>5, <1>6, <1>7, <1>8, <1>9, <1>10, <1>11, <1>12, <1>13,
     <1>14, <1>15, <1>16, <1>17, <1>18, <1>19, <1>20, <1>21, <1>22, <1>23, <1>24,
     <1>25, <1>26, <1>27, <1>28, <1>29, <1>30, <1>31, <1>32, <1>33, <1>34, <1>35, <1>36
  DEF Step, LockStep, EditStep, SaveStep, MatchStep, LoadStep, RefreshStep

LEMMA OwnCrash == Lk /\ Own /\ (Crash \/ Restart) => Own'
<1> SUFFICES ASSUME Lk, Own, Crash \/ Restart PROVE Own'
  OBVIOUS
<1> USE DEF Own, TypeData, TypeOwn, InHand, Names, Rules, Stored, Router, fileVars, history, lost
<1>1. CASE Crash
  BY <1>1 DEF Crash, buildRules
<1>2. CASE Restart
  <2>1. CASE Torn \in {rulesFile, settingsFile}
    BY <1>2, <2>1 DEF Restart, ruleVars, setVars, matchVars
  <2>2. CASE Torn \notin {rulesFile, settingsFile}
    <3>1. rulesFile \in Rules /\ settingsFile \in Stored
      BY <2>2
    <3>2. lists' = [lists EXCEPT ![Base] = cacheFile]
      BY <1>2, <2>2 DEF Restart, Set
    <3>3. lists' \in [Names -> Names \cup {Torn}]
      BY <1>2, <3>2
    <3>4. /\ groups' \subseteq Names /\ upstreams' \subseteq Names /\ rules' \in Rules
          /\ settings' \subseteq Names /\ auto' \subseteq Names /\ router' \in Router
      BY <1>2, <2>2, <3>1 DEF Restart, buildRules
    <3> QED
      BY <1>2, <3>3, <3>4 DEF Restart, matchVars
  <2> QED
    BY <2>1, <2>2
<1> QED
  BY <1>1, <1>2

-----------------------------------------------------------------------------
(* All that is known of every interleaving, and its invariance. *)
Sys == Lk /\ Aln /\ Own

LEMMA SysInit == Init => Sys
BY LkInit, AlnInit, OwnInit DEF Sys

LEMMA SysStep == Sys /\ [Next]_vars => Sys'
<1> SUFFICES ASSUME Sys, [Next]_vars PROVE Sys'
  OBVIOUS
<1>1. ASSUME NEW t \in Threads, Step(t) PROVE Sys'
  BY <1>1, LkStep, AlnStep, OwnStep DEF Sys
<1>2. CASE Crash \/ Restart
  BY <1>2, LkCrash, AlnCrash, OwnCrash DEF Sys
<1>3. CASE UNCHANGED vars
  <2>1. Lk'
    BY <1>3 DEF Sys, Lk, TypeLock, Places, LockHeld, Saving, HoldsWrite, HoldsRead, vars, case, lockVars
  <2>2. Aln'
    BY <1>3 DEF Sys, Aln, TypeFlags, Alone, Busy, vars, case, history, lost
  <2>3. Own'
    BY <1>3 DEF Sys, Own, TypeData, TypeOwn, InHand, vars, ruleVars, setVars, fileVars, matchVars, history, lost
  <2> QED
    BY <2>1, <2>2, <2>3 DEF Sys
<1> QED
  BY <1>1, <1>2, <1>3 DEF Next

(* RuleManager's state has its type, and a reader and a writer never hold  *)
(* rm.mu at once: the lock, a match that asks for it a second time, a save *)
(* under it and one outside it are all accounted for.                      *)
THEOREM RuleManagerTyped == Spec => []TypeOK
<1>1. Sys => TypeOK
  BY TypeParts DEF Sys, Lk, Aln, Own
<1> QED
  BY <1>1, SysInit, SysStep, PTL DEF Spec

-----------------------------------------------------------------------------
(* What is kept twice in memory. *)
LEMMA FollowsInit == Init => Follows
BY DEF Init, Follows, BaseRules, Names

LEMMA FollowsStep == ASSUME NEW t \in Threads, Sys, Follows, Step(t) PROVE Follows'
<1> USE DEF Sys, Lk, TypeLock, Places, Aln, TypeFlags, Alone, Busy, Own, TypeData, TypeOwn, InHand, Follows, Up, Reloading, Rebuilt, Doing,
      At, Goto, Set, Rules, Router, case, ruleVars, setVars, fileVars, history, lost
<1>1. CASE WantLock(t)
  BY <1>1 DEF WantLock, Begins, Announce, CanRead
<1>2. CASE Lock(t)
  BY <1>2 DEF Lock
<1>3. CASE EditSiteGroup(t)
  BY <1>3 DEF EditSiteGroup, buildRules
<1>4. CASE EditUpstream(t)
  BY <1>4 DEF EditUpstream
<1>5. CASE ImportConfigWithSummary(t)
  BY <1>5 DEF ImportConfigWithSummary, buildRules
<1>6. CASE SetSetting(t)
  BY <1>6 DEF SetSetting
<1>7. CASE UpdateAutoRoutingConfig(t)
  BY <1>7 DEF UpdateAutoRoutingConfig
<1>8. CASE SaveConfig(t)
  BY <1>8 DEF SaveConfig, CanRead
<1>9. CASE saveSettingsConfig(t)
  BY <1>9 DEF saveSettingsConfig
<1>10. CASE SettingsWritten(t)
  <2>1. UNCHANGED <<case, ruleVars, setVars, cacheFile, raced, aborted, uncached, crashed>>
    BY <1>10 DEF SettingsWritten, Overlaps
  <2>2. \A u \in Threads : u # t => pc'[u] = pc[u] /\ snap'[u] = snap[u]
    BY <1>10 DEF SettingsWritten, Overlaps
  <2>3. kind[t] # "load" /\ pc[t] = "writeSettings" /\ pc'[t] \in {"saveRules", "done"}
    BY <1>10 DEF SettingsWritten, Overlaps, SettingsKinds
  <2> QED
    BY <2>1, <2>2, <2>3
<1>11. CASE saveRulesConfig(t)
  BY <1>11 DEF saveRulesConfig
<1>12. CASE RulesWritten(t)
  BY <1>12 DEF RulesWritten, Unlocks, Overlaps
<1>13. CASE SaveFails(t)
  BY <1>13 DEF SaveFails, Returns, Unlocks
<1>14. CASE matchRule(t)
  BY <1>14 DEF matchRule, Begins, CanRead
<1>15. CASE MatchReads(t)
  BY <1>15 DEF MatchReads
<1>16. CASE GetDNSNodes(t)
  BY <1>16 DEF GetDNSNodes, CanRead
<1>17. CASE LookupReturns(t)
  BY <1>17 DEF LookupReturns
<1>18. CASE LookupRefreshesECH(t)
  BY <1>18 DEF LookupRefreshesECH, Announce, CanRead
<1>19. CASE emitRouteEvent(t)
  BY <1>19 DEF emitRouteEvent, CanRead, Returns
<1>20. CASE loadSettingsConfig(t)
  BY <1>20 DEF loadSettingsConfig, Begins, LoadReads, Returns
<1>21. CASE LoadAssignsSettings(t)
  BY <1>21 DEF LoadAssignsSettings
<1>22. CASE loadRulesConfig(t)
  BY <1>22 DEF loadRulesConfig, LoadReads, Returns
<1>23. CASE LoadAssignsRules(t)
  BY <1>23 DEF LoadAssignsRules
<1>24. CASE LoadClearsRules(t)
  BY <1>24 DEF LoadClearsRules, Current
<1>25. CASE LoadBuilds(t)
  BY <1>25 DEF LoadBuilds, Appended, buildRules
<1>26. CASE ReloadRefused(t)
  BY <1>26 DEF ReloadRefused, Returns
<1>27. CASE InitAutoRouter(t)
  <2>1. /\ UNCHANGED <<case, ruleVars, auto, cacheFile, raced, crashed>> /\ router' = [cfg |-> auto, gen |-> t]
        /\ lists' = [lists EXCEPT ![t] = cacheFile] /\ kind[t] = "load" /\ pc[t] = "locked" /\ pc'[t] = "done"
        /\ \A u \in Threads : u # t => pc'[u] = pc[u] /\ snap'[u] = snap[u]
    BY <1>27 DEF InitAutoRouter, Returns
  <2>2. lists'[router'.gen] = cacheFile' /\ router'.cfg = auto'
    BY <2>1 DEF Names
  <2>3. ~raced => \A u \in Threads : pc[u] \notin {"fetch", "cache", "writeCache"}
    BY <2>1
  <2>4. UNCHANGED <<rulesFile, settingsFile>>
    BY <1>27 DEF InitAutoRouter
  <2> QED
    BY <2>1, <2>2, <2>3, <2>4
<1>28. CASE RefreshReads(t)
  BY <1>28 DEF RefreshReads, Begins, CanRead
<1>29. CASE LoadFromURL(t)
  BY <1>29 DEF LoadFromURL
<1>30. CASE FetchFails(t)
  BY <1>30 DEF FetchFails, Returns
<1>31. CASE RefreshNotes(t)
  BY <1>31 DEF RefreshNotes
<1>32. CASE WriteFails(t)
  BY <1>32 DEF WriteFails, Unlocks, Overlaps
<1>33. CASE ProxyLockLost(t)
  BY <1>33 DEF ProxyLockLost, Begins, CanRead
<1>34. CASE SaveToFile(t)
  BY <1>34 DEF SaveToFile
<1>35. CASE ListSaved(t)
  BY <1>35 DEF ListSaved
<1>36. CASE ListUnsaved(t)
  BY <1>36 DEF ListUnsaved
<1> HIDE DEF Follows, Sys
<1> QED
  BY <1>1, <1>2, <1>3, <1>4, <1>5, <1>6, <1>7, <1>8, <1>9, <1>10, <1>11, <1>12, <1>13,
     <1>14, <1>15, <1>16, <1>17, <1>18, <1>19, <1>20, <1>21, <1>22, <1>23, <1>24,
     <1>25, <1>26, <1>27, <1>28, <1>29, <1>30, <1>31, <1>32, <1>33, <1>34, <1>35, <1>36
  DEF Step, LockStep, EditStep, SaveStep, MatchStep, LoadStep, RefreshStep

LEMMA FollowsCrash == Sys /\ Follows /\ (Crash \/ Restart) => Follows'
<1> SUFFICES ASSUME Sys, Follows, Crash \/ Restart PROVE Follows'
  OBVIOUS
<1> USE DEF Follows, Up, Reloading, Rebuilt, Doing, case, ruleVars, setVars, fileVars, history, lost
<1>1. CASE Crash
  BY <1>1 DEF Crash, Sys, Aln, TypeFlags
<1>2. CASE Restart
  <2>1. \A t \in Threads : pc'[t] = "done"
    BY <1>2 DEF Restart, Sys, Lk, Places
  <2>2. crashed' = "restarted" => lists'[router'.gen] = cacheFile' /\ router'.cfg = auto' /\ rules'.groups = groups'
    BY <1>2 DEF Restart, buildRules, Set, Sys, Own, TypeData, Names
  <2>3. UNCHANGED <<rulesFile, settingsFile>> /\ crashed' \in {"restarted", "failed", "failedSaving"}
        /\ (crashed' = "failed" => Torn \in {rulesFile, settingsFile})
    BY <1>2 DEF Restart
  <2> QED
    BY <2>1, <2>2, <2>3
<1> QED
  BY <1>1, <1>2

-----------------------------------------------------------------------------
(* Who may change the rules or write their file while an operation saves them: nobody else. *)
LEMMA AtMostOne ==
  ASSUME NEW S \in SUBSET Threads, Cardinality(S) <= 1, NEW t \in S, NEW u \in S
  PROVE  t = u
<1> SUFFICES ASSUME t # u PROVE FALSE
  OBVIOUS
<1>1. IsFiniteSet(S)
  BY RuleAssumption, FS_Subset DEF RuleAssumption
<1>2. IsFiniteSet({t}) /\ Cardinality({t}) = 1
  BY FS_Singleton
<1>3. Cardinality({t} \cup {u}) = Cardinality({t}) + 1
  BY <1>2, FS_AddElement
<1>4. {t} \cup {u} \in SUBSET S
  OBVIOUS
<1> QED
  BY <1>1, <1>2, <1>3, <1>4, FS_Subset, FS_CardinalityType

Touches(u) ==
  \/ SavingRules(u)
  \/ pc[u] = "locked" /\ kind[u] \in {"group", "upstream", "import"}
  \/ kind[u] = "load" /\ u \in Busy

LEMMA RulesExclusive ==
  ASSUME Sys, RulesSafe, NEW t \in Threads, NEW u \in Threads, SavingRules(t), Touches(u)
  PROVE  t = u
<1>1. t \in Busy /\ u \in Busy
  BY DEF SavingRules, Touches, Busy
<1>2. kind[t] \in RulesKinds \cup {"load"} /\ kind[u] \in RulesKinds \cup {"load"}
  BY DEF Sys, Lk, Places, SavingRules, Touches, RulesKinds
<1>3. CASE serial
  BY <1>1, <1>3 DEF Sys, Aln, Alone
<1>4. CASE ~serial
  <2>1. ~raced
    BY <1>4 DEF RulesSafe
  <2>2. CASE kind[t] = "load" \/ kind[u] = "load"
    BY <1>1, <2>1, <2>2 DEF Sys, Aln, Alone
  <2>3. CASE kind[t] # "load" /\ kind[u] # "load" /\ Cardinality(Doing(RulesKinds)) <= 1
    <3>1. t \in Doing(RulesKinds) /\ u \in Doing(RulesKinds) /\ Doing(RulesKinds) \in SUBSET Threads
      BY <1>2, <2>3 DEF Doing
    <3> QED
      BY <2>3, <3>1, AtMostOne
  <2>4. CASE /\ kind[t] # "load" /\ kind[u] # "load"
             /\ Doing({"import"}) = {} /\ Cardinality(Doing({"listen"})) <= 1
    <3>1. kind[t] \in {"group", "upstream", "listen"} /\ kind[u] \in {"group", "upstream", "listen"}
      BY <1>2, <2>4 DEF Doing, RulesKinds
    <3>2. writer = t \/ (t \in readers /\ kind[t] = "listen")
      BY <3>1 DEF Sys, Lk, LockHeld, HoldsWrite, HoldsRead, Saving, SavingRules
    <3>3. writer = u \/ (u \in readers /\ kind[u] = "listen")
      BY <2>4, <3>1 DEF Sys, Lk, LockHeld, HoldsWrite, HoldsRead, Saving, SavingRules, Touches
    <3>4. CASE t \in readers /\ kind[t] = "listen" /\ u \in readers /\ kind[u] = "listen"
      <4>1. t \in Doing({"listen"}) /\ u \in Doing({"listen"}) /\ Doing({"listen"}) \in SUBSET Threads
        BY <3>4 DEF Doing
      <4> QED
        BY <2>4, <4>1, AtMostOne
    <3> QED
      BY <3>2, <3>3, <3>4, RuleAssumption DEF Sys, Lk, TypeLock, RuleAssumption
  <2> QED
    BY <1>4, <2>2, <2>3, <2>4 DEF RulesSafe
<1> QED
  BY <1>3, <1>4

(* The kinds stay, and a race is never forgotten. *)
LEMMA CaseStep == ASSUME NEW t \in Threads, Sys, Step(t) PROVE UNCHANGED case /\ (raced => raced')
<1> USE DEF Sys, Aln, TypeFlags, case, history, lost
<1>1. CASE WantLock(t)
  BY <1>1 DEF WantLock, Begins, Announce, CanRead
<1>2. CASE Lock(t)
  BY <1>2 DEF Lock
<1>3. CASE EditSiteGroup(t)
  BY <1>3 DEF EditSiteGroup
<1>4. CASE EditUpstream(t)
  BY <1>4 DEF EditUpstream
<1>5. CASE ImportConfigWithSummary(t)
  BY <1>5 DEF ImportConfigWithSummary
<1>6. CASE SetSetting(t)
  BY <1>6 DEF SetSetting
<1>7. CASE UpdateAutoRoutingConfig(t)
  BY <1>7 DEF UpdateAutoRoutingConfig
<1>8. CASE SaveConfig(t)
  BY <1>8 DEF SaveConfig, CanRead
<1>9. CASE saveSettingsConfig(t)
  BY <1>9 DEF saveSettingsConfig
<1>10. CASE SettingsWritten(t)
  BY <1>10 DEF SettingsWritten, Overlaps
<1>11. CASE saveRulesConfig(t)
  BY <1>11 DEF saveRulesConfig
<1>12. CASE RulesWritten(t)
  BY <1>12 DEF RulesWritten, Unlocks, Overlaps
<1>13. CASE SaveFails(t)
  BY <1>13 DEF SaveFails, Returns, Unlocks
<1>14. CASE matchRule(t)
  BY <1>14 DEF matchRule, Begins, CanRead
<1>15. CASE MatchReads(t)
  BY <1>15 DEF MatchReads
<1>16. CASE GetDNSNodes(t)
  BY <1>16 DEF GetDNSNodes, CanRead
<1>17. CASE LookupReturns(t)
  BY <1>17 DEF LookupReturns
<1>18. CASE LookupRefreshesECH(t)
  BY <1>18 DEF LookupRefreshesECH, Announce, CanRead
<1>19. CASE emitRouteEvent(t)
  BY <1>19 DEF emitRouteEvent, CanRead, Returns
<1>20. CASE loadSettingsConfig(t)
  BY <1>20 DEF loadSettingsConfig, Begins, LoadReads, Returns
<1>21. CASE LoadAssignsSettings(t)
  BY <1>21 DEF LoadAssignsSettings
<1>22. CASE loadRulesConfig(t)
  BY <1>22 DEF loadRulesConfig, LoadReads, Returns
<1>23. CASE LoadAssignsRules(t)
  BY <1>23 DEF LoadAssignsRules
<1>24. CASE LoadClearsRules(t)
  BY <1>24 DEF LoadClearsRules
<1>25. CASE LoadBuilds(t)
  BY <1>25 DEF LoadBuilds
<1>26. CASE ReloadRefused(t)
  BY <1>26 DEF ReloadRefused, Returns
<1>27. CASE InitAutoRouter(t)
  BY <1>27 DEF InitAutoRouter, Returns
<1>28. CASE RefreshReads(t)
  BY <1>28 DEF RefreshReads, Begins, CanRead
<1>29. CASE LoadFromURL(t)
  BY <1>29 DEF LoadFromURL
<1>30. CASE FetchFails(t)
  BY <1>30 DEF FetchFails, Returns
<1>31. CASE RefreshNotes(t)
  BY <1>31 DEF RefreshNotes
<1>32. CASE WriteFails(t)
  BY <1>32 DEF WriteFails, Unlocks, Overlaps
<1>33. CASE ProxyLockLost(t)
  BY <1>33 DEF ProxyLockLost, Begins, CanRead
<1>34. CASE SaveToFile(t)
  BY <1>34 DEF SaveToFile
<1>35. CASE ListSaved(t)
  BY <1>35 DEF ListSaved
<1>36. CASE ListUnsaved(t)
  BY <1>36 DEF ListUnsaved
<1> QED
  BY <1>1, <1>2, <1>3, <1>4, <1>5, <1>6, <1>7, <1>8, <1>9, <1>10, <1>11, <1>12, <1>13,
     <1>14, <1>15, <1>16, <1>17, <1>18, <1>19, <1>20, <1>21, <1>22, <1>23, <1>24,
     <1>25, <1>26, <1>27, <1>28, <1>29, <1>30, <1>31, <1>32, <1>33, <1>34, <1>35, <1>36
  DEF Step, LockStep, EditStep, SaveStep, MatchStep, LoadStep, RefreshStep

LEMMA SafeStep ==
  ASSUME NEW t \in Threads, Sys, Step(t)
  PROVE  (RulesSafe' => RulesSafe) /\ (SettingsSafe' => SettingsSafe)
<1>1. serial' = serial /\ kind' = kind /\ (raced => raced') /\ \A ks : Doing(ks)' = Doing(ks)
  BY CaseStep DEF case, Doing
<1> QED
  BY <1>1 DEF RulesSafe, SettingsSafe

LEMMA RulesStep == ASSUME NEW t \in Threads, Sys, RulesInv, Step(t) PROVE RulesInv'
<1> SUFFICES ASSUME RulesSafe' PROVE RulesMemory' /\ RulesOnDisk' /\ RulesInHand' /\ RulesFollowFile'
  BY DEF RulesInv
<1>a. RulesMemory /\ RulesOnDisk /\ RulesInHand /\ RulesFollowFile
  BY SafeStep DEF RulesInv
<1>b. \A a, b \in Threads : SavingRules(a) /\ Touches(b) => a = b
  BY SafeStep, RulesExclusive
<1>c. \A a, b \in Busy : kind[a] = "load" => a = b
  BY SafeStep DEF RulesSafe, Sys, Aln, Alone
<1> USE DEF Sys, Lk, TypeLock, Places, Own, TypeData, TypeOwn, InHand, RulesMemory, RulesOnDisk, RulesInHand,
      RulesFollowFile, KeepsRules, SavingRules, RulesSaved, Doing, Up, Touches, Busy, Current,
      At, Goto, Set, Rules, Stored, case, ruleVars, setVars, fileVars, history, lost
<1>1. CASE WantLock(t)
  BY <1>1, <1>a, <1>b DEF WantLock, Begins, Announce, CanRead
<1>2. CASE Lock(t)
  BY <1>2, <1>a, <1>b DEF Lock
<1>3. CASE EditSiteGroup(t)
  <2>1. ~\E u \in Threads : SavingRules(u) \/ (kind[u] = "load" /\ pc[u] \in {"clear", "build"})
    BY <1>3, <1>b, <1>c DEF EditSiteGroup
  <2>2. /\ UNCHANGED <<case, rulesFile, snap, mixed, acked, broken, crashed>> /\ crashed = "no"
        /\ groups \subseteq groups' /\ upstreams \subseteq upstreams'
        /\ kind[t] \in {"group", "import"} => t \in groups'
        /\ kind[t] = "upstream" => t \in upstreams'
    BY <1>3 DEF EditSiteGroup
  <2>3. /\ pc'[t] = "saveRules" /\ pc[t] = "locked" /\ kind[t] # "load"
        /\ \A u \in Threads : u # t => pc'[u] = pc[u]
    BY <1>3 DEF EditSiteGroup
  <2>4. RulesMemory'
    BY <1>a, <2>1, <2>2, <2>3
  <2>5. RulesOnDisk'
    BY <1>a, <2>1, <2>2, <2>3
  <2>6. RulesInHand'
    BY <1>a, <2>1, <2>2, <2>3
  <2>7. RulesFollowFile'
    BY <2>3
  <2> QED
    BY <2>4, <2>5, <2>6, <2>7
<1>4. CASE EditUpstream(t)
  <2>1. ~\E u \in Threads : SavingRules(u) \/ (kind[u] = "load" /\ pc[u] \in {"clear", "build"})
    BY <1>4, <1>b, <1>c DEF EditUpstream
  <2>2. /\ UNCHANGED <<case, rulesFile, snap, mixed, acked, broken, crashed>> /\ crashed = "no"
        /\ groups \subseteq groups' /\ upstreams \subseteq upstreams'
        /\ kind[t] \in {"group", "import"} => t \in groups'
        /\ kind[t] = "upstream" => t \in upstreams'
    BY <1>4 DEF EditUpstream
  <2>3. /\ pc'[t] = "saveRules" /\ pc[t] = "locked" /\ kind[t] # "load"
        /\ \A u \in Threads : u # t => pc'[u] = pc[u]
    BY <1>4 DEF EditUpstream
  <2>4. RulesMemory'
    BY <1>a, <2>1, <2>2, <2>3
  <2>5. RulesOnDisk'
    BY <1>a, <2>1, <2>2, <2>3
  <2>6. RulesInHand'
    BY <1>a, <2>1, <2>2, <2>3
  <2>7. RulesFollowFile'
    BY <2>3
  <2> QED
    BY <2>4, <2>5, <2>6, <2>7
<1>5. CASE ImportConfigWithSummary(t)
  <2>1. ~\E u \in Threads : SavingRules(u) \/ (kind[u] = "load" /\ pc[u] \in {"clear", "build"})
    BY <1>5, <1>b, <1>c DEF ImportConfigWithSummary
  <2>2. /\ UNCHANGED <<case, rulesFile, snap, mixed, acked, broken, crashed>> /\ crashed = "no"
        /\ groups \subseteq groups' /\ upstreams \subseteq upstreams'
        /\ kind[t] \in {"group", "import"} => t \in groups'
        /\ kind[t] = "upstream" => t \in upstreams'
    BY <1>5 DEF ImportConfigWithSummary
  <2>3. /\ pc'[t] = "saveRules" /\ pc[t] = "locked" /\ kind[t] # "load"
        /\ \A u \in Threads : u # t => pc'[u] = pc[u]
    BY <1>5 DEF ImportConfigWithSummary
  <2>4. RulesMemory'
    BY <1>a, <2>1, <2>2, <2>3
  <2>5. RulesOnDisk'
    BY <1>a, <2>1, <2>2, <2>3
  <2>6. RulesInHand'
    BY <1>a, <2>1, <2>2, <2>3
  <2>7. RulesFollowFile'
    BY <2>3
  <2> QED
    BY <2>4, <2>5, <2>6, <2>7
<1>6. CASE SetSetting(t)
  BY <1>6, <1>a, <1>b DEF SetSetting
<1>7. CASE UpdateAutoRoutingConfig(t)
  BY <1>7, <1>a, <1>b DEF UpdateAutoRoutingConfig
<1>8. CASE SaveConfig(t)
  BY <1>8, <1>a, <1>b DEF SaveConfig, CanRead
<1>9. CASE saveSettingsConfig(t)
  BY <1>9, <1>a, <1>b DEF saveSettingsConfig
<1>10. CASE SettingsWritten(t)
  <2>1. /\ UNCHANGED <<case, groups, upstreams, rules, rulesFile, crashed>> /\ crashed = "no"
        /\ acked \subseteq acked' /\ acked' \subseteq acked \cup {t}
        /\ pc[t] = "writeSettings" /\ kind[t] \in SettingsKinds
        /\ \A u \in mixed' : u \in mixed \/ pc[u] = "writeSettings"
        /\ ("rules" \in broken <=> "rules" \in broken')
    BY <1>10 DEF SettingsWritten, Overlaps
  <2>2. /\ \A u \in Threads : u # t => pc'[u] = pc[u] /\ snap'[u] = snap[u]
        /\ (pc'[t] = "saveRules" /\ kind[t] = "listen") \/ (pc'[t] = "done" /\ t \in acked')
    BY <1>10 DEF SettingsWritten, Overlaps
  <2>3. t \notin mixed'
    BY <1>10 DEF SettingsWritten, Overlaps
  <2> USE DEF SettingsKinds
  <2>4. RulesMemory'
    BY <1>a, <2>1, <2>2
  <2>5. RulesOnDisk'
    BY <1>a, <2>1, <2>2
  <2>6. RulesInHand'
    BY <1>a, <2>1, <2>2, <2>3
  <2>7. RulesFollowFile'
    BY <1>a, <2>1, <2>2
  <2> QED
    BY <2>4, <2>5, <2>6, <2>7
<1>11. CASE saveRulesConfig(t)
  BY <1>11, <1>a, <1>b DEF saveRulesConfig
<1>12. CASE RulesWritten(t)
  <2>1. /\ UNCHANGED <<case, groups, upstreams, rules, crashed>> /\ crashed = "no"
        /\ rulesFile' = Current /\ pc[t] = "writeRules" /\ pc'[t] \in {"listen", "done"}
        /\ \A u \in Threads : u # t => pc'[u] = pc[u] /\ snap'[u] = snap[u]
    BY <1>12, <1>a DEF RulesWritten, Overlaps
  <2>2. acked \subseteq acked' /\ acked' \subseteq acked \cup {t} /\ (pc'[t] = "done" => t \in acked')
    BY <1>12 DEF RulesWritten, Overlaps
  <2>3. \A u \in Threads : ~SavingRules(u)'
    BY <1>b, <2>1
  <2>4. \A u \in Threads : u # t => ~(kind[u] = "load" /\ pc[u] \notin {"new", "done"})
    BY <1>b, <2>1
  <2>5. RulesMemory'
    BY <1>a, <2>1, <2>2, <2>3
  <2>6. RulesOnDisk'
    BY <1>a, <2>1, <2>2, RuleAssumption DEF RuleAssumption
  <2>7. RulesInHand'
    BY <2>1, <2>3, <2>4
  <2>8. RulesFollowFile'
    BY <2>1
  <2> QED
    BY <2>5, <2>6, <2>7, <2>8
<1>13. CASE SaveFails(t)
  <2>1. /\ UNCHANGED <<case, groups, upstreams, rules, rulesFile, acked, broken, crashed>> /\ crashed = "no"
        /\ mixed' \subseteq mixed /\ pc[t] \in {"saveSettings", "saveRules"}
        /\ \A u \in Threads : u # t => pc'[u] = pc[u] /\ snap'[u] = snap[u]
    BY <1>13 DEF SaveFails, Returns
  <2>2. /\ kind[t] = "load" => pc[t] = "saveRules" /\ pc'[t] = "listen"
        /\ kind[t] # "load" => pc'[t] = "done"
        /\ pc[t] = "saveRules" => kind[t] \in RulesKinds \cup {"load"}
    BY <1>13 DEF SaveFails, Returns, SettingsKinds
  <2>3. RulesMemory'
    BY <1>a, <2>1, <2>2
  <2>4. RulesOnDisk'
    BY <1>a, <2>1, <2>2
  <2>5. RulesInHand'
    BY <1>a, <2>1, <2>2
  <2>6. RulesFollowFile'
    <3> SUFFICES ASSUME RulesSaved'
                 PROVE  rulesFile' = Current' \/ "rules" \in broken' \/ \E u \in Threads : SavingRules(u)'
      OBVIOUS
    <3>1. RulesSaved
      BY <2>1
    <3>2. t \notin acked
      BY <2>1
    <3>3. CASE kind[t] = "load"
      BY <1>a, <2>1, <2>2, <3>3
    <3>4. CASE kind[t] # "load"
      <4>1. kind[t] \notin RulesKinds
        BY <2>1, <2>2, <3>2, <3>4
      <4>2. pc[t] = "saveSettings"
        BY <2>1, <2>2, <3>4, <4>1
      <4>3. \A u \in Threads : SavingRules(u) => SavingRules(u)'
        BY <2>1, <4>2
      <4> QED
        BY <1>a, <2>1, <3>1, <4>3
    <3> QED
      BY <3>3, <3>4
  <2> QED
    BY <2>3, <2>4, <2>5, <2>6
<1>14. CASE matchRule(t)
  BY <1>14, <1>a, <1>b DEF matchRule, Begins, CanRead
<1>15. CASE MatchReads(t)
  BY <1>15, <1>a, <1>b DEF MatchReads
<1>16. CASE GetDNSNodes(t)
  BY <1>16, <1>a, <1>b DEF GetDNSNodes, CanRead
<1>17. CASE LookupReturns(t)
  BY <1>17, <1>a, <1>b DEF LookupReturns
<1>18. CASE LookupRefreshesECH(t)
  BY <1>18, <1>a, <1>b DEF LookupRefreshesECH, Announce, CanRead
<1>19. CASE emitRouteEvent(t)
  BY <1>19, <1>a, <1>b DEF emitRouteEvent, CanRead, Returns
<1>20. CASE loadSettingsConfig(t)
  BY <1>20, <1>a, <1>b DEF loadSettingsConfig, Begins, LoadReads, Returns
<1>21. CASE LoadAssignsSettings(t)
  BY <1>21, <1>a, <1>b DEF LoadAssignsSettings
<1>22. CASE loadRulesConfig(t)
  BY <1>22, <1>a, <1>b DEF loadRulesConfig, LoadReads, Returns
<1>23. CASE LoadAssignsRules(t)
  BY <1>23, <1>a, <1>b, RuleAssumption DEF LoadAssignsRules, RuleAssumption
<1>24. CASE LoadClearsRules(t)
  BY <1>24, <1>a, <1>b DEF LoadClearsRules
<1>25. CASE LoadBuilds(t)
  BY <1>25, <1>a, <1>b DEF LoadBuilds, buildRules
<1>26. CASE ReloadRefused(t)
  BY <1>26, <1>a, <1>b DEF ReloadRefused, Returns
<1>27. CASE InitAutoRouter(t)
  BY <1>27, <1>a, <1>b DEF InitAutoRouter, Returns
<1>28. CASE RefreshReads(t)
  BY <1>28, <1>a, <1>b DEF RefreshReads, Begins, CanRead
<1>29. CASE LoadFromURL(t)
  BY <1>29, <1>a, <1>b DEF LoadFromURL
<1>30. CASE FetchFails(t)
  BY <1>30, <1>a, <1>b DEF FetchFails, Returns
<1>31. CASE RefreshNotes(t)
  BY <1>31, <1>a, <1>b DEF RefreshNotes
<1>32. CASE WriteFails(t)
  BY <1>32, <1>a, <1>b DEF WriteFails, Unlocks, Overlaps
<1>33. CASE ProxyLockLost(t)
  BY <1>33, <1>a, <1>b DEF ProxyLockLost, Begins, CanRead
<1>34. CASE SaveToFile(t)
  BY <1>34, <1>a, <1>b DEF SaveToFile
<1>35. CASE ListSaved(t)
  BY <1>35, <1>a, <1>b DEF ListSaved
<1>36. CASE ListUnsaved(t)
  BY <1>36, <1>a, <1>b DEF ListUnsaved
<1> HIDE DEF Sys, RulesMemory, RulesOnDisk, RulesInHand, RulesFollowFile
<1> QED
  BY <1>1, <1>2, <1>3, <1>4, <1>5, <1>6, <1>7, <1>8, <1>9, <1>10, <1>11, <1>12, <1>13,
     <1>14, <1>15, <1>16, <1>17, <1>18, <1>19, <1>20, <1>21, <1>22, <1>23, <1>24,
     <1>25, <1>26, <1>27, <1>28, <1>29, <1>30, <1>31, <1>32, <1>33, <1>34, <1>35, <1>36
  DEF Step, LockStep, EditStep, SaveStep, MatchStep, LoadStep, RefreshStep

-----------------------------------------------------------------------------
(* One operation on the settings runs at a time, and no reload beside it. *)
LEMMA SettingsExclusive ==
  ASSUME Sys, SettingsSafe, NEW t \in Busy, NEW u \in Busy,
         kind[t] \in SettingsKinds, kind[u] \in SettingsKinds \cup {"load"}
  PROVE  t = u
<1>1. CASE serial
  BY <1>1 DEF Sys, Aln, Alone
<1>2. CASE ~serial /\ kind[u] = "load"
  BY <1>2 DEF SettingsSafe, Sys, Aln, Alone
<1>3. CASE ~serial /\ kind[u] # "load"
  <2>1. t \in Doing(SettingsKinds) /\ u \in Doing(SettingsKinds) /\ Doing(SettingsKinds) \in SUBSET Threads
    BY <1>3 DEF Doing, Busy
  <2> QED
    BY <1>3, <2>1, AtMostOne DEF SettingsSafe
<1> QED
  BY <1>1, <1>2, <1>3

LEMMA SettingsStep == ASSUME NEW t \in Threads, Sys, SettingsInv, Step(t) PROVE SettingsInv'
<1> SUFFICES ASSUME SettingsSafe' PROVE SettingsMemory' /\ SettingsOnDisk' /\ SettingsInHand' /\ SettingsFollowFile'
  BY DEF SettingsInv
<1>a. SettingsMemory /\ SettingsOnDisk /\ SettingsInHand /\ SettingsFollowFile
  BY SafeStep DEF SettingsInv
<1>b. \A a, b \in Busy : kind[a] \in SettingsKinds /\ kind[b] \in SettingsKinds \cup {"load"} => a = b
  BY SafeStep, SettingsExclusive
<1>c. \A a, b \in Busy : kind[a] = "load" => a = b
  BY SafeStep DEF SettingsSafe, Sys, Aln, Alone
<1> USE DEF Sys, Lk, TypeLock, Places, Own, TypeData, TypeOwn, InHand, SettingsMemory, SettingsOnDisk, SettingsInHand,
      SettingsFollowFile, KeepsSettings, SavingSettings, SavingRules, SettingsSaved, Doing, Up, Busy, CurrentSettings,
      SettingsKinds, At, Goto, Set, Rules, Stored, case, ruleVars, setVars, fileVars, history, lost
<1>1. CASE WantLock(t)
  BY <1>1, <1>a, <1>b, <1>c DEF WantLock, Begins, Announce, CanRead
<1>2. CASE Lock(t)
  BY <1>2, <1>a, <1>b, <1>c DEF Lock
<1>3. CASE EditSiteGroup(t)
  BY <1>3, <1>a, <1>b, <1>c DEF EditSiteGroup
<1>4. CASE EditUpstream(t)
  BY <1>4, <1>a, <1>b, <1>c DEF EditUpstream
<1>5. CASE ImportConfigWithSummary(t)
  BY <1>5, <1>a, <1>b, <1>c DEF ImportConfigWithSummary
<1>6. CASE SetSetting(t)
  BY <1>6, <1>a, <1>b, <1>c DEF SetSetting
<1>7. CASE UpdateAutoRoutingConfig(t)
  BY <1>7, <1>a, <1>b, <1>c DEF UpdateAutoRoutingConfig
<1>8. CASE SaveConfig(t)
  BY <1>8, <1>a, <1>b, <1>c DEF SaveConfig, CanRead
<1>9. CASE saveSettingsConfig(t)
  BY <1>9, <1>a, <1>b, <1>c DEF saveSettingsConfig
<1>10. CASE SettingsWritten(t)
  <2>1. /\ UNCHANGED <<case, settings, auto, router, crashed>> /\ crashed = "no"
        /\ settingsFile' = CurrentSettings /\ pc[t] = "writeSettings" /\ kind[t] \in SettingsKinds
        /\ (pc'[t] = "saveRules" /\ kind[t] = "listen") \/ pc'[t] = "done"
        /\ \A u \in Threads : u # t => pc'[u] = pc[u] /\ snap'[u] = snap[u]
    BY <1>10, <1>a DEF SettingsWritten, Overlaps
  <2>2. acked \subseteq acked' /\ acked' \subseteq acked \cup {t} /\ (pc'[t] = "done" => t \in acked')
    BY <1>10 DEF SettingsWritten, Overlaps
  <2>3. \A u \in Threads : u # t => ~(kind[u] \in SettingsKinds \cup {"load"} /\ pc[u] \notin {"new", "done"})
    BY <1>b, <2>1
  <2>4. SettingsMemory'
    BY <1>a, <2>1, <2>2, <2>3
  <2>5. SettingsOnDisk'
    BY <1>a, <2>1, <2>2, <2>3, RuleAssumption DEF RuleAssumption
  <2>6. SettingsInHand'
    BY <2>1, <2>3
  <2>7. SettingsFollowFile'
    BY <2>1
  <2> QED
    BY <2>4, <2>5, <2>6, <2>7
<1>11. CASE saveRulesConfig(t)
  BY <1>11, <1>a, <1>b, <1>c DEF saveRulesConfig
<1>12. CASE RulesWritten(t)
  <2>1. /\ UNCHANGED <<case, settings, auto, router, settingsFile, crashed>> /\ crashed = "no"
        /\ pc[t] = "writeRules" /\ pc'[t] \in {"listen", "done"}
        /\ \A u \in Threads : u # t => pc'[u] = pc[u] /\ snap'[u] = snap[u]
        /\ \A u \in mixed' : u \in mixed \/ pc[u] = "writeRules"
        /\ ("settings" \in broken <=> "settings" \in broken')
    BY <1>12 DEF RulesWritten, Overlaps
  <2>2. acked \subseteq acked' /\ acked' \subseteq acked \cup {t} /\ (pc'[t] = "done" => t \in acked')
    BY <1>12 DEF RulesWritten, Overlaps
  <2>3. SettingsMemory'
    BY <1>a, <2>1, <2>2
  <2>4. SettingsOnDisk'
    BY <1>a, <2>1, <2>2 DEF RulesKinds
  <2>5. SettingsInHand'
    BY <1>a, <2>1
  <2>6. SettingsFollowFile'
    BY <1>a, <2>1, <2>2
  <2> QED
    BY <2>3, <2>4, <2>5, <2>6
<1>13. CASE SaveFails(t)
  BY <1>13, <1>a, <1>b, <1>c DEF SaveFails, Returns, Unlocks
<1>14. CASE matchRule(t)
  BY <1>14, <1>a, <1>b, <1>c DEF matchRule, Begins, CanRead
<1>15. CASE MatchReads(t)
  BY <1>15, <1>a, <1>b, <1>c DEF MatchReads
<1>16. CASE GetDNSNodes(t)
  BY <1>16, <1>a, <1>b, <1>c DEF GetDNSNodes, CanRead
<1>17. CASE LookupReturns(t)
  BY <1>17, <1>a, <1>b, <1>c DEF LookupReturns
<1>18. CASE LookupRefreshesECH(t)
  BY <1>18, <1>a, <1>b, <1>c DEF LookupRefreshesECH, Announce, CanRead
<1>19. CASE emitRouteEvent(t)
  BY <1>19, <1>a, <1>b, <1>c DEF emitRouteEvent, CanRead, Returns
<1>20. CASE loadSettingsConfig(t)
  BY <1>20, <1>a, <1>b, <1>c DEF loadSettingsConfig, Begins, LoadReads, Returns
<1>21. CASE LoadAssignsSettings(t)
  BY <1>21, <1>a, <1>b, <1>c, RuleAssumption DEF LoadAssignsSettings, RuleAssumption
<1>22. CASE loadRulesConfig(t)
  BY <1>22, <1>a, <1>b, <1>c DEF loadRulesConfig, LoadReads, Returns
<1>23. CASE LoadAssignsRules(t)
  BY <1>23, <1>a, <1>b, <1>c DEF LoadAssignsRules
<1>24. CASE LoadClearsRules(t)
  BY <1>24, <1>a, <1>b, <1>c DEF LoadClearsRules
<1>25. CASE LoadBuilds(t)
  BY <1>25, <1>a, <1>b, <1>c DEF LoadBuilds
<1>26. CASE ReloadRefused(t)
  BY <1>26, <1>a, <1>b, <1>c DEF ReloadRefused, Returns
<1>27. CASE InitAutoRouter(t)
  BY <1>27, <1>a, <1>b, <1>c DEF InitAutoRouter, Returns
<1>28. CASE RefreshReads(t)
  BY <1>28, <1>a, <1>b, <1>c DEF RefreshReads, Begins, CanRead
<1>29. CASE LoadFromURL(t)
  BY <1>29, <1>a, <1>b, <1>c DEF LoadFromURL
<1>30. CASE FetchFails(t)
  BY <1>30, <1>a, <1>b, <1>c DEF FetchFails, Returns
<1>31. CASE RefreshNotes(t)
  BY <1>31, <1>a, <1>b, <1>c DEF RefreshNotes
<1>32. CASE WriteFails(t)
  BY <1>32, <1>a, <1>b, <1>c DEF WriteFails, Unlocks, Overlaps
<1>33. CASE ProxyLockLost(t)
  BY <1>33, <1>a, <1>b, <1>c DEF ProxyLockLost, Begins, CanRead
<1>34. CASE SaveToFile(t)
  BY <1>34, <1>a, <1>b, <1>c DEF SaveToFile
<1>35. CASE ListSaved(t)
  BY <1>35, <1>a, <1>b, <1>c DEF ListSaved
<1>36. CASE ListUnsaved(t)
  BY <1>36, <1>a, <1>b, <1>c DEF ListUnsaved
<1> HIDE DEF Sys, SettingsMemory, SettingsOnDisk, SettingsInHand, SettingsFollowFile
<1> QED
  BY <1>1, <1>2, <1>3, <1>4, <1>5, <1>6, <1>7, <1>8, <1>9, <1>10, <1>11, <1>12, <1>13,
     <1>14, <1>15, <1>16, <1>17, <1>18, <1>19, <1>20, <1>21, <1>22, <1>23, <1>24,
     <1>25, <1>26, <1>27, <1>28, <1>29, <1>30, <1>31, <1>32, <1>33, <1>34, <1>35, <1>36
  DEF Step, LockStep, EditStep, SaveStep, MatchStep, LoadStep, RefreshStep

-----------------------------------------------------------------------------
(* The crash and the start after it, which reads both files. *)
LEMMA RulesCrash == Sys /\ RulesInv /\ (Crash \/ Restart) => RulesInv'
<1> SUFFICES ASSUME Sys, RulesInv, Crash \/ Restart, RulesSafe'
             PROVE  RulesMemory' /\ RulesOnDisk' /\ RulesInHand' /\ RulesFollowFile'
  BY DEF RulesInv
<1>1. UNCHANGED <<case, acked, rulesFile, broken>> /\ RulesSafe
  BY DEF Crash, Restart, case, fileVars, history, lost, RulesSafe, Doing
<1>2. RulesMemory /\ RulesOnDisk
  BY <1>1 DEF RulesInv
<1>3. \A t \in Threads : pc'[t] = "done"
  BY DEF Crash, Restart, Sys, Lk, Places
<1>4. crashed' # "no"
  BY DEF Crash, Restart
<1>5. RulesInHand' /\ RulesFollowFile'
  BY <1>3, <1>4 DEF RulesInHand, RulesFollowFile
<1>6. CASE Crash
  <2>1. ~Up' /\ crashed' \in {"down", "downSaving"}
    BY <1>6 DEF Crash, Up
  <2>2. crashed' \in {"down", "failed"} => rulesFile # Torn \/ "rules" \in broken
    BY <1>2, <1>6 DEF Crash, RulesOnDisk
  <2> QED
    BY <1>1, <1>2, <1>3, <1>4, <1>5, <2>1, <2>2
    DEF RulesMemory, RulesOnDisk, KeepsRules, SavingRules, case
<1>7. CASE Restart
  <2>1. RulesOnDisk'
    BY <1>1, <1>2, <1>4, <1>7 DEF Restart, RulesOnDisk, KeepsRules, case
  <2>2. Up' => rulesFile # Torn /\ groups' = rulesFile.groups /\ upstreams' = rulesFile.upstreams
    BY <1>7 DEF Restart, Up
  <2>3. RulesMemory'
    BY <1>1, <1>2, <1>3, <2>2 DEF RulesMemory, RulesOnDisk, KeepsRules, SavingRules, Current, case
  <2> QED
    BY <1>5, <2>1, <2>3
<1> QED
  BY <1>6, <1>7

LEMMA SettingsCrash == Sys /\ SettingsInv /\ (Crash \/ Restart) => SettingsInv'
<1> SUFFICES ASSUME Sys, SettingsInv, Crash \/ Restart, SettingsSafe'
             PROVE  SettingsMemory' /\ SettingsOnDisk' /\ SettingsInHand' /\ SettingsFollowFile'
  BY DEF SettingsInv
<1>1. UNCHANGED <<case, acked, settingsFile, broken>> /\ SettingsSafe
  BY DEF Crash, Restart, case, fileVars, history, lost, SettingsSafe, Doing
<1>2. SettingsMemory /\ SettingsOnDisk
  BY <1>1 DEF SettingsInv
<1>3. \A t \in Threads : pc'[t] = "done"
  BY DEF Crash, Restart, Sys, Lk, Places
<1>4. crashed' # "no"
  BY DEF Crash, Restart
<1>5. SettingsInHand' /\ SettingsFollowFile'
  BY <1>3, <1>4 DEF SettingsInHand, SettingsFollowFile
<1>6. CASE Crash
  <2>1. ~Up' /\ crashed' \in {"down", "downSaving"}
    BY <1>6 DEF Crash, Up
  <2>2. crashed' \in {"down", "failed"} => settingsFile # Torn \/ "settings" \in broken
    BY <1>2, <1>6 DEF Crash, SettingsOnDisk
  <2> QED
    BY <1>1, <1>2, <1>3, <1>4, <1>5, <2>1, <2>2
    DEF SettingsMemory, SettingsOnDisk, KeepsSettings, SavingRules, SavingSettings, case
<1>7. CASE Restart
  <2>1. SettingsOnDisk'
    BY <1>1, <1>2, <1>3, <1>4, <1>7 DEF Restart, SettingsOnDisk, KeepsSettings, SavingRules, case
  <2>2. Up' => settingsFile # Torn /\ settings' = settingsFile.settings
    BY <1>7 DEF Restart, Up
  <2>3. SettingsMemory'
    BY <1>1, <1>2, <1>3, <2>2
    DEF SettingsMemory, SettingsOnDisk, KeepsSettings, SavingRules, SavingSettings, CurrentSettings, case
  <2> QED
    BY <1>5, <2>1, <2>3
<1> QED
  BY <1>6, <1>7

-----------------------------------------------------------------------------
(* The matches. *)
LEMMA MatchKept ==
  ASSUME Sys, MatchInv, UNCHANGED <<case, matchVars>>, acked \subseteq acked', RulesSafe' => RulesSafe,
         \A u \in Threads : pc'[u] = "new" => pc[u] = "new"
  PROVE  MatchInv'
BY DEF MatchInv, MatchComplete, case, matchVars

LEMMA MatchesStep == ASSUME NEW t \in Threads, Sys, Follows, RulesInv, MatchInv, Step(t) PROVE MatchInv'
<1>a. RulesSafe' => RulesSafe
  BY SafeStep
<1> USE DEF Sys, Lk, TypeLock, Own, TypeOwn, MatchInv, At, Goto, Set, case, matchVars, history, lost
<1>1. CASE WantLock(t)
  BY <1>1, <1>a, MatchKept DEF WantLock, Begins, Announce, CanRead
<1>2. CASE Lock(t)
  BY <1>2, <1>a, MatchKept DEF Lock
<1>3. CASE EditSiteGroup(t)
  BY <1>3, <1>a, MatchKept DEF EditSiteGroup
<1>4. CASE EditUpstream(t)
  BY <1>4, <1>a, MatchKept DEF EditUpstream
<1>5. CASE ImportConfigWithSummary(t)
  BY <1>5, <1>a, MatchKept DEF ImportConfigWithSummary
<1>6. CASE SetSetting(t)
  BY <1>6, <1>a, MatchKept DEF SetSetting
<1>7. CASE UpdateAutoRoutingConfig(t)
  BY <1>7, <1>a, MatchKept DEF UpdateAutoRoutingConfig
<1>8. CASE SaveConfig(t)
  BY <1>8, <1>a, MatchKept DEF SaveConfig, CanRead
<1>9. CASE saveSettingsConfig(t)
  BY <1>9, <1>a, MatchKept DEF saveSettingsConfig
<1>10. CASE SettingsWritten(t)
  BY <1>10, <1>a, MatchKept DEF SettingsWritten, Overlaps
<1>11. CASE saveRulesConfig(t)
  BY <1>11, <1>a, MatchKept DEF saveRulesConfig
<1>12. CASE RulesWritten(t)
  BY <1>12, <1>a, MatchKept DEF RulesWritten, Unlocks, Overlaps
<1>13. CASE SaveFails(t)
  BY <1>13, <1>a, MatchKept DEF SaveFails, Returns, Unlocks
<1>14. CASE matchRule(t)
  <2>1. pc[t] = "new" /\ pc'[t] = "matching" /\ UNCHANGED <<case, result, acked>>
    BY <1>14 DEF matchRule, Begins
  <2>2. known' = [known EXCEPT ![t] = {u \in acked : kind[u] \in {"group", "import"}}]
    BY <1>14 DEF matchRule
  <2>3. \A u \in Threads : u # t => pc'[u] = pc[u]
    BY <1>14 DEF matchRule
  <2>4. ASSUME RulesSafe', NEW u \in Threads, result'[u] # None PROVE known'[u] \cup {Base} \subseteq result'[u].groups
    BY <2>1, <2>2, <2>4, SafeStep DEF MatchComplete
  <2> QED
    BY <2>1, <2>2, <2>3, <2>4 DEF MatchComplete
<1>15. CASE MatchReads(t)
  <2>1. /\ t \in Busy /\ kind[t] = "match" /\ crashed = "no" /\ pc[t] = "matching"
        /\ result' = [result EXCEPT ![t] = rules] /\ UNCHANGED <<case, known, acked>>
        /\ \A u \in Threads : u # t => pc'[u] = pc[u]
        /\ pc'[t] # "new"
    BY <1>15 DEF MatchReads, Busy, Places
  <2>2. ASSUME RulesSafe' PROVE known[t] \cup {Base} \subseteq rules.groups
    <3>1. RulesSafe
      BY <2>2, SafeStep
    <3>2. \A u \in Threads : pc[u] \notin {"clear", "build"}
      BY <2>1, <3>1 DEF RulesSafe, Aln, Alone, Busy, Places
    <3>3. rules.groups = groups
      BY <2>1, <3>1, <3>2 DEF Follows, Up, Rebuilt, RulesSafe, Aln, Alone
    <3>4. KeepsRules(Current)
      BY <2>1, <3>1 DEF RulesInv, RulesMemory, Up
    <3> QED
      BY <3>3, <3>4 DEF KeepsRules, Current
  <2>3. ASSUME RulesSafe', NEW u \in Threads, result'[u] # None PROVE known'[u] \cup {Base} \subseteq result'[u].groups
    BY <2>1, <2>2, <2>3, SafeStep DEF MatchComplete
  <2> QED
    BY <2>1, <2>3 DEF MatchComplete
<1>16. CASE GetDNSNodes(t)
  BY <1>16, <1>a, MatchKept DEF GetDNSNodes, CanRead
<1>17. CASE LookupReturns(t)
  BY <1>17, <1>a, MatchKept DEF LookupReturns
<1>18. CASE LookupRefreshesECH(t)
  BY <1>18, <1>a, MatchKept DEF LookupRefreshesECH, Announce, CanRead
<1>19. CASE emitRouteEvent(t)
  BY <1>19, <1>a, MatchKept DEF emitRouteEvent, CanRead, Returns
<1>20. CASE loadSettingsConfig(t)
  BY <1>20, <1>a, MatchKept DEF loadSettingsConfig, Begins, LoadReads, Returns
<1>21. CASE LoadAssignsSettings(t)
  BY <1>21, <1>a, MatchKept DEF LoadAssignsSettings
<1>22. CASE loadRulesConfig(t)
  BY <1>22, <1>a, MatchKept DEF loadRulesConfig, LoadReads, Returns
<1>23. CASE LoadAssignsRules(t)
  BY <1>23, <1>a, MatchKept DEF LoadAssignsRules
<1>24. CASE LoadClearsRules(t)
  BY <1>24, <1>a, MatchKept DEF LoadClearsRules
<1>25. CASE LoadBuilds(t)
  BY <1>25, <1>a, MatchKept DEF LoadBuilds
<1>26. CASE ReloadRefused(t)
  BY <1>26, <1>a, MatchKept DEF ReloadRefused, Returns
<1>27. CASE InitAutoRouter(t)
  BY <1>27, <1>a, MatchKept DEF InitAutoRouter, Returns
<1>28. CASE RefreshReads(t)
  BY <1>28, <1>a, MatchKept DEF RefreshReads, Begins, CanRead
<1>29. CASE LoadFromURL(t)
  BY <1>29, <1>a, MatchKept DEF LoadFromURL
<1>30. CASE FetchFails(t)
  BY <1>30, <1>a, MatchKept DEF FetchFails, Returns
<1>31. CASE RefreshNotes(t)
  BY <1>31, <1>a, MatchKept DEF RefreshNotes
<1>32. CASE WriteFails(t)
  BY <1>32, <1>a, MatchKept DEF WriteFails, Unlocks, Overlaps
<1>33. CASE ProxyLockLost(t)
  BY <1>33, <1>a, MatchKept DEF ProxyLockLost, Begins, CanRead
<1>34. CASE SaveToFile(t)
  BY <1>34, <1>a, MatchKept DEF SaveToFile
<1>35. CASE ListSaved(t)
  BY <1>35, <1>a, MatchKept DEF ListSaved
<1>36. CASE ListUnsaved(t)
  BY <1>36, <1>a, MatchKept DEF ListUnsaved
<1> HIDE DEF Sys, MatchInv
<1> QED
  BY <1>1, <1>2, <1>3, <1>4, <1>5, <1>6, <1>7, <1>8, <1>9, <1>10, <1>11, <1>12, <1>13,
     <1>14, <1>15, <1>16, <1>17, <1>18, <1>19, <1>20, <1>21, <1>22, <1>23, <1>24,
     <1>25, <1>26, <1>27, <1>28, <1>29, <1>30, <1>31, <1>32, <1>33, <1>34, <1>35, <1>36
  DEF Step, LockStep, EditStep, SaveStep, MatchStep, LoadStep, RefreshStep

LEMMA MatchCrash == Sys /\ MatchInv /\ (Crash \/ Restart) => MatchInv'
<1> SUFFICES ASSUME Sys, MatchInv, Crash \/ Restart PROVE MatchInv'
  OBVIOUS
<1>1. CASE Crash
  BY <1>1 DEF Crash, MatchInv, MatchComplete
<1>2. CASE Restart
  <2>1. UNCHANGED <<case, pc, matchVars, history>>
    BY <1>2 DEF Restart
  <2>2. RulesSafe' => RulesSafe
    BY <2>1 DEF RulesSafe, Doing, case, history
  <2> QED
    BY <2>1, <2>2, MatchKept DEF history
<1> QED
  BY <1>1, <1>2

-----------------------------------------------------------------------------
IInv == Sys /\ Follows /\ RulesInv /\ SettingsInv /\ MatchInv

LEMMA IInvInit == Init => IInv
<1> SUFFICES ASSUME Init PROVE IInv
  OBVIOUS
<1>1. RulesInv
  BY RuleAssumption
  DEF Init, RulesInv, RulesMemory, RulesOnDisk, RulesInHand, RulesFollowFile, KeepsRules, Current, SavingRules,
      BaseRules, Rules, Names, RuleAssumption
<1>2. SettingsInv
  BY RuleAssumption
  DEF Init, SettingsInv, SettingsMemory, SettingsOnDisk, SettingsInHand, SettingsFollowFile, KeepsSettings,
      CurrentSettings, SavingSettings, SavingRules, BaseSettings, Stored, Names, RuleAssumption
<1>3. MatchInv
  BY DEF Init, MatchInv, MatchComplete
<1> QED
  BY <1>1, <1>2, <1>3, SysInit, FollowsInit DEF IInv

LEMMA IInvStep == IInv /\ [Next]_vars => IInv'
<1> SUFFICES ASSUME IInv, [Next]_vars PROVE IInv'
  OBVIOUS
<1>0. Sys'
  BY SysStep DEF IInv
<1>1. ASSUME NEW t \in Threads, Step(t) PROVE IInv'
  BY <1>0, <1>1, FollowsStep, RulesStep, SettingsStep, MatchesStep DEF IInv
<1>2. CASE Crash \/ Restart
  BY <1>0, <1>2, FollowsCrash, RulesCrash, SettingsCrash, MatchCrash DEF IInv
<1>3. CASE UNCHANGED vars
  <2> USE <1>3 DEF IInv, vars, case, ruleVars, setVars, fileVars, matchVars, history, lost
  <2>1. Follows'
    BY DEF Follows, Up, Reloading, Rebuilt, Doing
  <2>2. (RulesSafe' <=> RulesSafe) /\ (SettingsSafe' <=> SettingsSafe)
    BY DEF RulesSafe, SettingsSafe, Doing
  <2>3. RulesInv'
    BY <2>2
    DEF RulesInv, RulesMemory, RulesOnDisk, RulesInHand, RulesFollowFile, KeepsRules, Current, SavingRules, RulesSaved, Doing, Up
  <2>4. SettingsInv'
    BY <2>2
    DEF SettingsInv, SettingsMemory, SettingsOnDisk, SettingsInHand, SettingsFollowFile, KeepsSettings,
        CurrentSettings, SavingSettings, SavingRules, SettingsSaved, Doing, Up
  <2>5. MatchInv'
    BY <2>2, MatchKept
  <2> QED
    BY <1>0, <2>1, <2>3, <2>4, <2>5
<1> QED
  BY <1>1, <1>2, <1>3 DEF Next

(* Connections that match their host while groups, upstreams and settings  *)
(* are edited: matchRule uses what every edit that was saved before it     *)
(* began has made of the rules, since buildRules empties them only under   *)
(* the write lock, or in a reload; a behaviour in which a reload ran       *)
(* beside another operation, or an import beside an edit, is excluded.     *)
THEOREM MatchesSeeEverySavedRule == Spec => []MatchComplete
<1>1. IInv => MatchComplete
  BY DEF IInv, MatchInv
<1> QED
  BY <1>1, IInvInit, IInvStep, PTL DEF Spec

LEMMA WhenQuiet == ASSUME IInv PROVE RulesFollowGroups /\ RouterFollows /\ ListCached /\ FilesFollow
<1>1. ASSUME Quiet PROVE \A t \in Threads : pc[t] \in {"new", "done"}
  BY <1>1 DEF Quiet, Busy
<1>2. RulesFollowGroups /\ RouterFollows /\ ListCached
  BY <1>1 DEF IInv, Follows, Up, Reloading, Rebuilt, RulesFollowGroups, RouterFollows, ListCached, Settled
<1>3. ASSUME Quiet, crashed = "no", RulesSafe, RulesSaved PROVE rulesFile = Current \/ "rules" \in broken
  BY <1>1, <1>3 DEF IInv, RulesInv, RulesFollowFile, SavingRules
<1>4. ASSUME Quiet, crashed = "no", SettingsSafe, SettingsSaved PROVE settingsFile = CurrentSettings
  BY <1>1, <1>4 DEF IInv, SettingsInv, SettingsFollowFile, SavingSettings
<1> QED
  BY <1>2, <1>3, <1>4 DEF FilesFollow, RulesSaved, SettingsSaved

(* When no operation runs, rules and groups, router and settings, router   *)
(* and list cache, and memory and files agree, whatever edits, imports,    *)
(* refreshes and failed saves ran before, with the exceptions the parts    *)
(* name: an edit of a group beside a reload can leave other rules, a       *)
(* refused reload another router, a failed save another file.              *)
THEOREM StateAgreesAlways == Spec => []StateAgrees
<1>1. IInv => StateAgrees
  BY TypeParts, WhenQuiet DEF IInv, Sys, Lk, Aln, Own, StateAgrees
<1> QED
  BY <1>1, IInvInit, IInvStep, PTL DEF Spec

(* A core that has started again after a crash has every edit that had     *)
(* returned, and it does start again unless it died while os.WriteFile     *)
(* wrote one of the files or the last write of one had broken off: then    *)
(* the file, and with it every earlier edit, is lost.                      *)
THEOREM AcknowledgedSurvives == Spec => []SurvivesCrash
<1>1. ASSUME IInv PROVE SurvivesCrash
  <2>1. ASSUME crashed = "restarted", RulesSafe PROVE rules.groups = groups
    BY <1>1, <2>1 DEF IInv, Sys, Lk, Places, Aln, Alone, RulesSafe, Follows, Rebuilt, Up
  <2>2. ASSUME crashed = "restarted", RulesSafe PROVE KeepsRules(Current)
    BY <1>1, <2>2 DEF IInv, RulesInv, RulesMemory, Up
  <2>3. ASSUME crashed = "restarted", SettingsSafe PROVE KeepsSettings(CurrentSettings)
    BY <1>1, <2>3 DEF IInv, SettingsInv, SettingsMemory, Up
  <2>4. Durable
    BY <2>1, <2>2, <2>3 DEF Durable, KeepsRules, KeepsSettings, Current, CurrentSettings
  <2>5. StartsAgain
    BY <1>1 DEF IInv, Follows, RulesInv, SettingsInv, StartsAgain, RulesOnDisk, SettingsOnDisk
  <2> QED
    BY <2>4, <2>5 DEF SurvivesCrash
<1> QED
  BY <1>1, IInvInit, IInvStep, PTL DEF Spec
=============================================================================
