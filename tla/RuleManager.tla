---------------------------- MODULE RuleManager ----------------------------
(***************************************************************************)
(* The rule manager (proxy.go, config.go, auto_routing.go, gfwlist.go):    *)
(* connections that match their host under the read lock, the operations   *)
(* that change groups, upstreams and settings and save them, LoadConfig,   *)
(* which takes no lock, the auto router with its GFW list, and the two     *)
(* files, which are written in place.  Nothing in the program removes one  *)
(* of them, so they exist once the core has started.                       *)
(*                                                                         *)
(* The content of a group, an upstream or a setting does not matter: a     *)
(* list is the set of the operations that have changed it, by an addition, *)
(* a replacement or a deletion, and Base is what was there at the start.   *)
(* The choice of the rule for a host is in module Routing.                 *)
(***************************************************************************)
EXTENDS Naturals, FiniteSets

CONSTANTS Threads,   \* the operations, one each
          Schedules, \* what they may be: functions from Threads to Kinds
          Base, None, Torn

SettingsKinds == {"setting", "auto", "refresh", "listen"}
RulesKinds == {"group", "upstream", "import", "listen"}
Kinds == {"match", "load"} \cup SettingsKinds \cup RulesKinds

Names == Threads \cup {Base}
Rules == [groups : SUBSET Names, upstreams : SUBSET Names]
Stored == [settings : SUBSET Names, auto : SUBSET Names]
Router == [cfg : SUBSET Names, gen : Names]

\* A file that cannot be parsed is no content of a file.
ASSUME RuleAssumption ==
  /\ IsFiniteSet(Threads) /\ Schedules \subseteq [Threads -> Kinds]
  /\ {Base, None, Torn} \cap Threads = {} /\ Cardinality({Base, None, Torn}) = 3
  /\ Torn \notin Rules /\ Torn \notin Stored

VARIABLES
  serial,     \* the operations run one after the other
  kind, pc,
  readers,    \* the threads that hold the read lock
  pending,    \* the writer that has announced itself: no reader gets in
  writer,     \* the thread with the write lock
  groups, upstreams, rules,          \* rules: what they were built from
  settings, auto,
  router,     \* the auto router: its configuration, and the reload that made it
  lists,      \* the GFW list of each router: the refresh it is from
  rulesFile, settingsFile, cacheFile,
  snap,       \* what a thread is about to write or has read
  mixed,      \* threads whose write another one has overlapped
  result,     \* the rules a match has used
  known,      \* history: the edits that had returned when the match began
  acked,      \* history: operations that returned and have saved what they changed
  raced,      \* history: a reload ran beside another operation
  aborted,    \* history: a reload returned early
  broken,     \* history: the files whose last write broke off
  uncached,   \* history: the last save of the list failed
  crashed     \* the process: no, down, restarted, failed; ...Saving: it died in a save

lockVars == <<readers, pending, writer>>
ruleVars == <<groups, upstreams, rules>>
setVars == <<settings, auto, router, lists>>
fileVars == <<rulesFile, settingsFile, cacheFile>>
matchVars == <<result, known>>
lost == <<broken, uncached>>
history == <<acked, raced, aborted, lost>>
case == <<serial, kind>>
vars == <<case, pc, lockVars, ruleVars, setVars, fileVars, snap, mixed, matchVars, history, crashed>>

(* The manager's state has its type, and rm.mu is never held by a reader   *)
(* and a writer at once.                                                   *)
TypeOK ==
  /\ serial \in BOOLEAN /\ kind \in [Threads -> Kinds]
  /\ pc \in [Threads -> {"new", "want", "locked", "saveSettings", "writeSettings", "saveRules",
                         "writeRules", "matching", "resolve", "query", "emit", "assign", "loadRules", "assignRules",
                         "clear", "build", "listen", "stuck", "fetch", "cache", "writeCache",
                         "fetched", "save", "done"}]
  /\ readers \subseteq Threads /\ {pending, writer} \subseteq Threads \cup {None}
  /\ pending # None => writer = None
  /\ writer # None => readers = {}
  /\ groups \subseteq Names /\ upstreams \subseteq Names /\ rules \in Rules
  /\ settings \subseteq Names /\ auto \subseteq Names /\ router \in Router
  /\ rulesFile \in Rules \cup {Torn} /\ settingsFile \in Stored \cup {Torn}
  /\ cacheFile \in Names \cup {Torn} /\ lists \in [Names -> Names \cup {Torn}]
  /\ snap \in [Threads -> Rules \cup Stored \cup Names \cup {None}]
  /\ mixed \subseteq Threads /\ acked \subseteq Threads
  /\ result \in [Threads -> Rules \cup {None}] /\ known \in [Threads -> SUBSET Threads]
  /\ raced \in BOOLEAN /\ aborted \in BOOLEAN /\ uncached \in BOOLEAN
  /\ broken \subseteq {"settings", "rules"}
  /\ crashed \in {"no", "down", "downSaving", "restarted", "failed", "failedSaving"}

BaseRules == [groups |-> {Base}, upstreams |-> {Base}]
BaseSettings == [settings |-> {Base}, auto |-> {Base}]

\* The core has loaded its files and serves.
Init ==
  /\ serial \in BOOLEAN /\ kind \in Schedules
  /\ pc = [t \in Threads |-> "new"]
  /\ readers = {} /\ pending = None /\ writer = None
  /\ groups = {Base} /\ upstreams = {Base} /\ rules = BaseRules
  /\ settings = {Base} /\ auto = {Base}
  /\ router = [cfg |-> {Base}, gen |-> Base] /\ lists = [n \in Names |-> Base]
  /\ rulesFile = BaseRules /\ settingsFile = BaseSettings /\ cacheFile = Base
  /\ snap = [t \in Threads |-> None] /\ mixed = {}
  /\ result = [t \in Threads |-> None] /\ known = [t \in Threads |-> {}]
  /\ acked = {} /\ raced = FALSE /\ aborted = FALSE
  /\ broken = {} /\ uncached = FALSE
  /\ crashed = "no"

Set(f, x, v) == [f EXCEPT ![x] = v]
Goto(t, label) == pc' = Set(pc, t, label)
At(t, label) == pc[t] = label /\ crashed = "no"
Busy == {u \in Threads : pc[u] \notin {"new", "done"}}
Quiet == Busy = {}
Settled == Quiet /\ crashed \in {"no", "restarted"}

\* An operation begins; a reload that runs beside another one is noted.
Begins(t, ks) ==
  /\ At(t, "new") /\ kind[t] \in ks
  /\ serial => Quiet
  /\ raced' = (raced \/ \E u \in Busy : "load" \in {kind[t], kind[u]})

Returns(t, ok) ==
  /\ Goto(t, "done")
  /\ acked' = IF ok THEN acked \cup {t} ELSE acked
  /\ snap' = Set(snap, t, None) /\ mixed' = mixed \ {t}

-----------------------------------------------------------------------------
(* rm.mu, a sync.RWMutex: once a writer has announced itself every RLock   *)
(* waits, that of a thread which holds the read lock already too.          *)
CanRead == pending = None /\ writer = None

Announce(t) ==
  /\ CanRead
  /\ pending' = t
  /\ Goto(t, "want")
  /\ UNCHANGED <<readers, writer>>

\* Lock(): the first half.  A reload gets here for InitAutoRouter, when the calls
\* to the proxy have returned that follow LoadConfig.
WantLock(t) ==
  /\ \/ Begins(t, {"group", "upstream", "setting", "auto", "import", "listen"})
     \/ pc[t] \in {"listen", "fetched"} /\ crashed = "no" /\ UNCHANGED raced
  /\ Announce(t)
  /\ UNCHANGED <<case, ruleVars, setVars, fileVars, snap, mixed, matchVars, acked, aborted, lost, crashed>>

Lock(t) ==
  /\ At(t, "want") /\ pending = t /\ readers = {}
  /\ pending' = None /\ writer' = t
  /\ Goto(t, "locked")
  /\ UNCHANGED <<case, readers, ruleVars, setVars, fileVars, snap, mixed, matchVars, history, crashed>>

-----------------------------------------------------------------------------
(* What the operations do under the write lock.                            *)
buildRules(gs, us) == [groups |-> gs, upstreams |-> us]

\* The mutant forgets buildRules.
EditWithoutBuild(t) ==
  /\ At(t, "locked") /\ kind[t] = "group"
  /\ groups' = groups \cup {t}
  /\ Goto(t, "saveRules")
  /\ UNCHANGED <<case, lockVars, upstreams, rules, setVars, fileVars, snap, mixed, matchVars, history, crashed>>

\* AddSiteGroup, UpdateSiteGroup and DeleteSiteGroup keep the lock while they
\* save; each leaves its mark on the groups.
EditSiteGroup(t) ==
  /\ At(t, "locked") /\ kind[t] = "group"
  /\ groups' = groups \cup {t}
  /\ rules' = buildRules(groups', upstreams)
  /\ Goto(t, "saveRules")
  /\ UNCHANGED <<case, lockVars, upstreams, setVars, fileVars, snap, mixed, matchVars, history, crashed>>

\* The mutant saves nothing.
EditUpstreamUnsaved(t) ==
  /\ At(t, "locked") /\ kind[t] = "upstream"
  /\ upstreams' = upstreams \cup {t}
  /\ writer' = None
  /\ Returns(t, TRUE)
  /\ UNCHANGED <<case, readers, pending, groups, rules, setVars, fileVars, matchVars, raced, aborted, lost, crashed>>

\* The operations on upstreams, DNS nodes and ECH profiles do not rebuild the
\* rules: a rule keeps the address it was built with until the next build.
EditUpstream(t) ==
  /\ At(t, "locked") /\ kind[t] = "upstream"
  /\ upstreams' = upstreams \cup {t}
  /\ Goto(t, "saveRules")
  /\ UNCHANGED <<case, lockVars, groups, rules, setVars, fileVars, snap, mixed, matchVars, history, crashed>>

\* ImportConfigWithSummary unlocks before it saves.
ImportConfigWithSummary(t) ==
  /\ At(t, "locked") /\ kind[t] = "import"
  /\ groups' = groups \cup {t}
  /\ rules' = buildRules(groups', upstreams)
  /\ writer' = None
  /\ Goto(t, "saveRules")
  /\ UNCHANGED <<case, readers, pending, upstreams, setVars, fileVars, snap, mixed, matchVars, history, crashed>>

\* The mutant returns without a save.
SetUnsaved(t) ==
  /\ At(t, "locked") /\ kind[t] \in {"setting", "listen"}
  /\ settings' = settings \cup {t}
  /\ writer' = None
  /\ Returns(t, TRUE)
  /\ UNCHANGED <<case, readers, pending, ruleVars, auto, router, lists, fileVars, matchVars, raced, aborted, lost, crashed>>

\* SetCloseToTray and its like, UpdateServerConfig, UpdateTUNConfig...; the core's
\* setListenPort sets the port and then calls SaveConfig.
SetSetting(t) ==
  /\ At(t, "locked") /\ kind[t] \in {"setting", "listen"}
  /\ settings' = settings \cup {t}
  /\ writer' = None
  /\ Goto(t, IF kind[t] = "setting" THEN "saveSettings" ELSE "save")
  /\ UNCHANGED <<case, readers, pending, ruleVars, auto, router, lists, fileVars, snap, mixed, matchVars, history, crashed>>

\* The router is told under the lock.
UpdateAutoRoutingConfig(t) ==
  /\ At(t, "locked") /\ kind[t] = "auto"
  /\ auto' = {t} /\ router' = [router EXCEPT !.cfg = {t}]
  /\ writer' = None
  /\ Goto(t, "saveSettings")
  /\ UNCHANGED <<case, readers, pending, ruleVars, settings, lists, fileVars, snap, mixed, matchVars, history, crashed>>

-----------------------------------------------------------------------------
(* Saving: a snapshot of the fields, then os.WriteFile, which truncates    *)
(* and writes.  A write that another one has overlapped leaves the longer  *)
(* one's tail behind.                                                      *)
Current == [groups |-> groups, upstreams |-> upstreams]
CurrentSettings == [settings |-> settings, auto |-> auto]
Unlocks(t) == readers' = readers \ {t} /\ writer' = (IF writer = t THEN None ELSE writer)

\* SaveConfig takes the read lock for both files.
SaveConfig(t) ==
  /\ At(t, "save") /\ CanRead
  /\ readers' = readers \cup {t}
  /\ Goto(t, "saveSettings")
  /\ UNCHANGED <<case, pending, writer, ruleVars, setVars, fileVars, snap, mixed, matchVars, history, crashed>>

saveSettingsConfig(t) ==
  /\ At(t, "saveSettings")
  /\ snap' = Set(snap, t, CurrentSettings)
  /\ settingsFile' = Torn
  /\ Goto(t, "writeSettings")
  /\ UNCHANGED <<case, lockVars, ruleVars, setVars, rulesFile, cacheFile, mixed, matchVars, history, crashed>>

\* The writes of the same file that are under way have met this one.
Overlaps(t) == mixed' = (mixed \ {t}) \cup {u \in Threads \ {t} : pc[u] = pc[t]}

SettingsWritten(t) ==
  /\ At(t, "writeSettings")
  /\ settingsFile' \in {snap[t]} \cup (IF t \in mixed THEN {Torn} ELSE {})
  /\ snap' = Set(snap, t, None)
  /\ Overlaps(t)
  /\ broken' = broken \ {"settings"}
  /\ IF kind[t] = "listen"
     THEN Goto(t, "saveRules") /\ UNCHANGED acked
     ELSE Goto(t, "done") /\ acked' = acked \cup {t}
  /\ UNCHANGED <<case, lockVars, ruleVars, setVars, rulesFile, cacheFile, matchVars, raced, aborted, uncached, crashed>>

saveRulesConfig(t) ==
  /\ At(t, "saveRules")
  /\ snap' = Set(snap, t, Current)
  /\ rulesFile' = Torn
  /\ Goto(t, "writeRules")
  /\ UNCHANGED <<case, lockVars, ruleVars, setVars, settingsFile, cacheFile, mixed, matchVars, history, crashed>>

\* A reload that has migrated old groups goes on; the others return, and a
\* deferred Unlock or RUnlock runs.
RulesWritten(t) ==
  /\ At(t, "writeRules")
  /\ rulesFile' \in {snap[t]} \cup (IF t \in mixed THEN {Torn} ELSE {})
  /\ snap' = Set(snap, t, None)
  /\ Overlaps(t)
  /\ broken' = broken \ {"rules"}
  /\ IF kind[t] = "load"
     THEN Goto(t, "listen") /\ UNCHANGED <<acked, lockVars>>
     ELSE Goto(t, "done") /\ acked' = acked \cup {t} /\ Unlocks(t) /\ UNCHANGED pending
  /\ UNCHANGED <<case, ruleVars, setVars, settingsFile, cacheFile, matchVars, raced, aborted, uncached, crashed>>

\* The directory or the file cannot be opened: memory keeps the change.
SaveFails(t) ==
  /\ pc[t] \in {"saveSettings", "saveRules"} /\ crashed = "no"
  /\ IF kind[t] = "load"
     THEN Goto(t, "listen") /\ UNCHANGED <<acked, snap, mixed, lockVars>>
     ELSE Returns(t, FALSE) /\ Unlocks(t) /\ UNCHANGED pending
  /\ UNCHANGED <<case, ruleVars, setVars, fileVars, matchVars, raced, aborted, lost, crashed>>

\* The write breaks off (a full disk) after os.WriteFile has truncated the file.
WriteFails(t) ==
  /\ pc[t] \in {"writeSettings", "writeRules"} /\ crashed = "no"
  /\ IF pc[t] = "writeSettings"
     THEN settingsFile' = Torn /\ broken' = broken \cup {"settings"} /\ UNCHANGED rulesFile
     ELSE rulesFile' = Torn /\ broken' = broken \cup {"rules"} /\ UNCHANGED settingsFile
  /\ snap' = Set(snap, t, None)
  /\ Overlaps(t)
  /\ IF kind[t] = "load"
     THEN Goto(t, "listen") /\ UNCHANGED lockVars
     ELSE Goto(t, "done") /\ Unlocks(t) /\ UNCHANGED pending
  /\ UNCHANGED <<case, ruleVars, setVars, cacheFile, matchVars, acked, raced, aborted, uncached, crashed>>

-----------------------------------------------------------------------------
(* matchRule and emitRouteEvent.                                           *)
matchRule(t) ==
  /\ Begins(t, {"match"}) /\ CanRead
  /\ readers' = readers \cup {t}
  /\ known' = Set(known, t, {u \in acked : kind[u] \in {"group", "import"}})
  /\ Goto(t, "matching")
  /\ UNCHANGED <<case, pending, writer, ruleVars, setVars, fileVars, snap, mixed, result, acked, aborted, lost, crashed>>

\* A host without a rule that is on the GFW list is looked up, the lock held.
MatchReads(t) ==
  /\ At(t, "matching")
  /\ result' = Set(result, t, rules)
  /\ pc' \in {Set(pc, t, "emit"), Set(pc, t, "resolve")}
  /\ UNCHANGED <<case, lockVars, ruleVars, setVars, fileVars, snap, mixed, known, history, crashed>>

\* IsCloudflare asks the DoH resolver, which reads the DNS nodes under the same lock.
GetDNSNodes(t) ==
  /\ At(t, "resolve") /\ CanRead
  /\ Goto(t, "query")
  /\ UNCHANGED <<case, lockVars, ruleVars, setVars, fileVars, snap, mixed, matchVars, history, crashed>>

LookupReturns(t) ==
  /\ At(t, "query")
  /\ Goto(t, "emit")
  /\ UNCHANGED <<case, lockVars, ruleVars, setVars, fileVars, snap, mixed, matchVars, history, crashed>>

\* A node whose ECH handshake fails: a fresh configuration comes from a node
\* without ECH and UpdateECHProfileConfig wants the write lock, for which it
\* waits as long as the match it works for holds the read lock.
LookupRefreshesECH(t) ==
  /\ At(t, "query")
  /\ Announce(t)
  /\ UNCHANGED <<case, ruleVars, setVars, fileVars, snap, mixed, matchVars, history, crashed>>

\* The mutant takes the write lock.
EmitLocks(t) ==
  /\ At(t, "emit") /\ CanRead /\ readers = {}
  /\ readers' = readers \ {t}
  /\ Returns(t, TRUE)
  /\ UNCHANGED <<case, pending, writer, ruleVars, setVars, fileVars, matchVars, raced, aborted, lost, crashed>>

\* The nested RLock and RUnlock, then the deferred RUnlock.
emitRouteEvent(t) ==
  /\ At(t, "emit") /\ CanRead
  /\ readers' = readers \ {t}
  /\ Returns(t, TRUE)
  /\ UNCHANGED <<case, pending, writer, ruleVars, setVars, fileVars, matchVars, raced, aborted, lost, crashed>>

-----------------------------------------------------------------------------
(* reloadConfig and LoadConfig: no lock until InitAutoRouter.              *)
LoadReads(t, file, to) ==
  /\ IF file = Torn
     THEN Returns(t, FALSE) /\ aborted' = TRUE
     ELSE /\ snap' = Set(snap, t, file) /\ Goto(t, to) /\ UNCHANGED <<acked, mixed, aborted>>
  /\ UNCHANGED <<case, lockVars, ruleVars, setVars, fileVars, matchVars, lost, crashed>>

\* reloadConfig holds the runtime's mutex: one reload at a time.
loadSettingsConfig(t) ==
  /\ Begins(t, {"load"}) /\ \A u \in Busy : kind[u] # "load"
  /\ LoadReads(t, settingsFile, "assign")

LoadAssignsSettings(t) ==
  /\ At(t, "assign")
  /\ settings' = snap[t].settings /\ auto' = snap[t].auto
  /\ Goto(t, "loadRules")
  /\ UNCHANGED <<case, lockVars, ruleVars, router, lists, fileVars, snap, mixed, matchVars, history, crashed>>

loadRulesConfig(t) ==
  /\ At(t, "loadRules") /\ UNCHANGED raced
  /\ LoadReads(t, rulesFile, "assignRules")

LoadAssignsRules(t) ==
  /\ At(t, "assignRules")
  /\ groups' = snap[t].groups /\ upstreams' = snap[t].upstreams
  /\ snap' = Set(snap, t, None)
  /\ Goto(t, "clear")
  /\ UNCHANGED <<case, lockVars, rules, setVars, fileVars, mixed, matchVars, history, crashed>>

\* buildRules empties rm.rules, takes the groups as they are and appends rule
\* by rule: connections may look in between.
LoadClearsRules(t) ==
  /\ At(t, "clear")
  /\ rules' = [groups |-> {}, upstreams |-> {}]
  /\ snap' = Set(snap, t, Current)
  /\ Goto(t, "build")
  /\ UNCHANGED <<case, lockVars, groups, upstreams, setVars, fileVars, mixed, matchVars, history, crashed>>

\* When an edit or an import has built the rules meanwhile, under the lock that
\* the reload does not take, the two loops have appended to one slice: some of
\* what both had is left.
Appended(built) ==
  IF rules.groups = {}
  THEN {buildRules(built.groups, built.upstreams)}
  ELSE [groups : SUBSET (rules.groups \cup built.groups) \ {{}}, upstreams : {rules.upstreams, built.upstreams}]

\* A group without a website, or with ECH settings of its own, is migrated and saved.
LoadBuilds(t) ==
  /\ At(t, "build")
  /\ rules' \in Appended(snap[t])
  /\ snap' = Set(snap, t, None)
  /\ pc' \in {Set(pc, t, "saveRules"), Set(pc, t, "listen")}
  /\ UNCHANGED <<case, lockVars, groups, upstreams, setVars, fileVars, mixed, matchVars, history, crashed>>

\* SetListenAddr refuses while the proxy runs: reloadConfig returns its error
\* before the router and the pool hear of the new configuration.
ReloadRefused(t) ==
  /\ At(t, "listen") /\ CanRead
  /\ aborted' = TRUE
  /\ Returns(t, FALSE)
  /\ UNCHANGED <<case, lockVars, ruleVars, setVars, fileVars, matchVars, raced, lost, crashed>>

\* SetListenAddr, SetRuleManager and UpdateCloudflareConfig wait for p.mu, the
\* last two for the pool's lock as well.  ReportFailure can leave that one held
\* (see CFPool), and p.mu with whoever waits for it: the call never returns.
ProxyLockLost(t) ==
  /\ \/ pc[t] = "listen" /\ crashed = "no" /\ UNCHANGED raced
     \/ Begins(t, {"listen"})
  /\ CanRead
  /\ Goto(t, "stuck")
  /\ UNCHANGED <<case, lockVars, ruleVars, setVars, fileVars, snap, mixed, matchVars, acked, aborted, lost, crashed>>

\* A new router with the list of the cache file, a list that was cut off too.
InitAutoRouter(t) ==
  /\ At(t, "locked") /\ kind[t] = "load"
  /\ router' = [cfg |-> auto, gen |-> t] /\ lists' = Set(lists, t, cacheFile)
  /\ aborted' = FALSE /\ uncached' = FALSE
  /\ writer' = None
  /\ Returns(t, TRUE)
  /\ UNCHANGED <<case, readers, pending, ruleVars, settings, auto, fileVars, matchVars, raced, broken, crashed>>

-----------------------------------------------------------------------------
(* RefreshGFWList.                                                         *)
RefreshReads(t) ==
  /\ Begins(t, {"refresh"}) /\ CanRead
  /\ snap' = Set(snap, t, router.gen)
  /\ Goto(t, "fetch")
  /\ UNCHANGED <<case, lockVars, ruleVars, setVars, fileVars, mixed, matchVars, acked, aborted, lost, crashed>>

\* The list goes to the router that was there at the start; a save of the same
\* list holds its lock.
LoadFromURL(t) ==
  /\ At(t, "fetch")
  /\ \A u \in Threads : pc[u] = "writeCache" => snap[u] # snap[t]
  /\ lists' = Set(lists, snap[t], t)
  /\ Goto(t, "cache")
  /\ UNCHANGED <<case, lockVars, ruleVars, settings, auto, router, fileVars, snap, mixed, matchVars, history, crashed>>

\* SaveToFile writes the list as it is now, in place too.
SaveToFile(t) ==
  /\ At(t, "cache")
  /\ cacheFile' = Torn
  /\ Goto(t, "writeCache")
  /\ UNCHANGED <<case, lockVars, ruleVars, setVars, rulesFile, settingsFile, snap, mixed, matchVars, history, crashed>>

ListSaved(t) ==
  /\ At(t, "writeCache")
  /\ cacheFile' = lists[snap[t]] /\ uncached' = FALSE
  /\ snap' = Set(snap, t, None)
  /\ Goto(t, "fetched")
  /\ UNCHANGED <<case, lockVars, ruleVars, setVars, rulesFile, settingsFile, mixed, matchVars, acked, raced, aborted, broken, crashed>>

\* The file cannot be opened or the write breaks off: the error is logged only.
ListUnsaved(t) ==
  /\ pc[t] \in {"cache", "writeCache"} /\ crashed = "no"
  /\ cacheFile' = IF pc[t] = "cache" THEN cacheFile ELSE Torn
  /\ uncached' = TRUE
  /\ snap' = Set(snap, t, None)
  /\ Goto(t, "fetched")
  /\ UNCHANGED <<case, lockVars, ruleVars, setVars, rulesFile, settingsFile, mixed, matchVars, acked, raced, aborted, broken, crashed>>

FetchFails(t) ==
  /\ At(t, "fetch")
  /\ Returns(t, FALSE)
  /\ UNCHANGED <<case, lockVars, ruleVars, setVars, fileVars, matchVars, raced, aborted, lost, crashed>>

RefreshNotes(t) ==
  /\ At(t, "locked") /\ kind[t] = "refresh"
  /\ auto' = auto \cup {t} /\ router' = [router EXCEPT !.cfg = auto \cup {t}]
  /\ writer' = None
  /\ Goto(t, "saveSettings")
  /\ UNCHANGED <<case, readers, pending, ruleVars, settings, lists, fileVars, snap, mixed, matchVars, history, crashed>>

-----------------------------------------------------------------------------
\* The process dies: what is in memory is lost, a file that is being written is torn.
Crash ==
  /\ crashed = "no" /\ acked # {}
  /\ crashed' = IF \E t \in Threads : pc[t] \in {"writeSettings", "writeRules"} THEN "downSaving" ELSE "down"
  /\ pc' = [t \in Threads |-> "done"]
  /\ readers' = {} /\ pending' = None /\ writer' = None
  /\ snap' = [t \in Threads |-> None] /\ mixed' = {}
  /\ result' = [t \in Threads |-> None] /\ known' = [t \in Threads |-> {}]
  /\ groups' = {} /\ upstreams' = {} /\ rules' = buildRules({}, {})
  /\ settings' = {} /\ auto' = {} /\ router' = [cfg |-> {}, gen |-> Base]
  /\ lists' = [n \in Names |-> Base]
  /\ UNCHANGED <<case, fileVars, history>>

\* newCoreRuntime gives up when LoadConfig cannot read a file.
Restart ==
  /\ crashed \in {"down", "downSaving"}
  /\ IF Torn \in {rulesFile, settingsFile}
     THEN crashed' = (IF crashed = "down" THEN "failed" ELSE "failedSaving") /\ UNCHANGED <<ruleVars, setVars>>
     ELSE /\ crashed' = "restarted"
          /\ groups' = rulesFile.groups /\ upstreams' = rulesFile.upstreams
          /\ rules' = buildRules(groups', upstreams')
          /\ settings' = settingsFile.settings /\ auto' = settingsFile.auto
          /\ router' = [cfg |-> auto', gen |-> Base] /\ lists' = Set(lists, Base, cacheFile)
  /\ UNCHANGED <<case, pc, lockVars, fileVars, snap, mixed, matchVars, history>>

LockStep(t) == WantLock(t) \/ Lock(t)
EditStep(t) ==
  \/ EditSiteGroup(t) \/ EditUpstream(t) \/ ImportConfigWithSummary(t)
  \/ SetSetting(t) \/ UpdateAutoRoutingConfig(t)
SaveStep(t) ==
  \/ SaveConfig(t) \/ saveSettingsConfig(t) \/ SettingsWritten(t)
  \/ saveRulesConfig(t) \/ RulesWritten(t) \/ SaveFails(t) \/ WriteFails(t)
MatchStep(t) ==
  \/ matchRule(t) \/ MatchReads(t) \/ GetDNSNodes(t) \/ LookupReturns(t) \/ LookupRefreshesECH(t)
  \/ emitRouteEvent(t)
LoadStep(t) ==
  \/ loadSettingsConfig(t) \/ LoadAssignsSettings(t) \/ loadRulesConfig(t) \/ LoadAssignsRules(t)
  \/ LoadClearsRules(t) \/ LoadBuilds(t) \/ ReloadRefused(t) \/ ProxyLockLost(t)
  \/ InitAutoRouter(t)
RefreshStep(t) ==
  \/ RefreshReads(t) \/ LoadFromURL(t) \/ FetchFails(t) \/ SaveToFile(t) \/ ListSaved(t) \/ ListUnsaved(t)
  \/ RefreshNotes(t)

Step(t) == LockStep(t) \/ EditStep(t) \/ SaveStep(t) \/ MatchStep(t) \/ LoadStep(t) \/ RefreshStep(t)

Next == (\E t \in Threads : Step(t)) \/ Crash \/ Restart

Spec == Init /\ [][Next]_vars

\* The operations go on while one of them can; a fetch has a time-out of 30 s.
FairSpec == Spec /\ WF_vars(\E t \in Threads : Step(t))

-----------------------------------------------------------------------------
(* Properties.  The saves outside the write lock are safe when they do not *)
(* meet another writer of the file, and reloads when they run alone.       *)
Doing(ks) == {t \in Threads : kind[t] \in ks}
SettingsSafe == serial \/ (~raced /\ Cardinality(Doing(SettingsKinds)) <= 1)
RulesSafe ==
  \/ serial
  \/ /\ ~raced
     /\ \/ Cardinality(Doing(RulesKinds)) <= 1
        \/ Doing({"import"}) = {} /\ Cardinality(Doing({"listen"})) <= 1

\* A match sees what every edit of a group that had been saved before it began
\* has made of the rules, edits of other groups and of upstreams going on
\* meanwhile (buildRules empties rm.rules under the write lock).  A reload, which
\* empties them without it, must run alone, and an import or a second change of
\* the port, which save without it, not beside another save of the rules.
MatchComplete ==
  RulesSafe => \A t \in Threads : result[t] # None => known[t] \cup {Base} \subseteq result[t].groups

\* When nothing runs the rules are those of the groups, whatever edits and
\* imports ran beside each other, unless one of them ran beside a reload, whose
\* buildRules appends to the same slice without the lock.
RulesFollowGroups ==
  Settled => rules.groups = groups \/ (raced /\ Doing({"group", "import"}) # {})

\* When nothing runs and every save succeeded, the files hold what is in memory;
\* so they do after a reload whose save of the migrated groups did not break off.
FilesFollow ==
  (Quiet /\ crashed = "no") =>
    /\ SettingsSafe /\ (\A t \in Doing(SettingsKinds) : pc[t] = "done" => t \in acked) =>
         settingsFile = CurrentSettings
    /\ RulesSafe /\ (\A t \in Doing(RulesKinds) : pc[t] = "done" => t \in acked) =>
         rulesFile = Current \/ "rules" \in broken

\* When nothing runs the auto router works with the stored configuration, however
\* edits, refreshes and reloads ran beside each other, unless a reload ended
\* early: the proxy was running, or a file could not be read.
RouterFollows == Settled => (router.cfg = auto \/ aborted)

\* When nothing runs the router's list is the one in the cache file, which a
\* reload takes, unless a refresh ran beside a reload or its save failed, which
\* RefreshGFWList only logs.
ListCached == Settled /\ ~raced => lists[router.gen] = cacheFile \/ uncached

\* Once the core has started again it has every edit that had returned.
Durable ==
  crashed = "restarted" =>
    \A t \in acked :
      /\ RulesSafe /\ kind[t] \in {"group", "import"} => t \in groups /\ t \in rules.groups
      /\ RulesSafe /\ kind[t] = "upstream" => t \in upstreams
      /\ SettingsSafe /\ kind[t] \in {"setting", "listen"} => t \in settings

\* The core starts again after a crash, unless the crash hit a save or the last
\* save of a file broke off.  (Then the file cannot be read, and every earlier
\* edit in it is gone as well.)
StartsAgain == SettingsSafe /\ RulesSafe => (crashed = "failed" => broken # {})

\* The operations end, except a match that asks for the read lock it holds once
\* more while a writer waits for it (emitRouteEvent, GetDNSNodes), a match whose
\* own lookup asks for the write lock, and a reload or a change of the port that
\* waits for a lock of the proxy or of its pool that nobody will release; the
\* last does not keep the others from ending.
NestedRead == pending # None /\ \E t \in readers : pc[t] \in {"emit", "resolve"}
OwnWrite == pending \in readers
Stuck == {t \in Threads : pc[t] = "stuck"}
OnlyMatchesBlock == []<>(Busy \subseteq Stuck \/ NestedRead \/ OwnWrite)

\* When nothing runs, what the manager keeps in several places agrees: rules
\* and groups, router and settings, router and cache, memory and files, each
\* with the exceptions its part names.
StateAgrees == TypeOK /\ RulesFollowGroups /\ RouterFollows /\ ListCached /\ FilesFollow

\* A core that starts again after a crash has what was acknowledged, and it does
\* start again, unless a file was being written when it died or the last write of
\* one had broken off.
SurvivesCrash == Durable /\ StartsAgain
=============================================================================
