------------------------------- MODULE CFPool -------------------------------
(***************************************************************************)
(* The pool of preferred Cloudflare addresses (proxy/cf_pool.go): the list *)
(* of addresses with their measured latency and failure count, the sorted  *)
(* list of healthy ones that GetTopIPs serves, and the health checks that  *)
(* run in goroutines of their own.                                         *)
(*                                                                         *)
(* Every critical section of p.mu is one action.  The only one that does   *)
(* not release the lock is that of ReportFailure for a listed address, so  *)
(* the lock is the Boolean "leaked": once TRUE, no other section can run.  *)
(* At most one check runs (checkRunning); a goroutine that finds one       *)
(* running returns at once.                                                *)
(***************************************************************************)
EXTENDS Integers, Sequences, FiniteSets

CONSTANTS IPs,        \* the addresses that may be configured
          Failing,    \* those a connection to which may fail and be reported
          MaxLatency, \* latencies of a successful probe: 1..MaxLatency
          MaxFail,    \* bound: the failure counter saturates here
          MaxSpawned  \* bound: check goroutines not yet scheduled

ASSUME PoolAssumption ==
  /\ IsFiniteSet(IPs)
  /\ Failing \subseteq IPs
  /\ MaxLatency \in Nat \ {0}
  /\ MaxFail \in Nat /\ MaxFail >= 3
  /\ MaxSpawned \in Nat

VARIABLES
  allIPs,     \* the keys of p.allIPs
  latencyVal, \* of the listed addresses; 0: unchecked or failed
  failures,
  activeIPs,  \* p.activeIPs
  leaked,     \* p.mu is held and will not be released
  spawned,    \* goroutines about to run checkAllIPs, and checkIncremental
  check,      \* the goroutine that holds checkRunning
  todo,       \* the addresses it has still to probe
  rebuilds,   \* callers between their own section and rebuildActiveIPs
  due,        \* history: the event that asked for a check of the address
  running, stopClosed, loop, owner  \* Start, Stop and healthCheckLoop

statVars == <<allIPs, latencyVal, failures, activeIPs>>
loopVars == <<running, stopClosed, loop, owner>>
poolVars == <<allIPs, latencyVal, failures, activeIPs, leaked, spawned, check, todo,
              rebuilds, due, running, stopClosed, loop, owner>>

Items(s) == {s[i] : i \in 1..Len(s)}

(* ReportFailure adds a second, more than any probe can measure here.      *)
Penalty == MaxLatency
CheckStates == {"idle", "all", "incremental", "probing", "rebuilt"}
Events == {"none", "update", "failure"}

(* The fields of CloudflarePool and the local state of its checks have     *)
(* their types: no update or report leaves a negative count or an unknown  *)
(* address.                                                                *)
PoolTypeOK ==
  /\ allIPs \in SUBSET IPs
  /\ latencyVal \in [IPs -> Nat]
  /\ failures \in [IPs -> 0..MaxFail]
  /\ activeIPs \in Seq(IPs)
  /\ leaked \in BOOLEAN
  /\ spawned \in [{"all", "incremental"} -> Nat]
  /\ check \in CheckStates
  /\ todo \in SUBSET IPs
  /\ rebuilds \in Nat
  /\ due \in [IPs -> Events]
  /\ running \in BOOLEAN /\ stopClosed \in BOOLEAN
  /\ loop \in {"none", "born", "waiting"}
  /\ owner \in {"stopped", "started", "stopping"}

(* NewCloudflarePool: UpdateIPs of an empty list, and its goroutine.       *)
PoolInit ==
  /\ allIPs = {}
  /\ latencyVal = [i \in IPs |-> 0]
  /\ failures = [i \in IPs |-> 0]
  /\ activeIPs = <<>>
  /\ leaked = FALSE
  /\ spawned = [c \in {"all", "incremental"} |-> IF c = "all" THEN 1 ELSE 0]
  /\ check = "idle"
  /\ todo = {}
  /\ rebuilds = 0
  /\ due = [i \in IPs |-> "none"]
  /\ running = FALSE /\ stopClosed = FALSE /\ loop = "none" /\ owner = "stopped"

-----------------------------------------------------------------------------
(* The two statements UpdateIPs and rebuildActiveIPs share.                *)

Healthy(all, lat, fail) == {i \in all : lat[i] > 0 /\ fail[i] < 3}

(* sort.Slice is not stable and map order is random: any sorted order.     *)
SortedLists(S, lat) ==
  {s \in [1..Cardinality(S) -> S] :
     /\ Items(s) = S
     /\ \A i, j \in 1..Cardinality(S) : i < j => lat[s[i]] <= lat[s[j]]}

Spawn(c) == spawned' = [spawned EXCEPT ![c] = @ + 1]

(* New addresses start without a measurement, kept ones keep theirs.       *)
UpdateIPs(ips) ==
  LET lat  == [i \in IPs |-> IF i \in ips \cap allIPs THEN latencyVal[i] ELSE 0]
      fail == [i \in IPs |-> IF i \in ips \cap allIPs THEN failures[i] ELSE 0]
  IN
  /\ ~leaked
  /\ spawned["all"] < MaxSpawned
  /\ allIPs' = ips
  /\ latencyVal' = lat
  /\ failures' = fail
  /\ activeIPs' \in SortedLists(Healthy(ips, lat, fail), lat)
  /\ due' = [i \in IPs |-> IF i \in ips \cap allIPs THEN due[i]
                         ELSE IF i \in ips THEN "update" ELSE "none"]
  /\ Spawn("all")
  /\ UNCHANGED <<leaked, check, todo, rebuilds, loopVars>>

TriggerHealthCheck ==
  /\ spawned["all"] < MaxSpawned
  /\ Spawn("all")
  /\ UNCHANGED <<statVars, leaked, check, todo, rebuilds, due, loopVars>>

(* Its first section; RebuildActiveIPs is the second.                      *)
RemoveInvalidIPs ==
  LET invalid == {i \in allIPs : failures[i] >= 3} IN
  /\ ~leaked
  /\ invalid # {}
  /\ rebuilds < MaxSpawned
  /\ allIPs' = allIPs \ invalid
  /\ latencyVal' = [i \in IPs |-> IF i \in invalid THEN 0 ELSE latencyVal[i]]
  /\ failures' = [i \in IPs |-> IF i \in invalid THEN 0 ELSE failures[i]]
  /\ due' = [i \in IPs |-> IF i \in invalid THEN "none" ELSE due[i]]
  /\ rebuilds' = rebuilds + 1
  /\ UNCHANGED <<activeIPs, leaked, spawned, check, todo, loopVars>>

RebuildActiveIPs ==
  activeIPs' \in SortedLists(Healthy(allIPs, latencyVal, failures), latencyVal)

CallerRebuilds ==
  /\ ~leaked
  /\ rebuilds > 0
  /\ rebuilds' = rebuilds - 1
  /\ RebuildActiveIPs
  /\ UNCHANGED <<allIPs, latencyVal, failures, leaked, spawned, check, todo, due, loopVars>>

Bump(n) == IF n < MaxFail THEN n + 1 ELSE n

(* A listed address: penalised, a check is spawned at two failures, and    *)
(* the function returns without p.mu.Unlock().  Any other: the active list *)
(* is rebuilt.                                                             *)
ReportFailure(i) ==
  /\ ~leaked
  /\ i \in Failing
  /\ \/ /\ i \in allIPs
        /\ failures' = [failures EXCEPT ![i] = Bump(@)]
        /\ latencyVal' = [latencyVal EXCEPT ![i] = @ + Penalty]
        /\ IF failures[i] + 1 >= 2
           THEN Spawn("incremental") /\ due' = [due EXCEPT ![i] = "failure"]
           ELSE UNCHANGED <<spawned, due>>
        /\ leaked' = TRUE
        /\ UNCHANGED rebuilds
     \/ /\ i \notin allIPs
        /\ rebuilds < MaxSpawned
        /\ rebuilds' = rebuilds + 1
        /\ UNCHANGED <<failures, latencyVal, spawned, due, leaked>>
  /\ UNCHANGED <<allIPs, activeIPs, check, todo, loopVars>>

ReportSuccess(i) ==
  /\ ~leaked
  /\ i \in allIPs
  /\ failures[i] > 0
  /\ failures' = [failures EXCEPT ![i] = @ - 1]
  /\ UNCHANGED <<allIPs, latencyVal, activeIPs, leaked, spawned, check, todo,
                 rebuilds, due, loopVars>>

-----------------------------------------------------------------------------
(* checkAllIPs and checkIncremental.                                       *)

(* Mutant: the flag is not looked at, a second check takes over.           *)
CheckStartsAnyway(c) ==
  /\ spawned[c] > 0
  /\ spawned' = [spawned EXCEPT ![c] = @ - 1]
  /\ check' = c
  /\ UNCHANGED <<statVars, leaked, todo, rebuilds, due, loopVars>>

(* checkRunning.CompareAndSwap(false, true): the loser returns.            *)
CheckStarts(c) ==
  /\ spawned[c] > 0
  /\ spawned' = [spawned EXCEPT ![c] = @ - 1]
  /\ check' = IF check = "idle" THEN c ELSE check
  /\ UNCHANGED <<statVars, leaked, todo, rebuilds, due, loopVars>>

(* Under RLock the addresses are copied.  The incremental check takes      *)
(* those with two failures, those never checked, and some others, last     *)
(* checked more than 30 minutes ago.  An empty list ends the check.        *)
CheckSnapshot ==
  /\ check \in {"all", "incremental"}
  /\ ~leaked
  /\ \E S \in SUBSET allIPs :
       /\ IF check = "all" THEN S = allIPs
                           ELSE {i \in allIPs : failures[i] >= 2} \subseteq S
       /\ todo' = S
       /\ check' = IF S = {} THEN "rebuilt" ELSE "probing"
  /\ UNCHANGED <<statVars, leaked, spawned, rebuilds, due, loopVars>>

(* testIP returns and its goroutine records the result, if the address is  *)
(* still listed.                                                           *)
ProbeReturns(i) ==
  /\ check = "probing"
  /\ ~leaked
  /\ i \in todo
  /\ todo' = todo \ {i}
  /\ \/ i \notin allIPs /\ UNCHANGED <<latencyVal, failures>>
     \/ /\ i \in allIPs
        /\ failures' = [failures EXCEPT ![i] = Bump(@)]
        /\ latencyVal' = [latencyVal EXCEPT ![i] = 0]
     \/ /\ i \in allIPs
        /\ failures' = [failures EXCEPT ![i] = 0]
        /\ \E l \in 1..MaxLatency : latencyVal' = [latencyVal EXCEPT ![i] = l]
  /\ due' = [due EXCEPT ![i] = "none"]
  /\ UNCHANGED <<allIPs, activeIPs, leaked, spawned, check, rebuilds, loopVars>>

(* Mutant: checkIPs ends without rebuildActiveIPs.                         *)
CheckRebuildsNothing ==
  /\ check = "probing"
  /\ todo = {}
  /\ ~leaked
  /\ check' = "rebuilt"
  /\ UNCHANGED <<statVars, leaked, spawned, todo, rebuilds, due, loopVars>>

(* wg.Wait() is over.                                                      *)
CheckRebuilds ==
  /\ check = "probing"
  /\ todo = {}
  /\ ~leaked
  /\ RebuildActiveIPs
  /\ check' = "rebuilt"
  /\ UNCHANGED <<allIPs, latencyVal, failures, leaked, spawned, todo, rebuilds, due, loopVars>>

(* Mutant: the flag stays set.                                             *)
CheckEndsKeepsFlag ==
  /\ check = "rebuilt"
  /\ UNCHANGED poolVars

(* The deferred checkRunning.Store(false).                                 *)
CheckEnds ==
  /\ check = "rebuilt"
  /\ check' = "idle"
  /\ UNCHANGED <<statVars, leaked, spawned, todo, rebuilds, due, loopVars>>

-----------------------------------------------------------------------------
(* Start, Stop and healthCheckLoop; ProxyServer calls Start and Stop in    *)
(* turn.                                                                   *)

Start ==
  /\ owner = "stopped" /\ ~running /\ ~leaked
  /\ running' = TRUE /\ stopClosed' = FALSE /\ loop' = "born" /\ owner' = "started"
  /\ UNCHANGED <<statVars, leaked, spawned, check, todo, rebuilds, due>>

LoopStarts ==
  /\ loop = "born"
  /\ spawned["all"] <= MaxSpawned
  /\ Spawn("all")
  /\ loop' = "waiting"
  /\ UNCHANGED <<statVars, leaked, check, todo, rebuilds, due, running, stopClosed, owner>>

LoopEnds ==
  /\ loop = "waiting" /\ stopClosed
  /\ loop' = "none"
  /\ UNCHANGED <<statVars, leaked, spawned, check, todo, rebuilds, due, running, stopClosed, owner>>

Stop ==
  /\ owner = "started" /\ running /\ ~leaked
  /\ running' = FALSE /\ stopClosed' = TRUE /\ owner' = "stopping"
  /\ UNCHANGED <<statVars, leaked, spawned, check, todo, rebuilds, due, loop>>

StopReturns ==
  /\ owner = "stopping" /\ loop = "none"
  /\ owner' = "stopped"
  /\ UNCHANGED <<statVars, leaked, spawned, check, todo, rebuilds, due, running, stopClosed, loop>>

-----------------------------------------------------------------------------
Caller ==
  \/ \E ips \in SUBSET IPs : UpdateIPs(ips)
  \/ TriggerHealthCheck
  \/ RemoveInvalidIPs
  \/ \E i \in IPs : ReportFailure(i) \/ ReportSuccess(i)
  \/ Start \/ Stop

Checker ==
  \/ \E c \in {"all", "incremental"} : CheckStarts(c)
  \/ CheckSnapshot \/ CheckRebuilds \/ CheckEnds
  \/ \E i \in IPs : ProbeReturns(i)

PoolNext == Caller \/ CallerRebuilds \/ Checker \/ LoopStarts \/ LoopEnds \/ StopReturns

(* Goroutines that can run are run; a probe ends within its 3 s dial       *)
(* timeout.  Nobody need call the pool.                                    *)
PoolFairness ==
  /\ \A c \in {"all", "incremental"} : WF_poolVars(CheckStarts(c))
  /\ WF_poolVars(CheckSnapshot) /\ WF_poolVars(CheckRebuilds) /\ WF_poolVars(CheckEnds)
  /\ \A i \in IPs : WF_poolVars(ProbeReturns(i))
  /\ WF_poolVars(CallerRebuilds) /\ WF_poolVars(LoopStarts)
  /\ WF_poolVars(LoopEnds) /\ WF_poolVars(StopReturns)

PoolSpec == PoolInit /\ [][PoolNext]_poolVars
PoolFairSpec == PoolSpec /\ PoolFairness

-----------------------------------------------------------------------------
(* Nobody is about to rebuild the active list.                             *)
PoolSettled == check # "probing" /\ rebuilds = 0

(* The list GetTopIPs serves may lag behind the measurements only while    *)
(* someone is on its way to rebuild it: updates, removals, checks and      *)
(* reports in any interleaving leave exactly the healthy listed addresses  *)
(* active.                                                                 *)
ActiveFollows ==
  PoolSettled /\ ~leaked => Items(activeIPs) = Healthy(allIPs, latencyVal, failures)

(* Then GetTopIPs(1) is the fastest of them.                               *)
ActiveSorted ==
  PoolSettled /\ ~leaked =>
    \A i, j \in 1..Len(activeIPs) :
      i < j => latencyVal[activeIPs[i]] <= latencyVal[activeIPs[j]]

(* While a check probes, no second check can start and change todo: only   *)
(* its own probes shrink it (checkRunning).                                *)
OneCheck ==
  [][check = "probing" => todo' \subseteq todo /\ check' \in {"probing", "rebuilt"}]_poolVars

(* A check that holds checkRunning gives it back, however often the list   *)
(* changes under it, unless ReportFailure leaks the lock; otherwise no     *)
(* check would ever run again.                                             *)
CheckReturns == check # "idle" ~> check = "idle" \/ leaked

(* Stop waits for healthCheckLoop, and the loop ends.                      *)
StopIsBounded == owner = "stopping" ~> owner = "stopped"

(* cf_pool.go: "Health checks are now event-driven: Triggered by           *)
(* connection failures (ReportFailure)".                                   *)
FailureIsChecked == \A i \in IPs : due[i] = "failure" ~> due[i] # "failure"

(* Whatever updates, reports, removals and checks interleave, the active   *)
(* list is what GetTopIPs may believe: the healthy addresses, fastest      *)
(* first (cf_pool.go:76-328).                                             *)
PoolSound == PoolTypeOK /\ ActiveFollows /\ ActiveSorted

(* The two waits of the pool end: a check gives checkRunning back, and a   *)
(* Stop that waits for healthCheckLoop returns (cf_pool.go:60-80,          *)
(* 290-350).                                                               *)
ChecksEnd == CheckReturns /\ StopIsBounded
=============================================================================
