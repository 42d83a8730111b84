------------------------------ MODULE Resolver ------------------------------
(***************************************************************************)
(* FailoverResolver (doh.go): one ResolveIPAddrs call at a time, with its  *)
(* A and its AAAA query in goroutines of their own.  Each query asks the   *)
(* first enabled node, then lets the others race, then asks the system.    *)
(* A node that fails may fetch a fresh ECH configuration from the nodes    *)
(* without ECH, store it under the rules' write lock, and is then asked    *)
(* once more.                                                              *)
(* Abstracted: a DNS message is the sequence of the addresses it carries;  *)
(* V4 and V6 are the addresses of the name that is looked up.              *)
(***************************************************************************)
EXTENDS Integers, Sequences, FiniteSets, SequencesExt, Routing

CONSTANTS
    NodeLists,  \* the enabled DNS nodes, in their order of priority
    ECHNodes,   \* nodes with ECHEnabled and ECHAutoUpdate
    V4, V6,     \* an address of either family
    Junk        \* what a torn slice header makes of an element

\* No node is listed twice.
ASSUME ResolverAssumption ==
    /\ \A l \in NodeLists : l \in Seq(Range(l)) /\ IsInjective(l)
    /\ V4 # V6 /\ Junk \notin {V4, V6}

Queries == {"A", "AAAA"}
Other(q) == IF q = "A" THEN "AAAA" ELSE "A"

VARIABLES
    nodes,   \* activeNodes
    ctx,     \* the caller's context: "live" or "done"
    call,    \* ResolveIPAddrs: "none", "self", "wait", "returned"
    st,      \* where each query is in exchange and lookup
    task,    \* per query and node: where exchangeNodeWithRetry is
    resChan, \* per query: the race's results nobody has received yet
    stop,    \* per query: ctxCancel is cancelled
    ans,     \* per query: the addresses of the reply
    added,   \* per query: how many of them are appended
    slice,   \* per query: the value of ips its append has read
    ips      \* the slice both goroutines append to

rvars == <<nodes, ctx, call, st, task, resChan, stop, ans, added, slice, ips>>

AllNodes == UNION {Range(l) : l \in NodeLists}
Primary == nodes[1]
Racers == {nodes[i] : i \in 2 .. Len(nodes)}

\* What the answers can hold: the system's AAAA reply also carries the IPv4
\* addresses, which To16 turns into mapped ones.
NodeReply(q) == {<<>>, IF q = "A" THEN <<V4>> ELSE <<V6>>}
SystemReply(q, found) ==
    IF q # "A" THEN found ELSE Only(found, {V4})
\* What a lookup of the system can find; nothing there removes repetitions.
SystemFinds == {<<V4>>, <<V6>>, <<V4, V6>>, <<V4, V4>>, <<V6, V6>>}

\* exchangeNodeWithRetry can get a reply, fail, or (after an ECH refresh
\* through a node without ECH) be about to try once more.
CanRefresh(q, n) ==
    /\ task[q][n] = "query"
    /\ n \in ECHNodes
    /\ \E m \in Range(nodes) : m \notin ECHNodes
    /\ ctx = "live" /\ ~stop[q]

-----------------------------------------------------------------------------
ResolverInit ==
    /\ nodes \in NodeLists
    /\ ctx = "live" /\ call = "none"
    /\ st = [q \in Queries |-> "off"]
    /\ task = [q \in Queries |-> [n \in AllNodes |-> "off"]]
    /\ resChan = [q \in Queries |-> <<>>]
    /\ stop = [q \in Queries |-> FALSE]
    /\ ans = [q \in Queries |-> <<>>]
    /\ added = [q \in Queries |-> 0]
    /\ slice = [q \in Queries |-> <<>>]
    /\ ips = <<>>

\* No goroutine of an earlier race still runs.
Busy == {"query", "lock", "retry", "cancel"}
Settled == \A q \in Queries : \A n \in AllNodes : task[q][n] \notin Busy

\* The two goroutines begin, each with the first node or, without nodes, with
\* the system.
StartQueries ==
    /\ call' = "wait"
    /\ st' = [q \in Queries |-> IF nodes = <<>> THEN "system" ELSE "primary"]
    /\ task' = [q \in Queries |-> [n \in AllNodes |->
                   IF nodes # <<>> /\ n = Primary THEN "query" ELSE "off"]]

\* ResolveIPAddrs; self: the name is that of a DNS node, and the system is
\* asked first.  The racers of an earlier call share nothing with this one.
ResolveIPAddrs(self) ==
    /\ call = "none" /\ Settled
    /\ IF self
       THEN /\ call' = "self"
            /\ st' = [q \in Queries |-> "off"]
            /\ task' = [q \in Queries |-> [n \in AllNodes |-> "off"]]
       ELSE StartQueries
    /\ ctx' = "live"
    /\ resChan' = [q \in Queries |-> <<>>]
    /\ stop' = [q \in Queries |-> FALSE]
    /\ ans' = [q \in Queries |-> <<>>]
    /\ added' = [q \in Queries |-> 0]
    /\ slice' = [q \in Queries |-> <<>>]
    /\ ips' = <<>>
    /\ UNCHANGED nodes

SystemKnowsSelf ==
    /\ call = "self"
    /\ \/ /\ \E found \in SystemFinds : ips' = found
          /\ call' = "returned" /\ UNCHANGED <<st, task>>
       \/ StartQueries /\ UNCHANGED ips
    /\ UNCHANGED <<nodes, ctx, resChan, stop, ans, added, slice>>

\* The caller's deadline passes.
ContextDone ==
    /\ call = "wait" /\ ctx = "live"
    /\ ctx' = "done"
    /\ UNCHANGED <<nodes, call, st, task, resChan, stop, ans, added, slice, ips>>

\* The node's new ECH configuration is there; with an ECH profile it has to
\* be stored in the rules.
Refresh(q, n) ==
    /\ call = "wait" /\ CanRefresh(q, n)
    /\ \E next \in {"lock", "retry"} : task' = [task EXCEPT ![q][n] = next]
    /\ UNCHANGED <<nodes, ctx, call, st, resChan, stop, ans, added, slice, ips>>

\* The rules' write lock is free: the profile is stored.  Not a ResolverStep:
\* who holds the lock is for the module that composes this one.
UpdateECHProfileConfig(q, n) ==
    /\ task[q][n] = "lock"
    /\ task' = [task EXCEPT ![q][n] = "retry"]
    /\ UNCHANGED <<nodes, ctx, call, st, resChan, stop, ans, added, slice, ips>>

\* A failure, remembered with its reason: the node's own, or the context's.
Failure(q) == IF stop[q] THEN "stopped" ELSE IF ctx = "done" THEN "late" ELSE "failed"

\* exchange goes on after the first node: to the race or to the system.
PrimaryFails(q) ==
    /\ call = "wait" /\ st[q] = "primary" /\ task[q][Primary] # "lock"
    /\ st' = [st EXCEPT ![q] = IF Racers # {} THEN "race" ELSE "system"]
    /\ task' = [task EXCEPT ![q] = [n \in AllNodes |->
                   CASE n = Primary -> Failure(q)
                     [] n \in Racers -> "query"
                     [] OTHER -> "off"]]
    /\ UNCHANGED <<nodes, ctx, call, resChan, stop, ans, added, slice, ips>>

PrimaryAnswers(q) ==
    /\ call = "wait" /\ st[q] = "primary" /\ task[q][Primary] # "lock"
    /\ \E r \in NodeReply(q) : ans' = [ans EXCEPT ![q] = r]
    /\ task' = [task EXCEPT ![q][Primary] = "off"]
    /\ st' = [st EXCEPT ![q] = "append"]
    /\ UNCHANGED <<nodes, ctx, call, resChan, stop, added, slice, ips>>

Running(q, n) == n \in Racers /\ task[q][n] \in {"query", "retry"}


\* A racer sends its result into the buffered channel; a winner cancels the
\* others afterwards.  It may outlive its query, whose channel then keeps
\* what nobody will read.
Send(q, res) ==
    resChan' = [resChan EXCEPT ![q] = IF st[q] = "race" THEN Append(@, res) ELSE @]

\* How a racer's end is remembered, as long as its query still counts.
Ended(q, s) == IF st[q] = "race" THEN s ELSE "off"

RacerAnswers(q, n) ==
    /\ Running(q, n)
    /\ \E r \in NodeReply(q) : Send(q, [ok |-> TRUE, reply |-> r])
    /\ task' = [task EXCEPT ![q][n] = "cancel"]
    /\ UNCHANGED <<nodes, ctx, call, st, stop, ans, added, slice, ips>>

RacerCancels(q, n) ==
    /\ task[q][n] = "cancel"
    /\ stop' = [stop EXCEPT ![q] = TRUE]
    /\ task' = [task EXCEPT ![q][n] = Ended(q, "answered")]
    /\ UNCHANGED <<nodes, ctx, call, st, resChan, ans, added, slice, ips>>

RacerFails(q, n) ==
    /\ Running(q, n)
    /\ Send(q, [ok |-> FALSE, reply |-> <<>>])
    /\ task' = [task EXCEPT ![q][n] = Ended(q, Failure(q))]
    /\ UNCHANGED <<nodes, ctx, call, st, stop, ans, added, slice, ips>>

\* A mutant: the loop ends as soon as the channel is empty.
AllReceivedOnce(q, rest) == rest = <<>>

\* Every racer has sent and everything was received: the loop is over.
AllReceived(q, rest) ==
    /\ rest = <<>>
    /\ \A n \in Racers : task[q][n] \notin {"query", "lock", "retry"}

\* exchange returns: its cancel runs, and what has ended is forgotten.
Leave(q) ==
    /\ stop' = [stop EXCEPT ![q] = TRUE]
    /\ task' = [task EXCEPT ![q] = [n \in AllNodes |->
                   IF task[q][n] \in Busy THEN task[q][n] ELSE "off"]]

RaceReceives(q) ==
    /\ call = "wait" /\ st[q] = "race" /\ resChan[q] # <<>>
    /\ LET res == Head(resChan[q])
           rest == Tail(resChan[q])
       IN  IF res.ok
           THEN /\ st' = [st EXCEPT ![q] = "append"]
                /\ ans' = [ans EXCEPT ![q] = res.reply]
                /\ resChan' = [resChan EXCEPT ![q] = <<>>]
                /\ Leave(q)
           ELSE /\ st' = [st EXCEPT ![q] = IF AllReceived(q, rest) THEN "system" ELSE "race"]
                /\ resChan' = [resChan EXCEPT ![q] = rest]
                /\ UNCHANGED <<task, stop, ans>>
    /\ UNCHANGED <<nodes, ctx, call, added, slice, ips>>

\* The loop gives up when the context is done, without asking the system.
RaceGivesUp(q) ==
    /\ call = "wait" /\ st[q] = "race" /\ ctx = "done"
    /\ st' = [st EXCEPT ![q] = "err"]
    /\ resChan' = [resChan EXCEPT ![q] = <<>>]
    /\ Leave(q)
    /\ UNCHANGED <<nodes, ctx, call, ans, added, slice, ips>>

\* net.LookupIP, which knows no context.
SystemDNS(q) ==
    /\ call = "wait" /\ st[q] = "system"
    /\ \/ /\ \E found \in SystemFinds :
                ans' = [ans EXCEPT ![q] = SystemReply(q, found)]
          /\ st' = [st EXCEPT ![q] = "append"]
       \/ st' = [st EXCEPT ![q] = "err"] /\ UNCHANGED ans
    /\ Leave(q)
    /\ UNCHANGED <<nodes, ctx, call, resChan, added, slice, ips>>

\* lookup appends the reply's addresses, one by one and without a lock.
AppendReads(q) ==
    /\ call = "wait" /\ st[q] = "append" /\ added[q] < Len(ans[q])
    /\ slice' = [slice EXCEPT ![q] = ips]
    /\ st' = [st EXCEPT ![q] = "write"]
    /\ UNCHANGED <<nodes, ctx, call, task, resChan, stop, ans, added, ips>>

\* The header has three words: two writes at once can mix a shorter array
\* with a longer length.
Torn(q) ==
    /\ st[Other(q)] = "write"
    /\ Len(slice[q]) # Len(slice[Other(q)])

AppendWrites(q) ==
    /\ call = "wait" /\ st[q] = "write"
    /\ \/ ips' = Append(slice[q], ans[q][added[q] + 1])
       \/ Torn(q) /\ ips' = Append(slice[q], Junk)
    /\ added' = [added EXCEPT ![q] = @ + 1]
    /\ slice' = [slice EXCEPT ![q] = <<>>]
    /\ st' = [st EXCEPT ![q] = "append"]
    /\ UNCHANGED <<nodes, ctx, call, task, resChan, stop, ans>>

AppendEnds(q) ==
    /\ call = "wait" /\ st[q] = "append" /\ added[q] = Len(ans[q])
    /\ st' = [st EXCEPT ![q] = "done"]
    /\ UNCHANGED <<nodes, ctx, call, task, resChan, stop, ans, added, slice, ips>>

\* wg.Wait is over.
LookupReturns ==
    /\ call = "wait" /\ \A q \in Queries : st[q] \in {"done", "err"}
    /\ call' = "returned"
    /\ UNCHANGED <<nodes, ctx, st, task, resChan, stop, ans, added, slice, ips>>

\* The caller takes the addresses, none standing for an error; racers may
\* still run.
Taken ==
    /\ call = "returned" /\ call' = "none"
    /\ ctx' = "live" /\ ips' = <<>>
    /\ st' = [q \in Queries |-> "off"]
    /\ resChan' = [q \in Queries |-> <<>>]
    /\ ans' = [q \in Queries |-> <<>>]
    /\ added' = [q \in Queries |-> 0]
    /\ slice' = [q \in Queries |-> <<>>]
    /\ UNCHANGED <<nodes, task, stop>>

QueryStep(q) ==
    \/ PrimaryFails(q) \/ PrimaryAnswers(q)
    \/ RaceReceives(q) \/ RaceGivesUp(q)
    \/ SystemDNS(q)
    \/ AppendReads(q) \/ AppendWrites(q) \/ AppendEnds(q)
    \/ \E n \in AllNodes :
          \/ Refresh(q, n)
          \/ RacerAnswers(q, n) \/ RacerCancels(q, n) \/ RacerFails(q, n)

ResolverStep ==
    \/ SystemKnowsSelf
    \/ LookupReturns
    \/ \E q \in Queries : QueryStep(q)
=============================================================================
