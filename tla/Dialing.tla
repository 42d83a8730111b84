------------------------------- MODULE Dialing ------------------------------
(***************************************************************************)
(* What a proxied connection decides before bytes flow, composed from the  *)
(* pure decisions (Routing), the resolver (Resolver) and the split of the  *)
(* first record (TLSFragment): matchRule, the automatic route with its     *)
(* Cloudflare test, handleConnect's choice of mode and second-stage rule,  *)
(* buildDialCandidates, and handleTLSFragment's send.                      *)
(* One connection: connections share only the Cloudflare cache.            *)
(* RuleManager has the locks matchRule takes, Handlers the dialling.       *)
(***************************************************************************)
EXTENDS Resolver, TLSFragment

CONSTANTS
    Requests,  \* what arrives: [kind, host, literal, mode, auto, rules, nodes]
    Hellos,    \* first records of a client
    GFW,       \* listed domains
    CFNets,    \* addresses in Cloudflare's ranges
    PoolIPs,   \* what GetTopIPs(5) can return
    Target,    \* the address the client asked for
    NoRule

\* A name has at least one character, a dot counting as one.
NameOK(name) ==
    /\ name \in Seq(Range(name)) /\ name # <<>>
    /\ \A i \in DOMAIN name : LabelLen(name[i]) \in Nat
    /\ Len(name) = 1 => LabelLen(name[1]) > 0

\* A pattern is not empty: domainMatchScore ends at once for one that is.
DomainOK(d) ==
    /\ d.kind \in {"regex", "base", "any", "name"}
    /\ d.kind = "regex" => d.len \in Nat \ {0}
    /\ d.kind \in {"base", "name"} => NameOK(d.name)

RuleOK(r) ==
    /\ r.enabled \in BOOLEAN /\ DomainOK(r.domain)
    /\ "up" \in DOMAIN r /\ r.up \in Seq(Range(r.up))
    /\ "ups" \in DOMAIN r /\ r.ups \in Seq(Range(r.ups))

\* parseClientHello has found the name inside the record, behind the header.
HelloOK(h) ==
    /\ h.len \in Nat /\ h.pos \in Nat /\ h.name \in Nat /\ h.dots \subseteq Nat
    /\ HeaderLen < h.pos /\ h.pos + h.name <= h.len

ASSUME DialAssumption ==
    /\ \A h \in Hellos : HelloOK(h)
    /\ \A q \in Requests :
          /\ "rules" \in DOMAIN q /\ q.rules \in Seq(Range(q.rules))
          /\ \A i \in DOMAIN q.rules : RuleOK(q.rules[i])
    /\ \A top \in PoolIPs : top \in Seq(Range(top))

VARIABLES
    pc,      \* "match", "cf", "matched", "cf2", "staged", "dial", "system", "ready",
             \* "sent", "panic", "closed"
    req,     \* the request
    rule,    \* the rule matchRule returned
    eff,     \* effectiveMode
    cands,   \* dialCandidates
    cfCache, \* the cached answer for the host: "none", "yes", "no"
    hello    \* the client's first record

dvars == <<pc, req, rule, eff, cands, cfCache, hello>>
vars == <<rvars, dvars>>

NoHello == [len |-> 0, pos |-> 0, name |-> 0, dots |-> {}]
UpstreamModes == {"mitm", "transparent", "tls-rf", "quic"}
\* Modes whose handlers build no candidates: they dial the target itself, or
\* a proxy that is given its name.
Undialled == {"direct", "v2ray", "gas", "server"}

-----------------------------------------------------------------------------
\* A request has arrived; the cache may know its host.
Init ==
    /\ ResolverInit
    /\ req \in Requests /\ nodes = req.nodes
    /\ cfCache \in IF req.auto = "" THEN {"none"} ELSE {"none", "yes", "no"}
    /\ pc = "match" /\ rule = NoRule
    /\ eff = "" /\ cands = <<>> /\ hello = NoHello

Matched(r) == rule' = r /\ pc' = "matched"

\* The best manual rule, a mitm rule downgraded under the transparent mode.
ManualRule(rules, host, mode) ==
    LET r == rules[BestRule(rules, host)]
    IN  IF mode = "transparent" /\ r.mode = "mitm"
        THEN [r EXCEPT !.mode = "direct"] ELSE r

\* The AutoRouter has to know whether the host is Cloudflare's.
Asks(host, auto) == auto \in {"default", "server"} /\ IsBlocked(host, GFW)
CFRule(auto, isCF) == IF isCF THEN CloudflareRule ELSE BlockedRule(auto)

\* matchRule, as far as it goes without a lookup.
matchRule ==
    /\ pc = "match"
    /\ LET global == {"v2ray", "gas"}
           best == BestRule(req.rules, req.host)
       IN  \/ /\ req.mode \in global
              /\ Matched(PlainRule(req.mode))
           \/ /\ req.mode \notin global /\ req.auto \in global
              /\ Matched(PlainRule(req.auto))
           \/ /\ {req.mode, req.auto} \cap global = {} /\ best # 0
              /\ Matched(ManualRule(req.rules, req.host, req.mode))
           \/ /\ {req.mode, req.auto} \cap global = {} /\ best = 0
              /\ ~Asks(req.host, req.auto)
              /\ Matched(PlainRule("direct"))
           \/ /\ {req.mode, req.auto} \cap global = {} /\ best = 0
              /\ Asks(req.host, req.auto) /\ cfCache # "none"
              /\ Matched(CFRule(req.auto, cfCache = "yes"))
    /\ UNCHANGED <<rvars, req, eff, cands, cfCache, hello>>

\* IsCloudflare without a cache entry: a lookup with a deadline of 5 s.
IsCloudflareAsks ==
    /\ pc = "match" /\ {req.mode, req.auto} \cap {"v2ray", "gas"} = {}
    /\ BestRule(req.rules, req.host) = 0
    /\ Asks(req.host, req.auto) /\ cfCache = "none"
    /\ \E self \in BOOLEAN : ResolveIPAddrs(self)
    /\ pc' = "cf" /\ req' = [req EXCEPT !.rules = <<>>]
    /\ UNCHANGED <<rule, eff, cands, cfCache, hello>>

\* matchRule still holds the rules' read lock and takes it once more, in
\* emitRouteEvent: that waits behind a writer who waits.
NoWriter == \A q \in Queries : \A n \in AllNodes : task[q][n] # "lock"

IsCloudflareKnows ==
    /\ pc = "cf" /\ call = "returned" /\ NoWriter
    /\ LET isCF == Range(ips) \cap CFNets # {}
       IN  /\ cfCache' = IF isCF THEN "yes" ELSE "no"
           /\ Matched(CFRule(req.auto, isCF))
    /\ Taken
    /\ UNCHANGED <<req, eff, cands, hello>>

\* startCleanup's tick, 30 minutes later.
CacheExpires ==
    /\ pc = "match" /\ cfCache # "none"
    /\ cfCache' = "none"
    /\ UNCHANGED <<rvars, pc, req, rule, eff, cands, hello>>

-----------------------------------------------------------------------------
\* handleConnect: the policy overrides the mode; an HTTP request has none.
EffectiveMode ==
    IF req.kind = "http" THEN rule.mode
    ELSE CASE rule.policy \in {"tunnel_origin", "tunnel_upstream"} -> "transparent"
           [] rule.policy \in {"mitm", "direct"} -> rule.policy
           [] OTHER -> rule.mode

\* The upstreams a rule has for this request; ports are left out.
Ups(r) == resolveRuleUpstream(r, [addr |-> Target, name |-> req.host, literal |-> req.literal])

\* The first upstream, a literal address too, is matched like a host of its own.
SecondStage ==
    /\ req.kind = "connect" /\ EffectiveMode \in {"mitm", "transparent"}
    /\ rule.policy # "tunnel_origin" /\ Ups(rule) # <<>>
UpHost == Ups(rule)[1].name

\* The rule of the upstream's own site is laid over the first.  matchRule's
\* synthetic rules belong to no site and change nothing.
Stage2 ==
    IF /\ SecondStage /\ req.auto \notin {"v2ray", "gas"}
       /\ BestRule(req.rules, UpHost) # 0
       /\ ManualRule(req.rules, UpHost, EffectiveMode).site
    THEN mergeRule(rule, ManualRule(req.rules, UpHost, EffectiveMode)) ELSE rule

\* No manual rule is the upstream's and the cache does not know it: the
\* AutoRouter of the second match looks it up, for a rule without a site.
Stage2Asks ==
    /\ pc = "matched" /\ SecondStage
    /\ BestRule(req.rules, UpHost) = 0 /\ Asks(UpHost, req.auto)
    /\ \E self \in BOOLEAN : ResolveIPAddrs(self)
    /\ pc' = "cf2" /\ req' = [req EXCEPT !.rules = <<>>]
    /\ UNCHANGED <<rule, eff, cands, cfCache, hello>>

Stage2Knows ==
    /\ pc = "cf2" /\ call = "returned" /\ NoWriter
    /\ pc' = "staged"
    /\ Taken
    /\ UNCHANGED <<req, rule, eff, cands, cfCache, hello>>

Ready(list) == cands' = list /\ pc' = "ready"

\* splitUpstreamCandidates.
Upstreams(r) == dedupeDialCandidates([i \in DOMAIN Ups(r) |-> Ups(r)[i].addr])

\* The upstream "warp" names no host.
IsWarp(r) == r.up # <<>> /\ r.up[1].addr = "warp"
Fixed(r) == Ups(r) # <<>> /\ ~IsWarp(r)

\* The name buildDialCandidates looks up, <<>> when it is a literal address.
Wanted(r) ==
    IF Fixed(r) THEN IF Ups(r)[1].literal THEN <<>> ELSE Ups(r)[1].name
    ELSE IF req.literal THEN <<>> ELSE req.host
Resolves(r, mode) == mode \in UpstreamModes \/ (IsWarp(r) /\ mode \notin Undialled)

\* buildDialCandidates when nothing has to be looked up: another mode, literal
\* upstreams, addresses of the pool, or a literal target.
buildDialCandidates ==
    /\ pc \in {"matched", "staged"}
    /\ eff' = EffectiveMode /\ rule' = Stage2
    /\ \/ ~Resolves(rule', eff') /\ Ready(<<Target>>)
       \/ /\ Resolves(rule', eff') /\ Wanted(rule') = <<>>
          /\ Ready(IF Fixed(rule') THEN Upstreams(rule') ELSE <<Target>>)
       \/ /\ Resolves(rule', eff') /\ Ups(rule') = <<>> /\ rule'.pool
          /\ \E top \in PoolIPs : top # <<>> /\ Ready(dedupeDialCandidates(top))
    /\ req' = [req EXCEPT !.rules = <<>>]
    /\ UNCHANGED <<rvars, cfCache, hello>>

\* resolveDomainCandidates begins: there is a name, and the pool is not used
\* or has nothing.  self: the name is a DNS node's.
CandidatesAsk ==
    /\ pc \in {"matched", "staged"}
    /\ eff' = EffectiveMode /\ rule' = Stage2
    /\ Resolves(rule', eff') /\ Wanted(rule') # <<>>
    /\ (Ups(rule') = <<>> /\ rule'.pool) => <<>> \in PoolIPs
    /\ \E self \in BOOLEAN : ResolveIPAddrs(self)
    /\ pc' = "dial" /\ req' = [req EXCEPT !.rules = <<>>]
    /\ UNCHANGED <<cands, cfCache, hello>>

\* What resolveDomainCandidates makes of the answer.
Candidates == dedupeDialCandidates(reorderIPsByDNSMode(ips, rule.dns, {V4}))

CandidatesResolved ==
    /\ pc = "dial" /\ call = "returned"
    /\ \/ Candidates # <<>> /\ Ready(Candidates)
       \/ Candidates = <<>> /\ pc' = "system" /\ UNCHANGED cands
    /\ Taken
    /\ UNCHANGED <<req, rule, eff, cfCache, hello>>

\* The system's resolver is asked last, but not for "warp"; then the rule's
\* upstreams or the target stay.
CandidatesFallBack ==
    /\ pc = "system"
    /\ \/ /\ ~IsWarp(rule)
          /\ \E found \in SystemFinds : Ready(resolveSystemDNS(found, {V4}))
       \/ Ready(IF Fixed(rule) THEN Upstreams(rule) ELSE <<Target>>)
    /\ UNCHANGED <<rvars, req, rule, eff, cfCache, hello>>

\* handleTLSFragment once a candidate is connected.
handleTLSFragment ==
    /\ pc = "ready" /\ eff = "tls-rf" /\ req.kind = "connect"
    /\ \E h \in Hellos : hello' = h /\ pc' = IF Panics(h) THEN "panic" ELSE "sent"
    /\ UNCHANGED <<rvars, req, rule, eff, cands, cfCache>>

\* The connection is over; net/http recovers from a handler's panic.
Close ==
    /\ pc \in {"ready", "sent", "panic"}
    /\ pc' = "closed"
    /\ UNCHANGED <<rvars, req, rule, eff, cands, cfCache, hello>>

-----------------------------------------------------------------------------
\* A CONNECT's dial lookup has no deadline.
Deadline == ContextDone /\ (pc \in {"cf", "cf2"} \/ req.kind = "http") /\ UNCHANGED dvars
Lookup == ResolverStep /\ UNCHANGED dvars

\* A match that looks a host up holds the read lock meanwhile.
StoreECH ==
    /\ pc \notin {"cf", "cf2"}
    /\ \E q \in Queries, n \in AllNodes : UpdateECHProfileConfig(q, n)
    /\ UNCHANGED dvars

DecideStep ==
    \/ matchRule \/ IsCloudflareAsks \/ IsCloudflareKnows
    \/ Stage2Asks \/ Stage2Knows
    \/ buildDialCandidates \/ CandidatesAsk \/ CandidatesResolved
    \/ CandidatesFallBack \/ handleTLSFragment \/ Close

Next == CacheExpires \/ Deadline \/ Lookup \/ StoreECH \/ DecideStep

Spec == Init /\ [][Next]_vars

\* Node queries and the system's lookups have timeouts; a free lock is got.
FairSpec == Spec /\ WF_vars(Lookup \/ StoreECH \/ DecideStep)

-----------------------------------------------------------------------------
(* The state has its type, the race's channel never holds more results     *)
(* than it was made for, and no dial begins without a candidate.           *)
TypeOK ==
    /\ nodes \in NodeLists /\ ctx \in {"live", "done"}
    /\ call \in {"none", "self", "wait", "returned"}
    /\ \A q \in Queries :
          /\ st[q] \in {"off", "primary", "race", "system", "append", "write", "done", "err"}
          /\ \A n \in AllNodes : task[q][n] \in
                {"off", "query", "lock", "retry", "cancel", "answered", "failed", "late", "stopped"}
          /\ stop[q] \in BOOLEAN
          /\ Len(resChan[q]) <= Len(nodes)
    /\ \A i \in DOMAIN ips : ips[i] \in {V4, V6, Junk}
    /\ pc \in {"match", "cf", "matched", "cf2", "staged", "dial", "system", "ready",
               "sent", "panic", "closed"}
    /\ cfCache \in {"none", "yes", "no"}
    /\ pc \in {"ready", "sent", "panic"} => cands # <<>>

\* The classes of domainMatchScore's comments: exact, regular expression,
\* domain by its length, "*" last.
Class(host, d) ==
    CASE d.kind = "name" /\ host = d.name -> <<3, 0>>
      [] d.kind = "regex" -> <<2, d.len>>
      [] d.kind = "any" -> <<0, 0>>
      [] OTHER -> <<1, Chars(d.name)>>
Above(c, d) == c[1] > d[1] \/ (c[1] = d[1] /\ c[2] > d[2])
Applies(host, r) == r.enabled /\ domainMatchScore(host, r.domain) >= 0

\* matchRule takes the first of the most specific enabled rules, as the
\* comments on the scores order them, although it compares plain sums; as
\* long as no regular expression is longer than 100 characters and no parent
\* domain or base pattern is a single one or longer than 900, where the sums
\* of two classes meet.
MostSpecific ==
    (pc = "match" /\ {req.mode, req.auto} \cap {"v2ray", "gas"} = {}) =>
        LET rs == req.rules
            on == {i \in DOMAIN rs : Applies(req.host, rs[i])}
            C(i) == Class(req.host, rs[i].domain)
        IN  (\A i \in on : /\ C(i)[1] = 2 => C(i)[2] <= 100
                           /\ C(i)[1] = 1 => C(i)[2] \in 2 .. 900)
            => LET b == BestRule(rs, req.host)
               IN  IF on = {} THEN b = 0
                   ELSE /\ b \in on
                        /\ \A i \in on : ~Above(C(i), C(b))
                        /\ \A i \in on : i < b => C(i) # C(b)

\* An answer is never thrown away for the system's: a query that asks the
\* system has had a failure of its own from every node,
\* unless the caller's context was done.  A winner of the race must be in the
\* channel before its cancel can make the others fail.
AnswerWins ==
    \A q \in Queries :
        (call = "wait" /\ st[q] = "system" /\ ctx = "live") =>
            \A n \in Range(nodes) : task[q][n] = "failed"

\* What ResolveIPAddrs returns although its goroutines append to one slice
\* without a lock: all addresses of a query whose peer found none, something
\* whenever a query found something, and nothing that neither found, unless
\* two writes of the slice's header met.
Found(q) == IF st[q] = "done" THEN ans[q] ELSE <<>>
ResultSurvives ==
    (call = "returned" /\ \A q \in Queries : st[q] \in {"done", "err"}) =>
        /\ \A q \in Queries : Found(Other(q)) = <<>> => ips = Found(q)
        /\ (\E q \in Queries : Found(q) # <<>>) => ips # <<>>
        /\ Range(ips) \subseteq Range(Found("A")) \cup Range(Found("AAAA")) \cup {Junk}
        /\ Junk \in Range(ips) => \A q \in Queries : Found(q) # <<>>

\* The candidates hold no address twice (the system's AAAA reply repeats the
\* IPv4 ones), but for the useless ones of resolveSystemDNS; and those made
\* from the resolver's result obey the rule's DNS mode whenever it found an
\* address of the wanted family.  The last fall-back to the system's resolver
\* ignores the mode and is not claimed to obey it.
CandidatesObey ==
    /\ (pc \in {"ready", "sent", "panic"} /\ Doubled \notin Range(cands)) => IsInjective(cands)
    /\ (pc = "dial" /\ call = "returned" /\ Junk \notin Range(ips)) =>
          LET c == Candidates
              has4 == V4 \in Range(ips)
              has6 == V6 \in Range(ips)
          IN  /\ rule.dns = "ipv4_only" => Range(c) = {V4} \cap Range(ips)
              /\ rule.dns = "ipv6_only" => Range(c) = {V6} \cap Range(ips)
              /\ rule.dns = "prefer_ipv4" /\ has4 => c[1] = V4
              /\ rule.dns = "prefer_ipv6" /\ has6 => c[1] = V6
              /\ rule.dns \notin {"ipv4_only", "ipv6_only"} => Range(c) = Range(ips)

\* The records sendRecords writes carry the hello's payload, in order and
\* once, none empty.  A record carries the whole server name only where the
\* cut misses it: a '.' is the byte behind the name, which findLastDot reads
\* too, or the name's only dot is its first byte, or it has no dot and at
\* most one byte.  (Where there is no byte behind the name, nothing is sent.)
Missed(h) ==
    LET end == h.pos + h.name
        dots == h.dots \cap (h.pos .. end - 1)
    IN  end \in h.dots \/ dots = {h.pos} \/ (dots = {} /\ h.name <= 1)
HelloSplit ==
    pc = "sent" =>
        LET rs == sendRecords(hello)
        IN  /\ rs[1][1] = HeaderLen /\ rs[Len(rs)][2] = hello.len
            /\ \A i \in 1 .. Len(rs) - 1 : rs[i][2] = rs[i + 1][1]
            /\ \A i \in DOMAIN rs : rs[i][1] < rs[i][2]
            /\ ~Missed(hello) =>
                  \A i \in DOMAIN rs :
                      ~(rs[i][1] <= hello.pos /\ hello.pos + hello.name <= rs[i][2])

\* A lookup made by matchRule, under the read lock, whose refreshed ECH
\* profile needs the write lock: each waits for the other.
OwnWrite == pc \in {"cf", "cf2"} /\ ~NoWriter


\* A lookup does not throw a node's answer away for the system's, and of what
\* its two queries found something comes back, all of it when one found
\* nothing.  (With both, one's addresses may overwrite the other's.)
LookupSound == TypeOK /\ AnswerWins /\ ResultSurvives
=============================================================================
