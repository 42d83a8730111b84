------------------------------ MODULE Routing -------------------------------
(***************************************************************************)
(* The decisions for a connection that are pure functions: the score of a  *)
(* rule's domain and the best rule (matchRule), the block list, and the    *)
(* lists of addresses to dial (buildDialCandidates and its helpers).       *)
(* A host is the sequence of its labels, LabelLen gives a label's length.  *)
(* A rule's domain is a record: the pattern's kind ("regex", "base" for    *)
(* base.*, "any" for *, "name" for all others, whose *. and $ are cut      *)
(* off), its labels, and for a regex its length and the hosts it matches.  *)
(* A rule has an Upstream (up) and Upstreams (ups), sequences of [addr,    *)
(* name, literal]; the addr "$" is a placeholder such as $backend_ip.      *)
(***************************************************************************)
EXTENDS Integers, Sequences, SequencesExt

CONSTANTS
    LabelLen(_), \* characters of a label
    Doubled      \* an IPv6 address in two pairs of brackets, which no dial accepts

\* Characters of a dotted name.
Chars(name) ==
    LET upTo[i \in 0 .. Len(name)] ==
            IF i = 0 THEN -1 ELSE upTo[i - 1] + 1 + LabelLen(name[i])
    IN  upTo[Len(name)]

\* name is a proper suffix of host, at a dot: HasSuffix(host, "." + name).
Under(host, name) ==
    /\ Len(host) > Len(name)
    /\ SubSeq(host, Len(host) - Len(name) + 1, Len(host)) = name

\* The labels of base occur in host with at least one label behind them.
HoldsBase(host, base) ==
    \E i \in 0 .. Len(host) - Len(base) - 1 :
        SubSeq(host, i + 1, i + Len(base)) = base

\* domainMatchScore; 900 + len of a long regular expression beats 1000 + len.
domainMatchScore(host, d) ==
    CASE d.kind = "regex" -> IF host \in d.hosts THEN 900 + d.len ELSE -1
      [] d.kind = "base" -> IF HoldsBase(host, d.name) THEN Chars(d.name) ELSE -1
      [] d.kind = "any" -> 1
      [] OTHER -> IF host = d.name THEN 1000 + Chars(d.name)
                  ELSE IF Under(host, d.name) THEN Chars(d.name)
                  ELSE -1

\* A mutant: the last rule of the highest score wins.
BestRuleLastWins(rules, host) ==
    LET Score(i) == IF i = 0 THEN -1 ELSE domainMatchScore(host, rules[i].domain)
        best[i \in 0 .. Len(rules)] ==
            IF i = 0 THEN 0
            ELSE LET b == best[i - 1]
                 IN  IF rules[i].enabled /\ Score(i) >= 0 /\ Score(i) >= Score(b)
                     THEN i ELSE b
    IN  best[Len(rules)]

\* matchRule's loop: the first enabled rule of the highest score, or 0.
BestRule(rules, host) ==
    LET Score(i) == IF i = 0 THEN -1 ELSE domainMatchScore(host, rules[i].domain)
        best[i \in 0 .. Len(rules)] ==
            IF i = 0 THEN 0
            ELSE LET b == best[i - 1]
                 IN  IF rules[i].enabled /\ Score(i) > Score(b) THEN i ELSE b
    IN  best[Len(rules)]

\* GFWList.IsBlocked: the host or a parent domain is listed.
IsBlocked(host, domains) ==
    \E d \in domains : host = d \/ Under(host, d)

\* The synthetic rules of matchRule and of AutoRouter.Decide.
PlainRule(mode) ==
    [mode |-> mode, up |-> <<>>, ups |-> <<>>, dns |-> "", pool |-> FALSE, policy |-> "",
     site |-> FALSE, fallback |-> FALSE]
CloudflareRule == [PlainRule("mitm") EXCEPT !.pool = TRUE]
BlockedRule(auto) == [PlainRule("tls-rf") EXCEPT !.fallback = auto = "server"]

\* mergeRule, for the fields that choose addresses.
mergeRule(base, overlay) ==
    [base EXCEPT !.up = IF overlay.up # <<>> THEN overlay.up ELSE @,
                 !.ups = IF overlay.ups # <<>> THEN overlay.ups ELSE @,
                 !.dns = IF overlay.dns # "" THEN overlay.dns ELSE @,
                 !.policy = IF overlay.policy # "" THEN overlay.policy ELSE @]

\* resolveRuleUpstream: Upstream comes first, Upstreams count without one or
\* behind a placeholder, which alone stands for the target itself (own).
resolveRuleUpstream(r, own) ==
    LET placeholder == r.up # <<>> /\ r.up[1].addr = "$"
    IN  IF r.up # <<>> /\ ~placeholder THEN r.up
        ELSE IF r.ups # <<>> THEN r.ups
        ELSE IF placeholder THEN <<own>> ELSE <<>>

-----------------------------------------------------------------------------
\* A mutant: repetitions stay.
dedupeNothing(s) == s

\* Without repetitions, each element where it came first.
dedupeDialCandidates(s) ==
    LET out[i \in 0 .. Len(s)] ==
            IF i = 0 THEN <<>>
            ELSE IF s[i] \in Range(out[i - 1]) THEN out[i - 1] ELSE Append(out[i - 1], s[i])
    IN  out[Len(s)]

\* The elements of s that are in S.
Only(s, S) ==
    LET out[i \in 0 .. Len(s)] ==
            IF i = 0 THEN <<>>
            ELSE IF s[i] \in S THEN Append(out[i - 1], s[i]) ELSE out[i - 1]
    IN  out[Len(s)]

\* v4: the addresses with ip.To4() # nil.
reorderIPsByDNSMode(ips, dns, v4) ==
    LET v4s == Only(ips, v4)
        v6s == Only(ips, Range(ips) \ v4)
    IN  CASE dns = "prefer_ipv4" -> v4s \o v6s
          [] dns = "prefer_ipv6" -> v6s \o v4s
          [] dns = "ipv4_only" -> v4s
          [] dns = "ipv6_only" -> v6s
          [] OTHER -> ips

\* resolveSystemDNS: the IPv4 addresses once each, else all IPv6 ones, which
\* get their brackets twice and may repeat.
resolveSystemDNS(found, v4) ==
    LET v4s == dedupeDialCandidates(Only(found, v4))
    IN  IF v4s # <<>> THEN v4s
        ELSE [i \in DOMAIN found |-> Doubled]
=============================================================================
