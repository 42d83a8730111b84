------------------------------ MODULE MCDialing ------------------------------
(* Requests, DNS nodes and first records for the decisions of a connection. *)
EXTENDS Dialing, TLC

MCLabelLen(l) == IF l = "x" THEN 1 ELSE 2

Host == <<"ab", "cd", "ef">>
Short == <<"x", "ef">>
Cdn == <<"up", "gh">>

Dom(kind, name) == [kind |-> kind, name |-> name, hosts |-> {}, len |-> 0]
Regex(hosts, len) == [kind |-> "regex", name |-> <<>>, hosts |-> hosts, len |-> len]
Domains == {Dom("name", Host), Dom("name", <<"cd", "ef">>), Dom("name", <<"ef">>),
            Dom("base", <<"cd">>), Dom("base", <<"x">>), Dom("any", <<>>),
            Dom("name", <<"zz">>), Regex({Host}, 4), Regex({Host, Short}, 120)}

MCRule(domain, enabled, mode, up, dns, pool, policy) ==
    [domain |-> domain, enabled |-> enabled, mode |-> mode, up |-> up, ups |-> <<>>, dns |-> dns,
     pool |-> pool, policy |-> policy, site |-> TRUE, fallback |-> FALSE]
Plain(d, on) == MCRule(d, on, "direct", <<>>, "", FALSE, "")
Sole(mode, up, dns, pool, policy) ==
    <<MCRule(Dom("name", <<"ef">>), TRUE, mode, up, dns, pool, policy)>>

Address(a) == [addr |-> a, name |-> <<a>>, literal |-> TRUE]
HostName(a, n) == [addr |-> a, name |-> n, literal |-> FALSE]
Literal == <<Address("u1"), Address("u2"), Address("u1")>>
Named == <<HostName("up.gh", Cdn)>>
ViaWarp == <<HostName("warp", <<"warp">>)>>
Placeholder == <<HostName("$", <<"$">>)>>
OnlyUps(r) == [r EXCEPT !.up = <<>>, !.ups = r.up]

\* What matchRule chooses from.
OnRules == {Plain(d, TRUE) : d \in Domains}
AllRules == OnRules \cup {Plain(d, FALSE) : d \in Domains}
Near == {r \in OnRules : r.domain.kind \in {"base", "any", "regex"} \/ r.domain.name = Host}
Lists == {<<a, b, c>> : a, b, c \in Near} \cup {<<a, b>> : a, b \in AllRules}
\* What buildDialCandidates chooses from.
CdnRule == MCRule(Dom("name", Cdn), TRUE, "mitm", Literal, "ipv4_only", FALSE, "")
AnyRule == MCRule(Dom("any", <<>>), TRUE, "mitm", Named, "ipv6_only", FALSE, "")
Soles ==
    {Sole("tls-rf", <<>>, "prefer_ipv6", FALSE, "")}
    \cup {Sole("mitm", Literal, "", FALSE, p) : p \in {"", "tunnel_origin", "direct"}}
    \cup {Sole("mitm", <<>>, "ipv6_only", TRUE, ""), Sole("warp", ViaWarp, "prefer_ipv4", FALSE, ""),
          Sole("mitm", Named, "ipv4_only", FALSE, "")}
    \cup {Sole("mitm", Named, "", FALSE, "tunnel_upstream") \o <<r>> : r \in {CdnRule, OnlyUps(CdnRule)}}
    \cup {Sole("mitm", Literal, "", FALSE, "") \o <<AnyRule>>,
          Sole("mitm", Placeholder, "prefer_ipv4", FALSE, ""),
          <<[AnyRule EXCEPT !.up = Placeholder, !.ups = Literal]>>}

Nodes2 == <<"n2", "n1">>
Nodes2b == <<"n1", "n2">>
Nodes3 == <<"n1", "n2", "n3">>
MCNodeLists == {<<>>, Nodes2, Nodes2b, Nodes3}
Request(kind, host, mode, auto, rules, ns) ==
    [kind |-> kind, host |-> host, literal |-> FALSE, mode |-> mode, auto |-> auto,
     rules |-> rules, nodes |-> ns]
Fragmented == Sole("tls-rf", <<>>, "", FALSE, "")
MCRequests ==
    {Request("connect", h, "rule", "", l, <<>>) : h \in {Host, Short}, l \in Lists}
    \cup {Request("connect", Host, "rule", "", l, ns) : l \in Soles, ns \in {<<>>, Nodes2}}
    \cup {Request("http", Host, "transparent", "", Fragmented, Nodes3),
          Request("http", Host, "transparent", "", Sole("mitm", Literal, "", FALSE, ""), <<>>),
          [Request("connect", Host, "rule", "", Fragmented, <<>>) EXCEPT !.literal = TRUE],
          Request("connect", Short, "rule", "default", <<>>, <<>>),
          Request("connect", Host, "rule", "default", Sole("mitm", Named, "", FALSE, ""), Nodes2),
          Request("connect", Host, "rule", "server", <<>>, Nodes2b)}
    \cup {Request("connect", Host, m, "default", <<>>, Nodes2) : m \in {"rule", "v2ray", "gas"}}
    \cup {Request("connect", Host, "rule", a, <<>>, <<>>) : a \in {"server", "v2ray", "gas"}}

MCGFW == {<<"cd", "ef">>, <<"gh">>}
MCPoolIPs == {<<>>, <<"p1", "p2">>}
MCHellos == {[len |-> l, pos |-> p, name |-> n, dots |-> d] :
               l \in 9 .. 12, p \in 6 .. 8, n \in 1 .. 4, d \in SUBSET {7, 8, 9, 10}}
MCHello == {h \in MCHellos : h.pos + h.name <= h.len}
=============================================================================
