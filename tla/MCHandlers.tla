----------------------------- MODULE MCHandlers -----------------------------
(* One connection of every kind next to a QUIC connection, which shares    *)
(* the Cloudflare pool with it.                                            *)
EXTENDS Handlers, TLC

CONSTANTS c1, c2

Plain == [kind |-> "connect", mode |-> "direct", policy |-> "", https |-> TRUE,
          cands |-> 1, pool |-> FALSE, ech |-> FALSE, fallback |-> FALSE]

(* Only the fields the path looks at vary.                                 *)
MCReqs ==
  (c1 :> {[Plain EXCEPT !.kind = k] : k \in {"socks", "connect"}}
       \cup {[Plain EXCEPT !.kind = "socks", !.https = FALSE]}
       \cup {[Plain EXCEPT !.kind = "http", !.mode = m, !.pool = TRUE, !.https = FALSE] :
                m \in {"mitm", "transparent"}}
       \cup {[Plain EXCEPT !.mode = m] : m \in {"v2ray", "gas"}}
       \cup {[Plain EXCEPT !.mode = "tls-rf", !.fallback = b] : b \in BOOLEAN}
       \cup {[Plain EXCEPT !.mode = "tls-rf", !.policy = "tunnel_origin", !.pool = TRUE, !.cands = 2]}
       \cup {[Plain EXCEPT !.policy = "mitm", !.pool = TRUE, !.cands = 2, !.ech = TRUE, !.fallback = TRUE]}
       \cup {[Plain EXCEPT !.mode = "server", !.pool = TRUE]})
  @@ (c2 :> {[Plain EXCEPT !.mode = "quic", !.pool = TRUE]})
=============================================================================
