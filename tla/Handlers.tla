------------------------------ MODULE Handlers ------------------------------
(***************************************************************************)
(* The connection handlers of the proxy (proxy/proxy.go, tls_fragment.go): *)
(* what happens to one client connection from its request to its end, on   *)
(* every path handleConnect, handleHTTP and handleSOCKS5 can take, while   *)
(* the GAS relay is switched on and off, locks the handlers need are lost, *)
(* and dials, handshakes, reads and writes fail.                           *)
(*                                                                         *)
(* A step is what a handler does between two operations on the network.    *)
(* Bytes are left out: of a connection it matters whether it is open and   *)
(* who will close it, of a request how often it was sent and answered.     *)
(* Of the rest there are the waits it makes the handlers meet: the pool's  *)
(* lock, which a report may keep (CFPool), p.mu and the lock of the rules  *)
(* (ProxyServer, RuleManager), and relayRequest, which may not return      *)
(* (GasRelay, GasTransport).                                               *)
(***************************************************************************)
EXTENDS Naturals, FiniteSets

CONSTANTS Conns,          \* client connections
          Reqs,           \* the requests each of them may make
          MaxSwitches,    \* changes of the relay and of the GAS address
          None

Modes == {"direct", "v2ray", "gas", "server", "quic", "mitm", "tls-rf", "transparent"}
Requests == [kind : {"connect", "http", "socks"},
             mode : Modes,                       \* rule.Mode
             policy : {"", "tunnel_origin", "tunnel_upstream", "mitm", "direct"},
             https : BOOLEAN,                    \* the target port is 443, the URL is https
             cands : {1, 2},                     \* addresses of the target
             pool : BOOLEAN,                     \* rule.UseCFPool
             ech : BOOLEAN,                      \* rule.ECHEnabled
             fallback : BOOLEAN]                 \* rule.FallbackMode is set

Upstreams == {"gas", "v2ray", "direct", "dst", "raw", "mitm", "fallback"}

ASSUME HandlersAssumption ==
  /\ Reqs \in [Conns -> SUBSET Requests] /\ None \notin Upstreams
  /\ MaxSwitches \in Nat

VARIABLES
  req,          \* the request of each connection with the rule it matched
  h,            \* the state of its handler
  gasRelay,     \* p.gasRelay # nil
  gasDialAddr,  \* p.gasDialAddr # ""
  poolLocked,   \* a ReportFailure returned with the pool's lock
  held,         \* which of p.mu and the lock of the rules are held for ever
  switches

shared == <<gasRelay, gasDialAddr, poolLocked, held, switches>>
vars == <<req, h, shared>>

Labels == Modes \cup
  {"new", "relay", "candidates", "dial", "hijack", "gasreply", "v2greet", "v2command", "splice",
   "tunnel", "establish", "upstream", "failed", "handshake", "pool", "serve", "rffallback",
   "relaying", "relayhttps", "relayraw", "socksrelay", "socksconnect", "socksgas", "socksdirect",
   "redirect", "roundtrip", "httprelay", "httpgas", "httpsend", "httpretry", "hangs", "panicked", "done"}

(* pc: the next step.  open: upstream connections.  peer: the other end of *)
(* the tunnel.  next: where to go after the 200.  cand, try, fell: the     *)
(* loops over the candidates.  copy: the directions still copied.  The     *)
(* rest is history: answers given, the client failed, sends to the GAS     *)
(* proxy, dials of establishUpstreamConn.                                  *)
States == [pc : Labels, client : {"server", "hijacked", "closed"},
           open : SUBSET Upstreams, peer : Upstreams \cup {None},
           next : Modes \cup {"relaying", ""},
           cand : 1..2, try : 0..1, fell : BOOLEAN, copy : SUBSET {"up", "down"},
           replies : Nat, broke : BOOLEAN, sends : Nat, dials : Nat]

(* The state of each handler has its type: the loops over the candidates   *)
(* stay within them.                                                       *)
TypeOK ==
  /\ req \in [Conns -> Requests]
  /\ h \in [Conns -> States]
  /\ gasRelay \in BOOLEAN /\ gasDialAddr \in BOOLEAN
  /\ poolLocked \in BOOLEAN /\ held \subseteq {"mu", "rules"}
  /\ switches \in 0..MaxSwitches

Fresh == [pc |-> "new", client |-> "server", open |-> {}, peer |-> None, next |-> "",
          cand |-> 1, try |-> 0, fell |-> FALSE, copy |-> {},
          replies |-> 0, broke |-> FALSE, sends |-> 0, dials |-> 0]

Init ==
  /\ \E r \in [Conns -> UNION {Reqs[c] : c \in Conns}] :
       (\A c \in Conns : r[c] \in Reqs[c]) /\ req = r
  /\ h = [c \in Conns |-> Fresh]
  /\ gasRelay \in BOOLEAN /\ gasDialAddr \in BOOLEAN
  /\ poolLocked = FALSE /\ held = {} /\ switches = 0

-----------------------------------------------------------------------------
(* Steps.                                                                  *)

At(c, label) == h[c].pc = label

Update(c, s) == h' = [h EXCEPT ![c] = s]
Goto(c, label) == Update(c, [h[c] EXCEPT !.pc = label])

(* The connections some defer of the handlers closes at their end; those   *)
(* of directConnect, handleConnect and handleTLSRFFallback have none.      *)
Deferred == {"gas", "v2ray", "dst", "mitm"}

(* The handler returns.  A hijacked client is closed by a defer or by the  *)
(* code before the return (`closing`), otherwise net/http keeps it.        *)
Ended(c, closing) ==
  [h[c] EXCEPT !.pc = "done", !.copy = {},
               !.client = IF closing = {} THEN "server" ELSE "closed",
               !.open = @ \ (Deferred \cup closing)]

Ends(c, closing) == Update(c, Ended(c, closing))

(* http.Error or the response: the client is answered and kept.            *)
Answers(c) == Update(c, [Ended(c, {}) EXCEPT !.replies = @ + 1])

(* The client fails: every path closes both connections.                   *)
ClientFails(c) == Update(c, [Ended(c, {"client", h[c].peer}) EXCEPT !.broke = TRUE])

Dialled(c, name) == [h[c] EXCEPT !.open = @ \cup {name}, !.peer = name]

StartsTunnel(c, s) == Update(c, [s EXCEPT !.pc = "tunnel", !.copy = {"up", "down"}])

-----------------------------------------------------------------------------
(* CONNECT.                                                                *)

(* The rule's connect policy wins over its mode.                           *)
effectiveMode(r) ==
  CASE r.policy \in {"tunnel_origin", "tunnel_upstream"} -> "transparent"
    [] r.policy \in {"mitm", "direct"} -> r.policy
    [] OTHER -> r.mode

(* Where handleConnect goes when GAS is off.                               *)
connectTarget(r) ==
  CASE effectiveMode(r) \in {"direct", "gas"} -> "direct"
    [] effectiveMode(r) = "v2ray" -> "v2ray"
    [] effectiveMode(r) \in {"server", "quic"} -> "hijack"
    [] OTHER -> "candidates"

(* handleRequest asks for the mode and matches the host first.             *)
handleConnect(c) ==
  /\ At(c, "new") /\ req[c].kind = "connect" /\ held = {}
  /\ Update(c, [h[c] EXCEPT
       !.pc = IF gasRelay THEN "relay" ELSE IF gasDialAddr THEN "gas" ELSE connectTarget(req[c]),
       !.next = effectiveMode(req[c])])
  /\ UNCHANGED <<req, shared>>

(* buildDialCandidates; for a rule that uses the pool it takes the pool's  *)
(* read lock.                                                              *)
buildDialCandidates(c) ==
  /\ At(c, "candidates")
  /\ req[c].pool => ~poolLocked
  /\ Goto(c, "dial")
  /\ UNCHANGED <<req, shared>>

(* Reports are made for rules with the pool; from handleConnect only when  *)
(* there are several candidates.                                           *)
Reporting(c) == req[c].pool /\ (At(c, "dial") => req[c].cands > 1)

(* ReportFailure of a listed address keeps the lock; an address that was   *)
(* removed from the pool in the meantime does not.                         *)
ReportFailure(c) ==
  IF Reporting(c) THEN ~poolLocked /\ poolLocked' \in BOOLEAN ELSE UNCHANGED poolLocked

ReportSuccess(c) == (Reporting(c) => ~poolLocked) /\ UNCHANGED poolLocked

poolUnchanged ==
  UNCHANGED <<req, gasRelay, gasDialAddr, held, switches>>

(* The sequential loop over the candidates.                                *)
DialCandidate(c) ==
  /\ At(c, "dial")
  /\ \/ /\ ReportSuccess(c)
        /\ Update(c, [Dialled(c, "raw") EXCEPT !.pc = "hijack", !.cand = 1])
     \/ /\ ReportFailure(c)
        /\ IF h[c].cand < req[c].cands
           THEN Update(c, [h[c] EXCEPT !.cand = @ + 1])
           ELSE Answers(c)
  /\ poolUnchanged

(* Hijack, the 200 and its flush, on every path that answers 200.  The     *)
(* connection to the GAS proxy or to V2Ray has a defer, the others are     *)
(* closed here.                                                            *)
HijackOk(c) ==
  /\ At(c, "hijack")
  /\ Update(c, [h[c] EXCEPT
       !.pc = IF h[c].peer \in {"gas", "v2ray", "direct"} THEN "splice" ELSE h[c].next,
       !.client = "hijacked", !.replies = @ + 1])
  /\ UNCHANGED <<req, shared>>

(* Mutant: the hijack error path forgets the connection.                   *)
HijackFailsKeepsRaw(c) ==
  /\ At(c, "hijack")
  /\ Update(c, [Ended(c, {"client"}) EXCEPT !.broke = TRUE])
  /\ UNCHANGED <<req, shared>>

HijackFails(c) ==
  /\ At(c, "hijack")
  /\ ClientFails(c)
  /\ UNCHANGED <<req, shared>>

directConnect(c) ==
  /\ At(c, "direct")
  /\ \/ Update(c, [Dialled(c, "direct") EXCEPT !.pc = "hijack"])
     \/ Answers(c)
  /\ UNCHANGED <<req, shared>>

(* handleGASConnect reads p.gasDialAddr again.                             *)
handleGASConnect(c) ==
  /\ At(c, "gas")
  /\ \/ gasDialAddr /\ Update(c, [Dialled(c, "gas") EXCEPT !.pc = "gasreply"])
     \/ Goto(c, "direct")
  /\ UNCHANGED <<req, shared>>

GASConnectReply(c) ==
  /\ At(c, "gasreply")
  /\ Goto(c, "hijack") \/ Answers(c)
  /\ UNCHANGED <<req, shared>>

(* handleV2RayConnect: dial, SOCKS5 greeting and command.  A failure up to *)
(* the command falls back to directConnect with the connection still open. *)
handleV2RayConnect(c) ==
  /\ At(c, "v2ray") /\ "mu" \notin held
  /\ \/ Update(c, [Dialled(c, "v2ray") EXCEPT !.pc = "v2greet"])
     \/ Goto(c, "direct")
  /\ UNCHANGED <<req, shared>>

V2RayGreeting(c) ==
  /\ At(c, "v2greet")
  /\ Goto(c, "v2command") \/ Goto(c, "direct")
  /\ UNCHANGED <<req, shared>>

V2RayCommand(c) ==
  /\ At(c, "v2command")
  /\ Goto(c, "hijack") \/ Answers(c)
  /\ UNCHANGED <<req, shared>>

-----------------------------------------------------------------------------
(* The tunnel: two goroutines, one per direction.                          *)

Splice(c) ==
  /\ At(c, "splice") \/ At(c, "transparent")
  /\ StartsTunnel(c, [h[c] EXCEPT !.next = ""])
  /\ UNCHANGED <<req, shared>>

(* directConnect and directTunnel close the destination of the direction   *)
(* that ended; the GAS, V2Ray and SOCKS5 tunnels close both ends.          *)
ClosesBoth(c) == h[c].peer \in {"gas", "v2ray", "dst"}

SourceClosed(c, d) ==
  IF d = "up" THEN h[c].client = "closed" ELSE h[c].peer \notin h[c].open


(* A direction ends: its source is at its end or a connection failed.      *)
CopyEnds(c, d) ==
  /\ At(c, "tunnel") /\ d \in h[c].copy
  /\ Update(c, [h[c] EXCEPT !.copy = @ \ {d},
                            !.client = IF ClosesBoth(c) \/ d = "down" THEN "closed" ELSE @,
                            !.open = IF ClosesBoth(c) \/ d = "up" THEN @ \ {h[c].peer} ELSE @])
  /\ UNCHANGED <<req, shared>>

(* wg.Wait returns, and with it the handler.                               *)
TunnelEnds(c) ==
  /\ At(c, "tunnel") /\ h[c].copy = {}
  /\ Update(c, [h[c] EXCEPT !.pc = "done", !.open = @ \ Deferred])
  /\ UNCHANGED <<req, shared>>

-----------------------------------------------------------------------------
(* MITM on this proxy.                                                     *)

(* handleMITM: no CA closes the client.                                    *)
handleMITM(c) ==
  /\ At(c, "mitm")
  /\ \/ Update(c, [h[c] EXCEPT !.pc = "establish", !.peer = "mitm"])
     \/ Ends(c, {"client"})
  /\ UNCHANGED <<req, shared>>

(* handleServerMITM: the client's handshake comes first, then the pool.    *)
handleServerMITM(c) ==
  /\ At(c, "server")
  /\ \/ Update(c, [h[c] EXCEPT !.pc = "handshake", !.peer = "mitm"])
     \/ Ends(c, {"client"})
  /\ UNCHANGED <<req, shared>>

handleQUICMITM(c) ==
  /\ At(c, "quic")
  /\ \/ Goto(c, "handshake")
     \/ Ends(c, {"client"})
  /\ UNCHANGED <<req, shared>>

(* establishUpstreamConn.  The ECH retry is only for the first attempt of  *)
(* the first round: the fall-back round has ECH disabled.                  *)
NextCandidate(r, s) ==
  IF s.cand < r.cands THEN [s EXCEPT !.pc = "establish", !.cand = @ + 1, !.try = 0]
  ELSE IF r.fallback /\ ~s.fell THEN [s EXCEPT !.pc = "establish", !.cand = 1, !.try = 0, !.fell = TRUE]
  ELSE [s EXCEPT !.pc = "failed"]

(* Mutant: the retry does not look at the attempt.                         *)
EstablishRetriesForEver(c) ==
  /\ At(c, "upstream")
  /\ req[c].ech
  /\ Update(c, [h[c] EXCEPT !.pc = "establish", !.open = @ \ {"mitm"}])
  /\ UNCHANGED poolLocked /\ poolUnchanged

EstablishDial(c) ==
  /\ At(c, "establish")
  /\ \/ /\ Update(c, [h[c] EXCEPT !.pc = "upstream", !.open = @ \cup {"mitm"}, !.dials = @ + 1])
        /\ UNCHANGED poolLocked
     \/ /\ ReportFailure(c)
        /\ Update(c, NextCandidate(req[c], [h[c] EXCEPT !.dials = @ + 1]))
  /\ poolUnchanged

(* ECH was rejected and the record was refreshed by DNS: once more.        *)
EstablishRetry(c) ==
  /\ At(c, "upstream")
  /\ req[c].ech /\ ~h[c].fell /\ h[c].try = 0
  /\ Update(c, [h[c] EXCEPT !.pc = "establish", !.try = 1, !.open = @ \ {"mitm"}])
  /\ UNCHANGED poolLocked /\ poolUnchanged

EstablishHandshake(c) ==
  /\ At(c, "upstream")
  /\ \/ /\ ReportSuccess(c)
        /\ Goto(c, IF h[c].next = "server" THEN "serve" ELSE "handshake")
     \/ /\ ReportFailure(c)
        /\ Update(c, NextCandidate(req[c], [h[c] EXCEPT !.open = @ \ {"mitm"}]))
  /\ poolUnchanged

EstablishFails(c) ==
  /\ At(c, "failed")
  /\ Ends(c, {"client"})
  /\ UNCHANGED <<req, shared>>

(* The handshake with the client, with a certificate made for the host.    *)
ClientHandshake(c) ==
  /\ At(c, "handshake")
  /\ \/ h[c].next = "mitm" /\ StartsTunnel(c, h[c])
     \/ h[c].next # "mitm" /\ Goto(c, "pool")
     \/ Update(c, [Ended(c, {"client"}) EXCEPT !.broke = TRUE])
  /\ UNCHANGED <<req, shared>>

(* handleServerMITM and newQUICRoundTripper ask the pool for candidates;   *)
(* without a server host the former returns.                               *)
PoolCandidates(c) ==
  /\ At(c, "pool")
  /\ req[c].pool => ~poolLocked
  /\ \/ h[c].next = "quic" /\ Goto(c, "serve")
     \/ h[c].next = "server" /\ Goto(c, "establish")
     \/ h[c].next = "server" /\ Ends(c, {"client"})
  /\ UNCHANGED <<req, shared>>

(* The requests on the one connection of singleConnListener until it is    *)
(* closed; then Accept and Serve return.                                   *)
ServeEnds(c) ==
  /\ At(c, "serve")
  /\ Ends(c, {"client"})
  /\ UNCHANGED <<req, shared>>

-----------------------------------------------------------------------------
(* TLS fragmentation (handleTLSFragment, handleTLSRFFallback).             *)

(* A name at the very end of the hello makes findLastDot panic; net/http   *)
(* recovers, and does not touch a hijacked connection.                     *)
TLSFragment(c) ==
  /\ At(c, "tls-rf")
  /\ \/ StartsTunnel(c, [h[c] EXCEPT !.next = ""])                 \* sent, and the probe answered
     \/ Ends(c, {"client", "raw"})               \* unreadable hello, failed write
     \/ /\ req[c].fallback                             \* send or probe failed
        /\ Update(c, [h[c] EXCEPT !.pc = "rffallback", !.open = @ \ {"raw"}])
     \/ Goto(c, "panicked")
  /\ UNCHANGED <<req, shared>>

TLSRFFallback(c) ==
  /\ At(c, "rffallback") /\ held = {}
  /\ \/ StartsTunnel(c, Dialled(c, "fallback"))
     \/ Ends(c, {"client"})
  /\ UNCHANGED <<req, shared>>

-----------------------------------------------------------------------------
(* The GAS relay on this proxy.                                            *)

(* handleGASRelayConnect reads p.gasRelay again.                           *)
handleGASRelayConnect(c) ==
  /\ At(c, "relay") /\ "mu" \notin held
  /\ IF gasRelay THEN Update(c, [h[c] EXCEPT !.pc = "hijack", !.next = "relaying"]) ELSE Goto(c, "direct")
  /\ UNCHANGED <<req, shared>>

(* Port 443 with a certificate and a handshake: requests are read for at   *)
(* most 120 s.  Otherwise they are read from the raw connection without a  *)
(* deadline.                                                               *)
RelayChooses(c) ==
  /\ At(c, "relaying")
  /\ \/ req[c].https /\ Goto(c, "relayhttps")
     \/ Goto(c, "relayraw")
  /\ UNCHANGED <<req, shared>>

(* Each request of the connection is answered by relayRequest (GasRelay)   *)
(* until a read fails.                                                     *)
RelayLoopEnds(c) ==
  /\ At(c, "relayhttps") \/ At(c, "relayraw")
  /\ Ends(c, {"client"})
  /\ UNCHANGED <<req, shared>>

(* relayRequest does not return: a restart of the relay threw its item     *)
(* away, or it follows redirects without end.  The deadline of the         *)
(* connection is none for it.                                              *)
relayRequestHangs(c) ==
  /\ At(c, "relayhttps") \/ At(c, "relayraw") \/ At(c, "httprelay")
  /\ Goto(c, "hangs")
  /\ UNCHANGED <<req, shared>>

-----------------------------------------------------------------------------
(* SOCKS5.                                                                 *)

(* Greeting and request: within 15 s, or the connection is closed.  The    *)
(* reply is sent before anything is dialled.                               *)
handleSOCKS5(c) ==
  /\ At(c, "new") /\ req[c].kind = "socks"
  /\ \/ Update(c, [h[c] EXCEPT !.pc = "socksrelay", !.client = "hijacked", !.replies = 1])
     \/ Update(c, [Ended(c, {"client"}) EXCEPT !.broke = TRUE])   \* nothing or nonsense read
     \/ Update(c, [Ended(c, {"client"}) EXCEPT !.replies = 1])    \* command or address type refused
  /\ UNCHANGED <<req, shared>>

(* Mutant: the fall-back of a refused CONNECT is a new reply.              *)
SocksRelayRefuses(c) ==
  /\ At(c, "socksrelay")
  /\ Update(c, [h[c] EXCEPT !.pc = "socksdirect", !.replies = 2])
  /\ UNCHANGED <<req, shared>>

socksRelay(c) ==
  /\ At(c, "socksrelay") /\ "mu" \notin held
  /\ IF gasRelay THEN Goto(c, "socksgas")
     ELSE \/ gasDialAddr /\ Update(c, [Dialled(c, "gas") EXCEPT !.pc = "socksconnect"])
          \/ Goto(c, "socksdirect")
  /\ UNCHANGED <<req, shared>>

SocksGASReply(c) ==
  /\ At(c, "socksconnect")
  /\ StartsTunnel(c, h[c]) \/ Goto(c, "socksdirect")
  /\ UNCHANGED <<req, shared>>

(* Everything but a TLS connection with a handshake goes directly.         *)
socksGASRelayDirect(c) ==
  /\ At(c, "socksgas")
  /\ \/ req[c].https /\ Goto(c, "relayhttps")
     \/ Goto(c, "socksdirect")
  /\ UNCHANGED <<req, shared>>

socksDirect(c) ==
  /\ At(c, "socksdirect")
  /\ \/ StartsTunnel(c, Dialled(c, "dst"))
     \/ Ends(c, {"client"})
  /\ UNCHANGED <<req, shared>>

-----------------------------------------------------------------------------
(* Plain HTTP.                                                             *)

httpTarget(r) ==
  IF r.mode \in {"mitm", "quic"} /\ ~r.https THEN "redirect" ELSE "roundtrip"

handleHTTP(c) ==
  /\ At(c, "new") /\ req[c].kind = "http" /\ held = {}
  /\ Goto(c, IF gasRelay THEN "httprelay" ELSE IF gasDialAddr THEN "httpgas"
             ELSE httpTarget(req[c]))
  /\ UNCHANGED <<req, shared>>

(* A 301 to https, or RoundTrip with its answer or a 502; in some modes    *)
(* the pool is asked for the candidates.                                   *)
RoundTrip(c) ==
  /\ At(c, "redirect") \/ At(c, "roundtrip")
  /\ At(c, "roundtrip") /\ req[c].pool /\ req[c].mode \in {"mitm", "quic", "tls-rf", "transparent"}
       => ~poolLocked
  /\ Answers(c)
  /\ UNCHANGED <<req, shared>>

(* relayRequest returns a response, be it one that says what failed.       *)
handleGASRelayHTTP(c) ==
  /\ At(c, "httprelay")
  /\ Answers(c)
  /\ UNCHANGED <<req, shared>>

(* handleGASHTTP: an address that is gone, or a failed dial: the proxy's   *)
(* own transport.                                                          *)
handleGASHTTP(c) ==
  /\ At(c, "httpgas")
  /\ \/ gasDialAddr /\ Update(c, [Dialled(c, "gas") EXCEPT !.pc = "httpsend"])
     \/ Goto(c, "roundtrip")
  /\ UNCHANGED <<req, shared>>

(* The request is written and the response read; a failed read of the      *)
(* first response is tried once more on a new connection.                  *)
GASHTTPSend(c) ==
  /\ At(c, "httpsend")
  /\ \/ Update(c, [Ended(c, {}) EXCEPT !.replies = @ + 1, !.sends = @ + 1])
     \/ Answers(c)                                    \* the write failed
     \/ /\ h[c].sends = 0
        /\ Update(c, [h[c] EXCEPT !.pc = "httpretry", !.open = {}, !.sends = 1])
  /\ UNCHANGED <<req, shared>>

GASHTTPRetry(c) ==
  /\ At(c, "httpretry")
  /\ \/ gasDialAddr /\ Update(c, [Dialled(c, "gas") EXCEPT !.pc = "httpsend"])
     \/ Answers(c)
  /\ UNCHANGED <<req, shared>>

-----------------------------------------------------------------------------
(* The rest of the program.                                                *)

SetGasRelay ==
  /\ "mu" \notin held /\ switches < MaxSwitches /\ switches' = switches + 1
  /\ gasRelay' = ~gasRelay
  /\ UNCHANGED <<req, h, gasDialAddr, poolLocked, held>>

SetGASDialAddr ==
  /\ "mu" \notin held /\ switches < MaxSwitches /\ switches' = switches + 1
  /\ gasDialAddr' = ~gasDialAddr
  /\ UNCHANGED <<req, h, gasRelay, poolLocked, held>>

(* A Start, Stop or reload holds p.mu and waits for the pool's lost lock   *)
(* (ProxyServer).                                                          *)
MuLost ==
  /\ poolLocked /\ held' = held \cup {"mu"}
  /\ UNCHANGED <<req, h, gasRelay, gasDialAddr, poolLocked, switches>>

(* A match and a writer wait for each other (RuleManager).                 *)
RulesLost ==
  /\ held' = held \cup {"rules"}
  /\ UNCHANGED <<req, h, gasRelay, gasDialAddr, poolLocked, switches>>

-----------------------------------------------------------------------------
Connect(c) ==
  \/ handleConnect(c) \/ buildDialCandidates(c) \/ DialCandidate(c)
  \/ HijackOk(c) \/ HijackFails(c) \/ directConnect(c)
  \/ handleGASConnect(c) \/ GASConnectReply(c) \/ handleGASRelayConnect(c)
  \/ handleV2RayConnect(c) \/ V2RayGreeting(c) \/ V2RayCommand(c)

Mitm(c) ==
  \/ handleMITM(c) \/ handleServerMITM(c) \/ handleQUICMITM(c)
  \/ EstablishDial(c) \/ EstablishFails(c) \/ PoolCandidates(c)
  \/ TLSFragment(c) \/ TLSRFFallback(c)

Socks(c) ==
  \/ handleSOCKS5(c) \/ socksRelay(c) \/ SocksGASReply(c)
  \/ socksGASRelayDirect(c) \/ socksDirect(c)

Http(c) ==
  \/ handleHTTP(c) \/ RoundTrip(c) \/ handleGASRelayHTTP(c)
  \/ handleGASHTTP(c) \/ GASHTTPSend(c) \/ GASHTTPRetry(c)

(* What a handler does by itself: dials and the reads of a request have    *)
(* timeouts; the local GAS proxy, the V2Ray core and the transport are     *)
(* taken to answer or to close in the end.                                 *)
Step(c) ==
  \/ Connect(c) \/ Mitm(c) \/ Socks(c) \/ Http(c)
  \/ Splice(c) \/ RelayChooses(c) \/ TunnelEnds(c)

(* What depends on the two peers alone: a TLS handshake, on either side,   *)
(* has no deadline.                                                        *)
Peers(c) ==
  \/ \E d \in {"up", "down"} : CopyEnds(c, d)
  \/ ServeEnds(c) \/ RelayLoopEnds(c) \/ relayRequestHangs(c)
  \/ EstablishRetry(c) \/ EstablishHandshake(c) \/ ClientHandshake(c)

Environment == SetGasRelay \/ SetGASDialAddr \/ MuLost \/ RulesLost

Next == (\E c \in Conns : Step(c) \/ Peers(c)) \/ Environment

Spec == Init /\ [][Next]_vars

(* A handler asks for p.mu wherever it traces a step, and for the lock of  *)
(* the rules when a lookup refreshes an ECH profile.                       *)
Free(c) == "mu" \notin held /\ ("rules" \in held => h[c].pc \notin {"candidates", "roundtrip"})

(* A handler goes on by itself; a direction whose source is closed ends;   *)
(* the deadline of 120 s ends the loop on a TLS connection, unless it is   *)
(* in relayRequest for good.                                               *)
FairSpec ==
  /\ Spec
  /\ \A c \in Conns :
       /\ WF_vars(Free(c) /\ Step(c))
       /\ \A d \in {"up", "down"} : WF_vars(Free(c) /\ SourceClosed(c, d) /\ CopyEnds(c, d))
       /\ WF_vars(At(c, "relayhttps") /\ RelayLoopEnds(c))

-----------------------------------------------------------------------------
(* What the handlers promise.                                              *)

(* A handler that has returned leaves no connection open, but for the one  *)
(* that handleConnect dials for a MITM rule and never passes on.  One that *)
(* panicked leaves the client and its upstream open: that is only ever a   *)
(* tls-rf handler (tls_fragment.go:175).                                   *)
NothingLeftOpen ==
  \A c \in Conns :
    /\ At(c, "done") =>
         /\ h[c].client # "hijacked"
         /\ h[c].open \subseteq (IF effectiveMode(req[c]) = "mitm" THEN {"raw"} ELSE {})
    /\ At(c, "panicked") => effectiveMode(req[c]) = "tls-rf"

(* Every client is answered exactly once, unless it fails itself.          *)
OneReply ==
  \A c \in Conns :
    /\ h[c].replies <= 1
    /\ At(c, "done") => h[c].replies = 1 \/ h[c].broke

(* The fall-back to a direct connection, from wherever it is taken, finds  *)
(* a client that is neither hijacked nor answered.                         *)
FallbackUnanswered ==
  \A c \in Conns : At(c, "direct") => h[c].client = "server" /\ h[c].replies = 0

(* A request is sent to the GAS proxy once more at most, whatever happens  *)
(* to the address in between.                                              *)
AtMostOneResend == \A c \in Conns : h[c].sends <= 2

(* establishUpstreamConn dials each candidate at most three times: twice   *)
(* with ECH, once in the fall-back round.                                  *)
DialsBounded == \A c \in Conns : h[c].dials <= 3 * req[c].cands

(* While the relay is on, no CONNECT and no plain request is sent past it. *)
RelayKeepsTraffic ==
  switches = 0 /\ gasRelay => \A c \in Conns : req[c].kind # "socks" => h[c].open = {}

(* Every client is answered in the end, unless a lock its handler needs is *)
(* lost (the pool's, for rules that use the pool; p.mu; the rules', before *)
(* its host is matched or looked up) or relayRequest does not return.  The *)
(* lost lock of the pool alone stops no other client.                      *)
RequestAnswered ==
  \A c \in Conns :
    <>(\/ h[c].replies > 0 \/ h[c].broke
       \/ "mu" \in held \/ (poolLocked /\ req[c].pool)
       \/ "rules" \in held /\ h[c].pc \in {"new", "candidates", "roundtrip"}
       \/ At(c, "hangs"))

(* A tunnel whose one direction has ended is taken down, and a relayed TLS *)
(* connection ends at its deadline, unless p.mu is lost or relayRequest    *)
(* does not return.                                                        *)
HalfClosedEnds ==
  \A c \in Conns :
    (At(c, "tunnel") /\ Cardinality(h[c].copy) < 2) \/ At(c, "relayhttps")
      ~> At(c, "done") \/ At(c, "hangs") \/ "mu" \in held

(* A handler keeps the connections it should and no other: none is left    *)
(* open at its return but the spare one of a MITM rule, none but a tls-rf  *)
(* handler panics, and none goes past the relay while it is on.            *)
ConnectionsOwned == TypeOK /\ NothingLeftOpen /\ RelayKeepsTraffic

(* Whatever path is taken, and left for another, the client gets one       *)
(* answer.                                                                 *)
RepliesSound == OneReply /\ FallbackUnanswered

(* The retries and fall-backs of a request are bounded, whatever fails and *)
(* however the relay's address changes between them (proxy.go:2218-2306,   *)
(* 4640-4790).                                                             *)
RetriesBounded == AtMostOneResend /\ DialsBounded

=============================================================================
