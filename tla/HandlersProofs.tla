--------------------------- MODULE HandlersProofs ---------------------------
(***************************************************************************)
(* Theorems about Handlers, for any number of connections and requests.    *)
(* Handlers share little, so that the invariant is one of a single handler *)
(* s with its request r.                                                   *)
(***************************************************************************)
EXTENDS Handlers, TLAPS

(* Where a client has no answer yet, and where it has one.                 *)
Unanswered ==
  {"new", "relay", "gas", "direct", "v2ray", "hijack", "candidates", "dial", "gasreply",
   "v2greet", "v2command", "redirect", "roundtrip", "httprelay", "httpgas", "httpsend",
   "httpretry"}
Dialling == {"establish", "upstream", "failed", "handshake", "pool", "serve"}
Bare == {"relaying", "relayhttps", "relayraw", "rffallback", "socksrelay", "socksconnect",
         "socksgas", "socksdirect"}
Upward == {"mitm", "tls-rf", "transparent"}
Answered == {"splice", "server", "quic", "tunnel", "panicked"} \cup Upward \cup Dialling \cup Bare

(* One answer, before the client is handed over.                           *)
Replied(s) ==
  /\ s.pc \in Unanswered \cup Answered \cup {"hangs", "done"}
  /\ s.pc \in Unanswered => s.client = "server" /\ s.replies = 0
  /\ s.pc \in Answered => s.replies = 1 /\ (s.pc # "tunnel" => s.client = "hijacked")
  /\ s.pc = "hangs" => s.replies <= 1
  /\ s.pc = "done" => s.client # "hijacked" /\ s.replies <= 1 /\ (s.replies = 1 \/ s.broke)

(* What follows the 200 depends on the connection that was made for it.    *)
Routed(r, s) ==
  /\ s.pc \in {"new", "relay", "candidates", "dial", "gas", "v2ray"} => s.peer = None
  /\ s.pc \in {"candidates", "dial"} => s.next = effectiveMode(r) /\ s.next \in Upward
  /\ s.pc = "gasreply" => s.peer = "gas"
  /\ s.pc \in {"v2greet", "v2command"} => s.peer = "v2ray"
  /\ s.pc = "hijack" =>
       \/ s.peer \in {"gas", "v2ray", "direct"}
       \/ s.peer = "raw" /\ s.next = effectiveMode(r) /\ s.next \in Upward
       \/ s.peer = None /\ s.next \in {"server", "quic", "relaying"}
  /\ s.pc \in Upward => s.peer = "raw" /\ s.next = s.pc /\ effectiveMode(r) = s.pc
  /\ s.pc = "panicked" => effectiveMode(r) = "tls-rf"
  /\ s.pc \in {"server", "quic"} => s.next = s.pc

(* The connection a MITM rule's handleConnect dials and leaves open.       *)
Spare(r) == IF effectiveMode(r) = "mitm" THEN {"raw"} ELSE {}

(* Who will close what is open and has no defer.                           *)
Owned(r, s) ==
  LET left == s.open \ Deferred IN
  /\ s.pc \in (Unanswered \ {"hijack"}) \cup Bare \cup {"hangs"} => left = {}
  /\ s.pc \in {"hijack", "splice", "panicked"} \cup Upward => left \subseteq {s.peer}
  /\ s.pc \in {"server", "quic"} \cup Dialling => left \subseteq Spare(r)
  /\ s.pc = "tunnel" =>
       /\ left \subseteq {s.peer} \cup Spare(r)
       /\ "up" \notin s.copy => s.peer \notin s.open
       /\ "down" \notin s.copy => s.client = "closed"
  /\ s.pc = "done" => s.open \subseteq Spare(r)

(* The sends to the GAS proxy.                                             *)
SendsCounted(s) ==
  /\ s.sends <= 2
  /\ s.pc \in {"new", "httpgas"} => s.sends = 0
  /\ s.pc = "httpsend" => s.sends <= 1
  /\ s.pc = "httpretry" => s.sends = 1

(* The dials of establishUpstreamConn when the loop is at a candidate.     *)
Before(r, s) == IF s.fell THEN 2 * r.cands + s.cand - 1 ELSE 2 * (s.cand - 1) + s.try

NotBegun(s) == s.dials = 0 /\ s.try = 0 /\ ~s.fell

DialsCounted(r, s) ==
  /\ s.dials <= 3 * r.cands
  /\ s.pc \in Unanswered \cup Upward \cup {"server", "quic"} =>
       NotBegun(s) /\ (s.pc # "dial" => s.cand = 1)
  /\ s.pc \in {"handshake", "pool"} /\ s.next = "server" => NotBegun(s) /\ s.cand = 1
  /\ s.pc \in {"establish", "upstream"} => s.cand <= r.cands /\ (s.fell => s.try = 0)
  /\ s.pc = "establish" => s.dials <= Before(r, s)
  /\ s.pc = "upstream" => s.dials <= Before(r, s) + 1

(* A handler of a CONNECT or a plain request that has only met the relay.  *)
Relayed(r, s) ==
  r.kind # "socks" =>
    /\ s.open = {}
    /\ s.pc \in {"new", "relay", "hijack", "relaying", "relayhttps", "relayraw", "httprelay",
                 "hangs", "done"}
    /\ s.pc = "hijack" => s.next = "relaying" /\ s.peer = None

HandlerInv(r, s) ==
  Replied(s) /\ Routed(r, s) /\ Owned(r, s) /\ SendsCounted(s) /\ DialsCounted(r, s)

HandlersInv ==
  /\ TypeOK
  /\ \A c \in Conns : HandlerInv(req[c], h[c])
  /\ switches = 0 /\ gasRelay => \A c \in Conns : Relayed(req[c], h[c])

-----------------------------------------------------------------------------
(* The mode is one that handleConnect knows. *)
LEMMA EffectiveIs ==
  ASSUME NEW r \in Requests
  PROVE  /\ effectiveMode(r) \in Modes
         /\ connectTarget(r) \in {"direct", "v2ray", "hijack", "candidates"}
         /\ connectTarget(r) = "hijack" => effectiveMode(r) \in {"server", "quic"}
         /\ connectTarget(r) = "candidates" => effectiveMode(r) \in Upward
<1>1. effectiveMode(r) \in Modes
  BY DEF Requests, effectiveMode, Modes
<1> QED
  BY <1>1 DEF connectTarget, Modes, Upward

LEMMA Updates ==
  ASSUME h \in [Conns -> States], NEW c \in Conns, NEW s, Update(c, s)
  PROVE  h'[c] = s /\ \A d \in Conns : d # c => h'[d] = h[d]
BY DEF Update

(* A handler that has returned. *)
LEMMA DoneIs ==
  ASSUME NEW r, NEW t \in States, t.pc = "done", t.client # "hijacked", t.open \subseteq Spare(r),
         t.replies <= 1, t.replies = 1 \/ t.broke, t.sends <= 2, t.dials <= 3 * r.cands
  PROVE  HandlerInv(r, t)
<1> USE DEF Unanswered, Answered, Bare, Upward, Dialling
<1>1. Replied(t)
  BY DEF Replied
<1>2. Routed(r, t) /\ Owned(r, t)
  BY DEF Routed, Owned
<1>3. SendsCounted(t) /\ DialsCounted(r, t)
  BY DEF SendsCounted, DialsCounted
<1> QED
  BY <1>1, <1>2, <1>3 DEF HandlerInv

(* A tunnel that begins. *)
LEMMA TunnelIs ==
  ASSUME NEW r, NEW t \in States, t.pc = "tunnel", t.replies = 1, t.copy = {"up", "down"},
         t.open \ Deferred \subseteq {t.peer} \cup Spare(r), t.sends <= 2, t.dials <= 3 * r.cands
  PROVE  HandlerInv(r, t)
<1> USE DEF Unanswered, Answered, Bare, Upward, Dialling
<1>1. Replied(t)
  BY DEF Replied
<1>2. Routed(r, t) /\ Owned(r, t)
  BY DEF Routed, Owned
<1>3. SendsCounted(t) /\ DialsCounted(r, t)
  BY DEF SendsCounted, DialsCounted
<1> QED
  BY <1>1, <1>2, <1>3 DEF HandlerInv

(* The steps that only move on. *)
Moves ==
  {<<"candidates", "dial">>, <<"gas", "direct">>, <<"gasreply", "hijack">>, <<"v2ray", "direct">>,
   <<"v2greet", "v2command">>, <<"v2greet", "direct">>, <<"v2command", "hijack">>,
   <<"relay", "direct">>, <<"relaying", "relayhttps">>, <<"relaying", "relayraw">>,
   <<"socksrelay", "socksgas">>, <<"socksrelay", "socksdirect">>, <<"socksconnect", "socksdirect">>,
   <<"socksgas", "relayhttps">>, <<"socksgas", "socksdirect">>, <<"new", "httprelay">>,
   <<"new", "httpgas">>, <<"new", "redirect">>, <<"new", "roundtrip">>, <<"httpgas", "roundtrip">>,
   <<"relayhttps", "hangs">>, <<"relayraw", "hangs">>, <<"httprelay", "hangs">>, <<"tls-rf", "panicked">>}

(* What a step leaves alone. *)
Alike(s, t) ==
  /\ t.client = s.client /\ t.next = s.next /\ t.cand = s.cand /\ t.try = s.try /\ t.fell = s.fell
  /\ t.replies = s.replies /\ t.sends = s.sends /\ t.dials = s.dials

LEMMA MoveKeeps ==
  ASSUME NEW r \in Requests, NEW s \in States, HandlerInv(r, s), NEW l, <<s.pc, l>> \in Moves
  PROVE  [s EXCEPT !.pc = l] \in States /\ HandlerInv(r, [s EXCEPT !.pc = l])
<1> DEFINE t == [s EXCEPT !.pc = l]
<1>0. l \in Labels
  BY DEF Moves, Labels, Modes
<1>1. t \in States
  BY <1>0 DEF States
<1>2. t.pc = l /\ Alike(s, t) /\ t.open = s.open /\ t.peer = s.peer
  BY DEF States, Alike
<1> HIDE DEF t
<1> USE <1>2 DEF Unanswered, Answered, Bare, Upward, Dialling, Moves, HandlerInv, Alike
<1>3. Replied(t)
  BY DEF Replied
<1>4. Routed(r, t)
  BY DEF Routed
<1>5. Owned(r, t)
  BY DEF Owned, Routed
<1>6. SendsCounted(t)
  BY DEF SendsCounted
<1>7. DialsCounted(r, t)
  BY DEF DialsCounted, NotBegun
<1> QED
  BY <1>1, <1>3, <1>4, <1>5, <1>6, <1>7 DEF t

(* The steps that open a connection, but for the loop over the candidates. *)
Dials ==
  {<<"direct", "direct", "hijack">>, <<"gas", "gas", "gasreply">>, <<"v2ray", "v2ray", "v2greet">>,
   <<"socksrelay", "gas", "socksconnect">>, <<"httpgas", "gas", "httpsend">>,
   <<"httpretry", "gas", "httpsend">>}

LEMMA DialKeeps ==
  ASSUME NEW r \in Requests, NEW s \in States, HandlerInv(r, s), NEW n, NEW l, <<s.pc, n, l>> \in Dials,
         NEW t, t = [[s EXCEPT !.open = @ \cup {n}, !.peer = n] EXCEPT !.pc = l]
  PROVE  t \in States /\ HandlerInv(r, t)
<1>0. l \in Labels /\ n \in Upstreams
  BY DEF Dials, Labels, Modes, Upstreams
<1>1. t \in States
  BY <1>0 DEF States
<1>2. t.pc = l /\ Alike(s, t) /\ t.open = s.open \cup {n} /\ t.peer = n
  BY DEF States, Alike
<1> USE <1>2 DEF Unanswered, Answered, Bare, Upward, Dialling, Dials, HandlerInv, Alike
<1>3. Replied(t)
  BY DEF Replied
<1>4. Routed(r, t)
  BY DEF Routed
<1>5. Owned(r, t)
  BY DEF Owned, Routed, Deferred
<1>6. SendsCounted(t)
  BY DEF SendsCounted
<1>7. DialsCounted(r, t)
  BY DEF DialsCounted, NotBegun
<1> QED
  BY <1>1, <1>3, <1>4, <1>5, <1>6, <1>7

(* The handler returns. *)
LEMMA EndKeeps ==
  ASSUME TypeOK, NEW c \in Conns, HandlerInv(req[c], h[c]), NEW closing,
         (h[c].open \ Deferred) \ closing \subseteq Spare(req[c])
  PROVE  /\ Ended(c, closing) \in States
         /\ h[c].pc \in Answered => HandlerInv(req[c], Ended(c, closing))
         /\ \A t \in States :
              /\ t.pc = "done" /\ t.client = Ended(c, closing).client
              /\ t.open = Ended(c, closing).open /\ t.sends <= 2 /\ t.dials = h[c].dials
              /\ t.replies = 1 \/ (t.replies = 0 /\ t.broke)
              => HandlerInv(req[c], t)
<1> DEFINE t == Ended(c, closing)
<1>0. req[c] \in Requests /\ h[c] \in States
  BY DEF TypeOK
<1>1. t \in States
  <2>1. "done" \in Labels
    BY DEF Labels
  <2>2. (IF closing = {} THEN "server" ELSE "closed") \in {"server", "hijacked", "closed"}
    OBVIOUS
  <2> QED
    BY <1>0, <2>1, <2>2 DEF Ended, States
<1>2. /\ t.pc = "done" /\ t.client \in {"server", "closed"}
      /\ t.open = h[c].open \ (Deferred \cup closing)
      /\ t.sends = h[c].sends /\ t.dials = h[c].dials /\ t.replies = h[c].replies
  BY <1>0 DEF Ended, States
<1>3. h[c].sends <= 2 /\ h[c].dials <= 3 * req[c].cands /\ t.open \subseteq Spare(req[c])
  BY <1>2 DEF HandlerInv, SendsCounted, DialsCounted
<1>4. h[c].pc \in Answered => h[c].replies = 1
  BY DEF HandlerInv, Replied
<1> HIDE DEF t
<1>5. h[c].pc \in Answered => HandlerInv(req[c], t)
  <2>1. h[c].pc \in Answered => t.replies <= 1
    BY <1>2, <1>4
  <2> QED
    BY <1>1, <1>2, <1>3, <1>4, <2>1, DoneIs
<1>6. ASSUME NEW u \in States, u.pc = "done", u.client = t.client, u.open = t.open, u.sends <= 2,
             u.dials = h[c].dials, u.replies = 1 \/ (u.replies = 0 /\ u.broke)
      PROVE  HandlerInv(req[c], u)
  <2>1. u.replies <= 1 /\ (u.replies = 1 \/ u.broke)
    BY <1>6
  <2> QED
    BY <1>2, <1>3, <1>6, <2>1, DoneIs
<1> QED
  BY <1>1, <1>5, <1>6 DEF t

-----------------------------------------------------------------------------
(* The handlers' steps, one by one.                                        *)

Keeps(c) == h'[c] \in States /\ HandlerInv(req[c], h'[c])

(* A handler that moves on, that answers, and that closes the client. *)
LEMMA GotoKeeps ==
  ASSUME TypeOK, NEW c \in Conns, HandlerInv(req[c], h[c]), NEW l, Goto(c, l), <<h[c].pc, l>> \in Moves
  PROVE  Keeps(c)
<1>1. req[c] \in Requests /\ h[c] \in States /\ h \in [Conns -> States]
  BY DEF TypeOK
<1>2. h'[c] = [h[c] EXCEPT !.pc = l]
  BY <1>1, Updates DEF Goto
<1> QED
  BY <1>1, <1>2, MoveKeeps DEF Keeps

LEMMA DialledKeeps ==
  ASSUME TypeOK, NEW c \in Conns, HandlerInv(req[c], h[c]), NEW n, NEW l,
         Update(c, [Dialled(c, n) EXCEPT !.pc = l]), <<h[c].pc, n, l>> \in Dials
  PROVE  Keeps(c)
<1>1. req[c] \in Requests /\ h[c] \in States /\ h \in [Conns -> States]
  BY DEF TypeOK
<1>2. h'[c] = [[h[c] EXCEPT !.open = @ \cup {n}, !.peer = n] EXCEPT !.pc = l]
  BY <1>1, Updates DEF Dialled
<1> QED
  BY <1>1, <1>2, DialKeeps DEF Keeps

LEMMA AnswerKeeps ==
  ASSUME TypeOK, NEW c \in Conns, HandlerInv(req[c], h[c]), Answers(c),
         h[c].pc \in Unanswered \ {"hijack"}
  PROVE  Keeps(c)
<1> DEFINE e == Ended(c, {})
           t == [e EXCEPT !.replies = @ + 1]
<1>1. req[c] \in Requests /\ h[c] \in States /\ h \in [Conns -> States]
  BY DEF TypeOK
<1>2. h'[c] = t
  BY <1>1, Updates DEF Answers
<1>3. h[c].open \ Deferred = {} /\ h[c].replies = 0 /\ h[c].sends <= 2
  BY DEF HandlerInv, Owned, Replied, SendsCounted
<1>4. (h[c].open \ Deferred) \ {} \subseteq Spare(req[c])
  BY <1>3
<1>5. /\ e \in States
      /\ e.pc = "done" /\ e.sends = h[c].sends /\ e.dials = h[c].dials /\ e.replies = h[c].replies
  <2>1. e \in States
    BY <1>4, EndKeeps
  <2>2. e.pc = "done" /\ e.sends = h[c].sends /\ e.dials = h[c].dials /\ e.replies = h[c].replies
    BY <1>1 DEF Ended, States
  <2> QED
    BY <2>1, <2>2
<1>6. \A u \in States :
        /\ u.pc = "done" /\ u.client = e.client /\ u.open = e.open /\ u.sends <= 2 /\ u.dials = h[c].dials
        /\ u.replies = 1 \/ (u.replies = 0 /\ u.broke)
        => HandlerInv(req[c], u)
  BY <1>4, EndKeeps
<1> HIDE DEF e
<1>7. /\ t \in States
      /\ t.pc = "done" /\ t.client = e.client /\ t.open = e.open /\ t.sends = e.sends
      /\ t.dials = e.dials /\ t.replies = 1
  <2>1. e.replies + 1 = 1 /\ t = [e EXCEPT !.replies = 1]
    BY <1>3, <1>5
  <2> HIDE DEF t
  <2> QED
    BY <1>5, <2>1 DEF States
<1> QED
  BY <1>2, <1>3, <1>5, <1>6, <1>7 DEF Keeps

LEMMA CloseKeeps ==
  ASSUME TypeOK, NEW c \in Conns, HandlerInv(req[c], h[c]), NEW closing, Ends(c, closing),
         h[c].pc \in Answered, (h[c].open \ Deferred) \ closing \subseteq Spare(req[c])
  PROVE  Keeps(c)
<1>1. h'[c] = Ended(c, closing)
  BY Updates DEF Ends, TypeOK
<1> QED
  BY <1>1, EndKeeps DEF Keeps

LEMMA BreakKeeps ==
  ASSUME TypeOK, NEW c \in Conns, HandlerInv(req[c], h[c]), NEW closing,
         Update(c, [Ended(c, closing) EXCEPT !.broke = TRUE]),
         h[c].pc # "done", (h[c].open \ Deferred) \ closing \subseteq Spare(req[c])
  PROVE  Keeps(c)
<1> DEFINE e == Ended(c, closing)
           t == [e EXCEPT !.broke = TRUE]
<1>1. req[c] \in Requests /\ h[c] \in States /\ h \in [Conns -> States]
  BY DEF TypeOK
<1>2. h'[c] = t
  BY <1>1, Updates
<1>3. h[c].replies \in {0, 1} /\ h[c].sends <= 2
  <2>1. h[c].replies \in Nat
    BY <1>1 DEF States
  <2>2. Replied(h[c])
    BY DEF HandlerInv
  <2>3. h[c].replies \in {0, 1} \/ h[c].replies <= 1
    BY <2>2 DEF Replied
  <2>4. h[c].sends <= 2
    BY DEF HandlerInv, SendsCounted
  <2> QED
    BY <2>1, <2>3, <2>4
<1>4. e \in States
  BY EndKeeps
<1>5. e.pc = "done" /\ e.sends = h[c].sends /\ e.dials = h[c].dials /\ e.replies = h[c].replies
  BY <1>1 DEF Ended, States
<1>6. \A u \in States :
        /\ u.pc = "done" /\ u.client = e.client /\ u.open = e.open /\ u.sends <= 2 /\ u.dials = h[c].dials
        /\ u.replies = 1 \/ (u.replies = 0 /\ u.broke)
        => HandlerInv(req[c], u)
  BY EndKeeps
<1> HIDE DEF e
<1>7. /\ t \in States
      /\ t.pc = "done" /\ t.client = e.client /\ t.open = e.open /\ t.sends = e.sends
      /\ t.dials = e.dials /\ t.replies = e.replies
  BY <1>4, <1>5 DEF States
<1>8. t.broke = TRUE
  BY <1>4 DEF States
<1> QED
  BY <1>2, <1>3, <1>5, <1>6, <1>7, <1>8 DEF Keeps

(* CONNECT. *)
LEMMA ConnectKeeps ==
  ASSUME TypeOK, NEW c \in Conns, HandlerInv(req[c], h[c]), Connect(c)
  PROVE  Keeps(c)
<1>0. req[c] \in Requests /\ h[c] \in States /\ h \in [Conns -> States]
  BY DEF TypeOK
<1> USE DEF At
<1>1. CASE handleConnect(c)
  <2> DEFINE l == IF gasRelay THEN "relay" ELSE IF gasDialAddr THEN "gas" ELSE connectTarget(req[c])
             t == [h[c] EXCEPT !.pc = l, !.next = effectiveMode(req[c])]
  <2>1. h'[c] = t /\ h[c].pc = "new"
    BY <1>0, <1>1, Updates DEF handleConnect
  <2>2. /\ l \in {"relay", "gas", "direct", "v2ray", "hijack", "candidates"}
        /\ l = "hijack" => effectiveMode(req[c]) \in {"server", "quic"}
        /\ l = "candidates" => effectiveMode(req[c]) \in Upward
        /\ effectiveMode(req[c]) \in Modes
    BY <1>0, EffectiveIs
  <2> HIDE DEF l
  <2>3. t \in States
    <3>1. l \in Labels
      BY <2>2 DEF Labels, Modes
    <3> QED
      BY <1>0, <2>2, <3>1 DEF States
  <2>4. /\ t.pc = l /\ t.next = effectiveMode(req[c]) /\ t.client = h[c].client /\ t.open = h[c].open
        /\ t.peer = h[c].peer /\ t.cand = h[c].cand /\ t.try = h[c].try /\ t.fell = h[c].fell
        /\ t.replies = h[c].replies /\ t.sends = h[c].sends /\ t.dials = h[c].dials
    BY <1>0 DEF States
  <2> HIDE DEF t
  <2> USE <2>1, <2>2, <2>4 DEF Unanswered, Answered, Bare, Upward, Dialling, HandlerInv
  <2>5. Replied(t) /\ SendsCounted(t)
    BY DEF Replied, SendsCounted
  <2>6. Routed(req[c], t)
    BY DEF Routed
  <2>7. Owned(req[c], t)
    BY DEF Owned
  <2>8. DialsCounted(req[c], t)
    BY DEF DialsCounted, NotBegun
  <2> QED
    BY <2>3, <2>5, <2>6, <2>7, <2>8 DEF Keeps
<1>2. CASE buildDialCandidates(c)
  BY <1>2, GotoKeeps DEF buildDialCandidates, Moves
<1>3. CASE DialCandidate(c)
  <2>1. h[c].pc = "dial"
    BY <1>3 DEF DialCandidate
  <2>2. CASE Answers(c)
    BY <2>1, <2>2, AnswerKeeps DEF Unanswered
  <2>3. ASSUME NEW t,
               \/ t = [Dialled(c, "raw") EXCEPT !.pc = "hijack", !.cand = 1]
               \/ h[c].cand < req[c].cands /\ t = [h[c] EXCEPT !.cand = @ + 1],
               Update(c, t)
        PROVE  Keeps(c)
    <3>1. h'[c] = t
      BY <1>0, <2>3, Updates
    <3>2. h[c].cand < req[c].cands => h[c].cand + 1 \in 1..2
      <4>1. h[c].cand \in 1..2
        BY <1>0 DEF States
      <4>2. req[c].cands \in {1, 2}
        BY <1>0 DEF Requests
      <4> QED
        BY <4>1, <4>2
    <3>3. t \in States
      <4>1. CASE t = [Dialled(c, "raw") EXCEPT !.pc = "hijack", !.cand = 1]
        <5>1. "hijack" \in Labels /\ "raw" \in Upstreams /\ 1 \in 1..2
          BY DEF Labels, Upstreams
        <5> QED
          BY <1>0, <4>1, <5>1 DEF States, Dialled
      <4>2. CASE h[c].cand < req[c].cands /\ t = [h[c] EXCEPT !.cand = @ + 1]
        <5> DEFINE n == h[c].cand + 1
        <5>1. n \in 1..2 /\ t = [h[c] EXCEPT !.cand = n]
          BY <3>2, <4>2
        <5> HIDE DEF n
        <5> QED
          BY <1>0, <5>1 DEF States
      <4> QED
        BY <2>3, <4>1, <4>2
    <3>4. /\ t.client = h[c].client /\ t.next = h[c].next /\ t.try = h[c].try /\ t.fell = h[c].fell
          /\ t.replies = h[c].replies /\ t.sends = h[c].sends /\ t.dials = h[c].dials
          /\ \/ t.pc = "dial" /\ t.open = h[c].open /\ t.peer = h[c].peer
             \/ t.pc = "hijack" /\ t.open = h[c].open \cup {"raw"} /\ t.peer = "raw" /\ t.cand = 1
      BY <1>0, <2>1, <2>3 DEF States, Dialled
    <3> USE <2>1, <3>4 DEF Unanswered, Answered, Bare, Upward, Dialling, HandlerInv
    <3>5. Replied(t) /\ SendsCounted(t)
      BY DEF Replied, SendsCounted
    <3>6. Routed(req[c], t)
      BY DEF Routed
    <3>7. Owned(req[c], t)
      BY DEF Owned
    <3>8. DialsCounted(req[c], t)
      BY DEF DialsCounted, NotBegun
    <3> QED
      BY <3>1, <3>3, <3>5, <3>6, <3>7, <3>8 DEF Keeps
  <2> QED
    BY <1>3, <2>2, <2>3 DEF DialCandidate
<1>4. CASE HijackOk(c)
  <2> DEFINE l == IF h[c].peer \in {"gas", "v2ray", "direct"} THEN "splice" ELSE h[c].next
             t == [h[c] EXCEPT !.pc = l, !.client = "hijacked", !.replies = @ + 1]
  <2>1. h'[c] = t /\ h[c].pc = "hijack"
    BY <1>0, <1>4, Updates DEF HijackOk
  <2>2. \/ l = "splice" /\ h[c].peer \in {"gas", "v2ray", "direct"}
        \/ l = h[c].next /\ l \in Upward /\ h[c].peer = "raw" /\ l = effectiveMode(req[c])
        \/ l = h[c].next /\ l \in {"server", "quic", "relaying"} /\ h[c].peer = None
    BY <2>1, HandlersAssumption DEF HandlerInv, Routed, HandlersAssumption, Upstreams
  <2>3. h[c].replies = 0 /\ h[c].open \subseteq Upstreams
    BY <1>0, <2>1 DEF HandlerInv, Replied, Unanswered, States
  <2> HIDE DEF l
  <2>4. t \in States
    <3>1. l \in Labels /\ h[c].replies + 1 \in Nat
      BY <2>2, <2>3 DEF Labels, Modes, Upward
    <3> QED
      BY <1>0, <3>1 DEF States
  <2>5. /\ t.pc = l /\ t.next = h[c].next /\ t.client = "hijacked" /\ t.open = h[c].open
        /\ t.peer = h[c].peer /\ t.cand = h[c].cand /\ t.try = h[c].try /\ t.fell = h[c].fell
        /\ t.replies = 1 /\ t.sends = h[c].sends /\ t.dials = h[c].dials
    <3>1. t = [h[c] EXCEPT !.pc = l, !.client = "hijacked", !.replies = 1]
      BY <2>3
    <3> HIDE DEF t
    <3> QED
      BY <1>0, <3>1 DEF States
  <2> HIDE DEF t
  <2> USE <2>1, <2>2, <2>5 DEF Unanswered, Answered, Bare, Upward, Dialling, HandlerInv
  <2>6. Replied(t) /\ SendsCounted(t)
    BY DEF Replied, SendsCounted
  <2>7. Routed(req[c], t)
    BY DEF Routed
  <2>8. Owned(req[c], t)
    BY <2>3, HandlersAssumption DEF Owned, HandlersAssumption
  <2>9. DialsCounted(req[c], t)
    BY DEF DialsCounted, NotBegun
  <2> QED
    BY <2>4, <2>6, <2>7, <2>8, <2>9 DEF Keeps
<1>5. CASE HijackFails(c)
  <2>1. h[c].pc = "hijack" /\ (h[c].open \ Deferred) \ {"client", h[c].peer} \subseteq Spare(req[c])
    BY <1>5 DEF HijackFails, HandlerInv, Owned
  <2> QED
    BY <1>5, <2>1, BreakKeeps DEF HijackFails, ClientFails
<1>6. CASE directConnect(c)
  <2>1. h[c].pc = "direct"
    BY <1>6 DEF directConnect
  <2> QED
    BY <1>6, <2>1, AnswerKeeps, DialledKeeps DEF directConnect, Unanswered, Dials
<1>7. CASE handleGASConnect(c)
  BY <1>7, GotoKeeps, DialledKeeps DEF handleGASConnect, Moves, Dials
<1>8. CASE GASConnectReply(c)
  BY <1>8, GotoKeeps, AnswerKeeps DEF GASConnectReply, Moves, Unanswered
<1>9. CASE handleGASRelayConnect(c)
  <2>1. h[c].pc = "relay"
    BY <1>9 DEF handleGASRelayConnect
  <2>2. CASE Goto(c, "direct")
    BY <2>1, <2>2, GotoKeeps DEF Moves
  <2>3. CASE Update(c, [h[c] EXCEPT !.pc = "hijack", !.next = "relaying"])
    <3> DEFINE t == [h[c] EXCEPT !.pc = "hijack", !.next = "relaying"]
    <3>1. h'[c] = t
      BY <1>0, <2>3, Updates
    <3>2. t \in States
      BY <1>0 DEF States, Labels
    <3>3. /\ t.pc = "hijack" /\ t.next = "relaying" /\ t.client = h[c].client /\ t.open = h[c].open
          /\ t.peer = h[c].peer /\ t.cand = h[c].cand /\ t.try = h[c].try /\ t.fell = h[c].fell
          /\ t.replies = h[c].replies /\ t.sends = h[c].sends /\ t.dials = h[c].dials
      BY <1>0 DEF States
    <3> HIDE DEF t
    <3> USE <2>1, <3>3 DEF Unanswered, Answered, Bare, Upward, Dialling, HandlerInv
    <3>4. Replied(t) /\ SendsCounted(t)
      BY DEF Replied, SendsCounted
    <3>5. Routed(req[c], t)
      BY DEF Routed
    <3>6. Owned(req[c], t)
      BY DEF Owned
    <3>7. DialsCounted(req[c], t)
      BY DEF DialsCounted, NotBegun
    <3> QED
      BY <3>1, <3>2, <3>4, <3>5, <3>6, <3>7 DEF Keeps
  <2> QED
    BY <1>9, <2>2, <2>3 DEF handleGASRelayConnect
<1>10. CASE handleV2RayConnect(c)
  BY <1>10, GotoKeeps, DialledKeeps DEF handleV2RayConnect, Moves, Dials
<1>11. CASE V2RayGreeting(c)
  BY <1>11, GotoKeeps DEF V2RayGreeting, Moves
<1>12. CASE V2RayCommand(c)
  BY <1>12, GotoKeeps, AnswerKeeps DEF V2RayCommand, Moves, Unanswered
<1> QED
  BY <1>1, <1>2, <1>3, <1>4, <1>5, <1>6, <1>7, <1>8, <1>9, <1>10, <1>11, <1>12 DEF Connect

(* A handler between its dials, and one that holds nothing but the client. *)
LEMMA DiallingIs ==
  ASSUME NEW r, NEW t \in States, t.pc \in Dialling, t.replies = 1, t.client = "hijacked",
         t.open \ Deferred \subseteq Spare(r), t.sends <= 2, DialsCounted(r, t)
  PROVE  HandlerInv(r, t)
<1> USE DEF Unanswered, Answered, Bare, Upward, Dialling
<1>1. Replied(t) /\ SendsCounted(t)
  BY DEF Replied, SendsCounted
<1>2. Routed(r, t) /\ Owned(r, t)
  BY DEF Routed, Owned
<1> QED
  BY <1>1, <1>2 DEF HandlerInv

LEMMA BareIs ==
  ASSUME NEW r, NEW t \in States, t.pc \in Bare, t.replies = 1, t.client = "hijacked",
         t.open \ Deferred = {}, t.sends <= 2, t.dials <= 3 * r.cands
  PROVE  HandlerInv(r, t)
<1> USE DEF Unanswered, Answered, Bare, Upward, Dialling
<1>1. Replied(t) /\ SendsCounted(t)
  BY DEF Replied, SendsCounted
<1>2. Routed(r, t) /\ Owned(r, t)
  BY DEF Routed, Owned
<1>3. DialsCounted(r, t)
  BY DEF DialsCounted
<1> QED
  BY <1>1, <1>2, <1>3 DEF HandlerInv

LEMMA TunnelKeeps ==
  ASSUME TypeOK, NEW c \in Conns, NEW s \in States, StartsTunnel(c, s), s.replies = 1,
         s.open \ Deferred \subseteq {s.peer} \cup Spare(req[c]), s.sends <= 2, s.dials <= 3 * req[c].cands
  PROVE  Keeps(c)
<1> DEFINE t == [s EXCEPT !.pc = "tunnel", !.copy = {"up", "down"}]
<1>1. h'[c] = t
  BY Updates DEF StartsTunnel, TypeOK
<1>2. t \in States
  BY DEF States, Labels
<1>3. /\ t.pc = "tunnel" /\ t.replies = s.replies /\ t.copy = {"up", "down"} /\ t.open = s.open
      /\ t.peer = s.peer /\ t.sends = s.sends /\ t.dials = s.dials
  BY DEF States
<1> HIDE DEF t
<1> QED
  BY <1>1, <1>2, <1>3, TunnelIs DEF Keeps

(* The tunnel. *)
LEMMA TunnelStepKeeps ==
  ASSUME TypeOK, NEW c \in Conns, HandlerInv(req[c], h[c]),
         Splice(c) \/ TunnelEnds(c) \/ \E d \in {"up", "down"} : CopyEnds(c, d)
  PROVE  Keeps(c)
<1>0. req[c] \in Requests /\ h[c] \in States /\ h \in [Conns -> States]
  BY DEF TypeOK
<1> USE DEF At
<1>1. CASE Splice(c)
  <2> DEFINE s == [h[c] EXCEPT !.next = ""]
  <2>1. s \in States
    BY <1>0 DEF States
  <2>2. /\ s.replies = h[c].replies /\ s.open = h[c].open /\ s.peer = h[c].peer
        /\ s.sends = h[c].sends /\ s.dials = h[c].dials
    BY <1>0 DEF States
  <2>3. StartsTunnel(c, s) /\ h[c].pc \in {"splice", "transparent"}
    BY <1>1 DEF Splice
  <2>4. /\ h[c].replies = 1 /\ h[c].open \ Deferred \subseteq {h[c].peer}
        /\ h[c].sends <= 2 /\ h[c].dials <= 3 * req[c].cands
    BY <2>3 DEF HandlerInv, Replied, Owned, SendsCounted, DialsCounted, Answered, Upward
  <2> HIDE DEF s
  <2> QED
    BY <2>1, <2>2, <2>3, <2>4, TunnelKeeps
<1>2. CASE TunnelEnds(c)
  <2> DEFINE t == [h[c] EXCEPT !.pc = "done", !.open = @ \ Deferred]
  <2>1. h'[c] = t /\ h[c].pc = "tunnel" /\ h[c].copy = {}
    BY <1>0, <1>2, Updates DEF TunnelEnds
  <2>2. t \in States
    BY <1>0 DEF States, Labels
  <2>3. /\ t.pc = "done" /\ t.open = h[c].open \ Deferred /\ t.client = h[c].client
        /\ t.replies = h[c].replies /\ t.sends = h[c].sends /\ t.dials = h[c].dials
    BY <1>0 DEF States
  <2>4. h[c].open \ Deferred \subseteq Spare(req[c]) /\ h[c].client = "closed"
    BY <2>1 DEF HandlerInv, Owned
  <2>5. h[c].replies = 1 /\ h[c].sends <= 2 /\ h[c].dials <= 3 * req[c].cands
    BY <2>1 DEF HandlerInv, Replied, SendsCounted, DialsCounted, Answered
  <2> HIDE DEF t
  <2>6. t.replies <= 1
    BY <2>3, <2>5
  <2> QED
    BY <2>1, <2>2, <2>3, <2>4, <2>5, <2>6, DoneIs DEF Keeps
<1>3. ASSUME NEW d \in {"up", "down"}, CopyEnds(c, d) PROVE Keeps(c)
  <2> DEFINE cl == IF ClosesBoth(c) \/ d = "down" THEN "closed" ELSE h[c].client
             op == IF ClosesBoth(c) \/ d = "up" THEN h[c].open \ {h[c].peer} ELSE h[c].open
             t == [h[c] EXCEPT !.copy = @ \ {d}, !.client = cl, !.open = op]
  <2>1. h'[c] = t /\ h[c].pc = "tunnel"
    BY <1>0, <1>3, Updates DEF CopyEnds
  <2>2. /\ cl \in {h[c].client, "closed"} /\ (d = "down" => cl = "closed")
        /\ op \subseteq h[c].open /\ (d = "up" => h[c].peer \notin op)
    OBVIOUS
  <2> HIDE DEF cl, op
  <2>3. t \in States
    BY <1>0, <2>2 DEF States
  <2>4. /\ t.pc = "tunnel" /\ t.copy = h[c].copy \ {d} /\ t.client = cl /\ t.open = op
        /\ t.peer = h[c].peer /\ t.replies = h[c].replies /\ t.sends = h[c].sends /\ t.dials = h[c].dials
    BY <1>0, <2>1 DEF States
  <2> HIDE DEF t
  <2> USE <2>1, <2>2, <2>4 DEF Unanswered, Answered, Bare, Upward, Dialling, HandlerInv
  <2>5. Replied(t) /\ SendsCounted(t)
    BY DEF Replied, SendsCounted
  <2>6. Routed(req[c], t)
    BY DEF Routed
  <2>7. Owned(req[c], t)
    BY <1>3 DEF Owned
  <2>8. DialsCounted(req[c], t)
    BY DEF DialsCounted
  <2> QED
    BY <2>3, <2>5, <2>6, <2>7, <2>8 DEF Keeps
<1> QED
  BY <1>1, <1>2, <1>3

(* The relay, SOCKS5 and plain HTTP. *)
LEMMA PlainKeeps ==
  ASSUME TypeOK, NEW c \in Conns, HandlerInv(req[c], h[c]),
         RelayChooses(c) \/ RelayLoopEnds(c) \/ relayRequestHangs(c) \/ Socks(c) \/ Http(c)
  PROVE  Keeps(c)
<1>0. req[c] \in Requests /\ h[c] \in States /\ h \in [Conns -> States]
  BY DEF TypeOK
<1> USE DEF At
<1>1. CASE RelayChooses(c) \/ relayRequestHangs(c)
  BY <1>1, GotoKeeps DEF RelayChooses, relayRequestHangs, Moves
<1>2. CASE RelayLoopEnds(c)
  <2>1. h[c].pc \in {"relayhttps", "relayraw"} /\ Ends(c, {"client"})
    BY <1>2 DEF RelayLoopEnds
  <2>2. (h[c].open \ Deferred) \ {"client"} \subseteq Spare(req[c])
    BY <2>1 DEF HandlerInv, Owned, Bare
  <2> QED
    BY <2>1, <2>2, CloseKeeps DEF Answered, Bare
<1>3. CASE handleSOCKS5(c)
  <2>1. h[c].pc = "new"
    BY <1>3 DEF handleSOCKS5
  <2>2. h[c].open \ Deferred = {} /\ h[c].sends = 0 /\ h[c].dials <= 3 * req[c].cands
    BY <2>1 DEF HandlerInv, Owned, SendsCounted, DialsCounted, Unanswered
  <2>3. CASE Update(c, [h[c] EXCEPT !.pc = "socksrelay", !.client = "hijacked", !.replies = 1])
    <3> DEFINE t == [h[c] EXCEPT !.pc = "socksrelay", !.client = "hijacked", !.replies = 1]
    <3>1. h'[c] = t
      BY <1>0, <2>3, Updates
    <3>2. t \in States
      BY <1>0 DEF States, Labels
    <3>3. /\ t.pc = "socksrelay" /\ t.client = "hijacked" /\ t.replies = 1 /\ t.open = h[c].open
          /\ t.sends = h[c].sends /\ t.dials = h[c].dials
      BY <1>0 DEF States
    <3> HIDE DEF t
    <3>4. t.pc \in Bare /\ t.sends <= 2
      BY <2>2, <3>3 DEF Bare
    <3> QED
      BY <2>2, <3>1, <3>2, <3>3, <3>4, BareIs DEF Keeps
  <2>4. CASE Update(c, [Ended(c, {"client"}) EXCEPT !.broke = TRUE])
    BY <2>1, <2>2, <2>4, BreakKeeps
  <2>5. CASE Update(c, [Ended(c, {"client"}) EXCEPT !.replies = 1])
    <3> DEFINE e == Ended(c, {"client"})
               t == [e EXCEPT !.replies = 1]
    <3>1. h'[c] = t
      BY <1>0, <2>5, Updates
    <3>2. (h[c].open \ Deferred) \ {"client"} \subseteq Spare(req[c])
      BY <2>2
    <3>3. e \in States
      BY <3>2, EndKeeps
    <3>4. e.pc = "done" /\ e.sends = h[c].sends /\ e.dials = h[c].dials
      BY <1>0 DEF Ended, States
    <3>5. \A u \in States :
            /\ u.pc = "done" /\ u.client = e.client /\ u.open = e.open /\ u.sends <= 2 /\ u.dials = h[c].dials
            /\ u.replies = 1 \/ (u.replies = 0 /\ u.broke)
            => HandlerInv(req[c], u)
      BY <3>2, EndKeeps
    <3> HIDE DEF e
    <3>6. /\ t \in States
          /\ t.pc = "done" /\ t.client = e.client /\ t.open = e.open /\ t.sends = e.sends
          /\ t.dials = e.dials /\ t.replies = 1
      BY <3>3, <3>4 DEF States
    <3>7. t.sends <= 2
      BY <2>2, <3>4, <3>6
    <3> QED
      BY <3>1, <3>4, <3>5, <3>6, <3>7 DEF Keeps
  <2> QED
    BY <1>3, <2>3, <2>4, <2>5 DEF handleSOCKS5
<1>4. CASE socksRelay(c)
  BY <1>4, GotoKeeps, DialledKeeps DEF socksRelay, Moves, Dials
<1>5. CASE SocksGASReply(c)
  <2>1. h[c].pc = "socksconnect"
    BY <1>5 DEF SocksGASReply
  <2>2. /\ h[c].replies = 1 /\ h[c].open \ Deferred = {} /\ h[c].sends <= 2
        /\ h[c].dials <= 3 * req[c].cands
    BY <2>1 DEF HandlerInv, Replied, Owned, SendsCounted, DialsCounted, Answered, Bare
  <2>3. CASE StartsTunnel(c, h[c])
    BY <1>0, <2>2, <2>3, TunnelKeeps
  <2> QED
    BY <1>5, <2>1, <2>3, GotoKeeps DEF SocksGASReply, Moves
<1>6. CASE socksGASRelayDirect(c)
  BY <1>6, GotoKeeps DEF socksGASRelayDirect, Moves
<1>7. CASE socksDirect(c)
  <2>1. h[c].pc = "socksdirect"
    BY <1>7 DEF socksDirect
  <2>2. /\ h[c].replies = 1 /\ h[c].open \ Deferred = {} /\ h[c].sends <= 2
        /\ h[c].dials <= 3 * req[c].cands
    BY <2>1 DEF HandlerInv, Replied, Owned, SendsCounted, DialsCounted, Answered, Bare
  <2>3. CASE StartsTunnel(c, Dialled(c, "dst"))
    <3> DEFINE s == Dialled(c, "dst")
    <3>1. s \in States
      BY <1>0 DEF Dialled, States, Upstreams
    <3>2. /\ s.replies = h[c].replies /\ s.open = h[c].open \cup {"dst"} /\ s.peer = "dst"
          /\ s.sends = h[c].sends /\ s.dials = h[c].dials
      BY <1>0 DEF Dialled, States
    <3> HIDE DEF s
    <3> QED
      BY <2>2, <2>3, <3>1, <3>2, TunnelKeeps DEF s
  <2>4. CASE Ends(c, {"client"})
    BY <2>1, <2>2, <2>4, CloseKeeps DEF Answered, Bare
  <2> QED
    BY <1>7, <2>3, <2>4 DEF socksDirect
<1>8. CASE handleHTTP(c)
  BY <1>8, GotoKeeps DEF handleHTTP, httpTarget, Moves
<1>9. CASE RoundTrip(c) \/ handleGASRelayHTTP(c)
  BY <1>9, AnswerKeeps DEF RoundTrip, handleGASRelayHTTP, Unanswered
<1>10. CASE handleGASHTTP(c)
  BY <1>10, GotoKeeps, DialledKeeps DEF handleGASHTTP, Moves, Dials
<1>11. CASE GASHTTPRetry(c)
  BY <1>11, AnswerKeeps, DialledKeeps DEF GASHTTPRetry, Dials, Unanswered
<1>12. CASE GASHTTPSend(c)
  <2>1. h[c].pc = "httpsend"
    BY <1>12 DEF GASHTTPSend
  <2>2. /\ h[c].open \ Deferred = {} /\ h[c].sends <= 1 /\ h[c].replies = 0
        /\ h[c].client = "server" /\ NotBegun(h[c]) /\ h[c].cand = 1 /\ h[c].dials <= 3 * req[c].cands
    BY <2>1 DEF HandlerInv, Replied, Owned, SendsCounted, DialsCounted, Unanswered
  <2>3. CASE Answers(c)
    BY <2>1, <2>3, AnswerKeeps DEF Unanswered
  <2>4. CASE Update(c, [Ended(c, {}) EXCEPT !.replies = @ + 1, !.sends = @ + 1])
    <3> DEFINE e == Ended(c, {})
               n == h[c].sends + 1
               t == [e EXCEPT !.replies = 1, !.sends = n]
    <3>1. (h[c].open \ Deferred) \ {} \subseteq Spare(req[c])
      BY <2>2
    <3>2. e \in States
      BY <3>1, EndKeeps
    <3>3. e.pc = "done" /\ e.sends = h[c].sends /\ e.dials = h[c].dials /\ e.replies = h[c].replies
      BY <1>0 DEF Ended, States
    <3>4. \A u \in States :
            /\ u.pc = "done" /\ u.client = e.client /\ u.open = e.open /\ u.sends <= 2 /\ u.dials = h[c].dials
            /\ u.replies = 1 \/ (u.replies = 0 /\ u.broke)
            => HandlerInv(req[c], u)
      BY <3>1, EndKeeps
    <3>5. e.replies + 1 = 1 /\ e.sends + 1 = n /\ n \in Nat /\ n <= 2
      <4>1. h[c].sends \in Nat
        BY <1>0 DEF States
      <4> QED
        BY <2>2, <3>3, <4>1
    <3>6. h'[c] = t
      BY <1>0, <2>4, <3>5, Updates
    <3> HIDE DEF e, n
    <3>7. /\ t \in States
          /\ t.pc = "done" /\ t.client = e.client /\ t.open = e.open /\ t.sends = n
          /\ t.dials = e.dials /\ t.replies = 1
      BY <3>2, <3>3, <3>5 DEF States
    <3> QED
      BY <3>3, <3>4, <3>5, <3>6, <3>7 DEF Keeps
  <2>5. CASE Update(c, [h[c] EXCEPT !.pc = "httpretry", !.open = {}, !.sends = 1])
    <3> DEFINE t == [h[c] EXCEPT !.pc = "httpretry", !.open = {}, !.sends = 1]
    <3>1. h'[c] = t
      BY <1>0, <2>5, Updates
    <3>2. t \in States
      BY <1>0 DEF States, Labels
    <3>3. /\ t.pc = "httpretry" /\ t.open = {} /\ t.sends = 1 /\ t.client = h[c].client
          /\ t.replies = h[c].replies /\ t.dials = h[c].dials /\ t.cand = h[c].cand
          /\ t.try = h[c].try /\ t.fell = h[c].fell
      BY <1>0 DEF States
    <3> HIDE DEF t
    <3> USE <2>2, <3>3 DEF Unanswered, Answered, Bare, Upward, Dialling
    <3>4. Replied(t) /\ SendsCounted(t)
      BY DEF Replied, SendsCounted
    <3>5. Routed(req[c], t)
      BY DEF Routed
    <3>6. Owned(req[c], t)
      BY DEF Owned
    <3>7. DialsCounted(req[c], t)
      BY DEF DialsCounted, NotBegun
    <3> QED
      BY <3>1, <3>2, <3>4, <3>5, <3>6, <3>7 DEF Keeps, HandlerInv
  <2> QED
    BY <1>12, <2>3, <2>4, <2>5 DEF GASHTTPSend
<1> QED
  BY <1>1, <1>2, <1>3, <1>4, <1>5, <1>6, <1>7, <1>8, <1>9, <1>10, <1>11, <1>12 DEF Socks, Http

(* The loop over the candidates goes on: each is dialled twice at most in  *)
(* the first round and once in the second.                                 *)
LEMMA NextKeeps ==
  ASSUME NEW r \in Requests, NEW s \in States, s.replies = 1, s.client = "hijacked",
         s.open \ Deferred \subseteq Spare(r), s.sends <= 2, s.cand <= r.cands,
         s.fell => s.try = 0, s.dials <= Before(r, s) + 1
  PROVE  NextCandidate(r, s) \in States /\ HandlerInv(r, NextCandidate(r, s))
<1> DEFINE t == NextCandidate(r, s)
           n == s.cand + 1
<1>0. r.cands \in {1, 2} /\ s.cand \in 1..2 /\ s.try \in 0..1 /\ s.dials \in Nat /\ s.fell \in BOOLEAN
  BY DEF Requests, States
<1>01. 0 \in 0..1 /\ 1 \in 1..2 /\ {"establish", "failed"} \subseteq Labels
  BY DEF Labels
<1> USE DEF Unanswered, Upward, Dialling
<1>1. CASE s.cand < r.cands
  <2>1. t = [s EXCEPT !.pc = "establish", !.cand = n, !.try = 0] /\ n \in 1..2 /\ n <= r.cands
    BY <1>0, <1>1 DEF NextCandidate
  <2>2. n = s.cand + 1
    OBVIOUS
  <2> HIDE DEF t, n
  <2>21. t \in States
    BY <1>01, <2>1 DEF States
  <2>3. /\ t.pc = "establish" /\ t.cand = n /\ t.try = 0 /\ t.fell = s.fell
        /\ t.replies = s.replies /\ t.client = s.client /\ t.open = s.open /\ t.sends = s.sends
        /\ t.dials = s.dials
    BY <2>1 DEF States
  <2>4. s.dials <= Before(r, t) /\ s.dials <= 3 * r.cands
    <3>1. CASE s.fell
      BY <1>0, <1>1, <2>2, <2>3, <3>1 DEF Before
    <3>2. CASE ~s.fell
      <4>1. s.dials <= 2 * (s.cand - 1) + s.try + 1 /\ Before(r, t) = 2 * (n - 1) + 0
        BY <2>3, <3>2 DEF Before
      <4> QED
        BY <1>0, <1>1, <2>2, <4>1
    <3> QED
      BY <3>1, <3>2
  <2>5. DialsCounted(r, t)
    BY <2>1, <2>3, <2>4 DEF DialsCounted
  <2> QED
    BY <2>21, <2>3, <2>5, DiallingIs DEF t
<1>2. CASE ~(s.cand < r.cands) /\ r.fallback /\ ~s.fell
  <2>1. t = [s EXCEPT !.pc = "establish", !.cand = 1, !.try = 0, !.fell = TRUE]
    BY <1>2 DEF NextCandidate
  <2> HIDE DEF t
  <2>11. t \in States
    BY <1>01, <2>1 DEF States
  <2>2. /\ t.pc = "establish" /\ t.cand = 1 /\ t.try = 0 /\ t.fell
        /\ t.replies = s.replies /\ t.client = s.client /\ t.open = s.open /\ t.sends = s.sends
        /\ t.dials = s.dials
    BY <2>1 DEF States
  <2>3. s.dials <= Before(r, t) /\ s.dials <= 3 * r.cands
    BY <1>0, <1>2, <2>2 DEF Before
  <2>4. DialsCounted(r, t)
    BY <1>0, <2>2, <2>3 DEF DialsCounted
  <2> QED
    BY <2>11, <2>2, <2>4, DiallingIs DEF t
<1>3. CASE ~(s.cand < r.cands) /\ ~(r.fallback /\ ~s.fell)
  <2>1. t = [s EXCEPT !.pc = "failed"]
    BY <1>3 DEF NextCandidate
  <2> HIDE DEF t
  <2>2. /\ t \in States /\ t.pc = "failed"
        /\ t.replies = s.replies /\ t.client = s.client /\ t.open = s.open /\ t.sends = s.sends
        /\ t.dials = s.dials
    BY <2>1 DEF States, Labels
  <2>3. s.dials <= 3 * r.cands
    <3>1. CASE s.fell
      BY <1>0, <1>3, <3>1 DEF Before
    <3>2. CASE ~s.fell
      BY <1>0, <1>3, <3>2 DEF Before
    <3> QED
      BY <3>1, <3>2
  <2>4. DialsCounted(r, t)
    BY <2>2, <2>3 DEF DialsCounted
  <2> QED
    BY <2>2, <2>4, DiallingIs DEF t
<1> QED
  BY <1>1, <1>2, <1>3

(* What a handler that dials for MITM may still do. *)
LEMMA DiallingHas ==
  ASSUME NEW r, NEW s, HandlerInv(r, s), s.pc \in Dialling
  PROVE  /\ s.replies = 1 /\ s.client = "hijacked" /\ s.open \ Deferred \subseteq Spare(r)
         /\ s.sends <= 2 /\ s.dials <= 3 * r.cands
BY DEF HandlerInv, Replied, Owned, SendsCounted, DialsCounted, Dialling, Answered

(* establishUpstreamConn. *)
LEMMA EstablishKeeps ==
  ASSUME TypeOK, NEW c \in Conns, HandlerInv(req[c], h[c]),
         EstablishDial(c) \/ EstablishRetry(c) \/ EstablishHandshake(c) \/ EstablishFails(c)
  PROVE  Keeps(c)
<1>0. req[c] \in Requests /\ h[c] \in States /\ h \in [Conns -> States]
  BY DEF TypeOK
<1>01. /\ req[c].cands \in {1, 2} /\ h[c].cand \in 1..2 /\ h[c].try \in 0..1 /\ h[c].dials \in Nat
       /\ h[c].fell \in BOOLEAN
  BY <1>0 DEF Requests, States
<1> USE DEF At
<1>02. h[c].pc \in {"establish", "upstream", "failed"}
  BY DEF EstablishDial, EstablishRetry, EstablishHandshake, EstablishFails
<1>03. /\ h[c].replies = 1 /\ h[c].client = "hijacked" /\ h[c].open \ Deferred \subseteq Spare(req[c])
       /\ h[c].sends <= 2 /\ h[c].dials <= 3 * req[c].cands
  BY <1>02, DiallingHas DEF Dialling
<1>04. h[c].pc \in {"establish", "upstream"} => h[c].cand <= req[c].cands /\ (h[c].fell => h[c].try = 0)
  BY DEF HandlerInv, DialsCounted
<1>05. h[c].pc = "establish" => h[c].dials <= Before(req[c], h[c])
  BY DEF HandlerInv, DialsCounted
<1>06. h[c].pc = "upstream" => h[c].dials <= Before(req[c], h[c]) + 1
  BY DEF HandlerInv, DialsCounted
<1>07. Before(req[c], h[c]) \in Nat
  <2>1. CASE h[c].fell
    BY <1>01, <2>1 DEF Before
  <2>2. CASE ~h[c].fell
    BY <1>01, <2>2 DEF Before
  <2> QED
    BY <2>1, <2>2
<1> USE DEF Unanswered, Upward, Dialling
<1>1. CASE EstablishDial(c)
  <2> DEFINE n == h[c].dials + 1
  <2>1. h[c].pc = "establish" /\ n \in Nat
    BY <1>01, <1>1 DEF EstablishDial
  <2>2. n <= Before(req[c], h[c]) + 1
    BY <1>01, <1>05, <1>07, <2>1
  <2>3. CASE Update(c, [h[c] EXCEPT !.pc = "upstream", !.open = @ \cup {"mitm"}, !.dials = @ + 1])
    <3> DEFINE t == [h[c] EXCEPT !.pc = "upstream", !.open = @ \cup {"mitm"}, !.dials = n]
    <3>1. h'[c] = t
      BY <1>0, <2>3, Updates
    <3>2. n <= 3 * req[c].cands
      <4>1. CASE h[c].fell
        BY <1>01, <1>04, <2>1, <2>2, <4>1 DEF Before
      <4>2. CASE ~h[c].fell
        BY <1>01, <1>04, <2>1, <2>2, <4>2 DEF Before
      <4> QED
        BY <4>1, <4>2
    <3> HIDE DEF n
    <3>3. t \in States
      BY <1>0, <2>1 DEF States, Labels, Upstreams
    <3>4. /\ t.pc = "upstream" /\ t.open = h[c].open \cup {"mitm"} /\ t.dials = n
          /\ t.replies = h[c].replies /\ t.client = h[c].client /\ t.sends = h[c].sends
          /\ t.cand = h[c].cand /\ t.try = h[c].try /\ t.fell = h[c].fell
      BY <1>0 DEF States
    <3> HIDE DEF t
    <3>5. Before(req[c], t) = Before(req[c], h[c])
      BY <3>4 DEF Before
    <3>6. DialsCounted(req[c], t)
      BY <1>04, <2>1, <2>2, <3>2, <3>4, <3>5 DEF DialsCounted
    <3>7. t.open \ Deferred \subseteq Spare(req[c])
      BY <1>03, <3>4 DEF Deferred
    <3> QED
      BY <1>03, <3>1, <3>3, <3>4, <3>6, <3>7, DiallingIs DEF Keeps
  <2>4. CASE Update(c, NextCandidate(req[c], [h[c] EXCEPT !.dials = @ + 1]))
    <3> DEFINE t == [h[c] EXCEPT !.dials = n]
    <3>1. h'[c] = NextCandidate(req[c], t)
      BY <1>0, <2>4, Updates
    <3> HIDE DEF n
    <3>2. t \in States
      BY <1>0, <2>1 DEF States
    <3>3. /\ t.open = h[c].open /\ t.dials = n
          /\ t.replies = h[c].replies /\ t.client = h[c].client /\ t.sends = h[c].sends
          /\ t.cand = h[c].cand /\ t.try = h[c].try /\ t.fell = h[c].fell
      BY <1>0 DEF States
    <3> HIDE DEF t
    <3>4. Before(req[c], t) = Before(req[c], h[c])
      BY <3>3 DEF Before
    <3>5. NextCandidate(req[c], t) \in States /\ HandlerInv(req[c], NextCandidate(req[c], t))
      BY <1>0, <1>03, <1>04, <2>1, <2>2, <3>2, <3>3, <3>4, NextKeeps
    <3> QED
      BY <3>1, <3>5 DEF Keeps
  <2> QED
    BY <1>1, <2>3, <2>4 DEF EstablishDial
<1>2. CASE EstablishRetry(c)
  <2> DEFINE t == [h[c] EXCEPT !.pc = "establish", !.try = 1, !.open = @ \ {"mitm"}]
  <2>1. h'[c] = t /\ h[c].pc = "upstream" /\ ~h[c].fell /\ h[c].try = 0
    BY <1>0, <1>2, Updates DEF EstablishRetry
  <2>2. t \in States
    <3>1. 1 \in 0..1 /\ "establish" \in Labels
      BY DEF Labels
    <3> QED
      BY <1>0, <3>1 DEF States
  <2>3. /\ t.pc = "establish" /\ t.try = 1 /\ t.open = h[c].open \ {"mitm"} /\ t.dials = h[c].dials
        /\ t.replies = h[c].replies /\ t.client = h[c].client /\ t.sends = h[c].sends
        /\ t.cand = h[c].cand /\ t.fell = h[c].fell
    BY <1>0 DEF States
  <2> HIDE DEF t
  <2>4. h[c].dials <= Before(req[c], t)
    BY <1>01, <1>06, <2>1, <2>3 DEF Before
  <2>5. DialsCounted(req[c], t)
    BY <1>03, <1>04, <2>1, <2>3, <2>4 DEF DialsCounted
  <2>6. t.open \ Deferred \subseteq Spare(req[c])
    BY <1>03, <2>3
  <2> QED
    BY <1>03, <2>1, <2>2, <2>3, <2>5, <2>6, DiallingIs DEF Keeps
<1>3. CASE EstablishHandshake(c)
  <2>1. h[c].pc = "upstream"
    BY <1>3 DEF EstablishHandshake
  <2>2. CASE Goto(c, IF h[c].next = "server" THEN "serve" ELSE "handshake")
    <3> DEFINE l == IF h[c].next = "server" THEN "serve" ELSE "handshake"
               t == [h[c] EXCEPT !.pc = l]
    <3>1. h'[c] = t
      BY <1>0, <2>2, Updates DEF Goto
    <3>2. l \in {"serve", "handshake"} /\ (l = "handshake" => h[c].next # "server")
      OBVIOUS
    <3> HIDE DEF l
    <3>3. t \in States
      BY <1>0, <3>2 DEF States, Labels
    <3>4. /\ t.pc = l /\ t.open = h[c].open /\ t.dials = h[c].dials /\ t.next = h[c].next
          /\ t.replies = h[c].replies /\ t.client = h[c].client /\ t.sends = h[c].sends
      BY <1>0 DEF States
    <3> HIDE DEF t
    <3>5. DialsCounted(req[c], t)
      BY <1>03, <3>2, <3>4 DEF DialsCounted
    <3> QED
      BY <1>03, <3>1, <3>2, <3>3, <3>4, <3>5, DiallingIs DEF Keeps
  <2>3. CASE Update(c, NextCandidate(req[c], [h[c] EXCEPT !.open = @ \ {"mitm"}]))
    <3> DEFINE t == [h[c] EXCEPT !.open = @ \ {"mitm"}]
    <3>1. h'[c] = NextCandidate(req[c], t)
      BY <1>0, <2>3, Updates
    <3>2. t \in States
      BY <1>0, <2>1 DEF States
    <3>3. /\ t.open = h[c].open \ {"mitm"} /\ t.dials = h[c].dials
          /\ t.replies = h[c].replies /\ t.client = h[c].client /\ t.sends = h[c].sends
          /\ t.cand = h[c].cand /\ t.try = h[c].try /\ t.fell = h[c].fell
      BY <1>0 DEF States
    <3> HIDE DEF t
    <3>4. Before(req[c], t) = Before(req[c], h[c]) /\ t.open \ Deferred \subseteq Spare(req[c])
      BY <1>03, <3>3 DEF Before
    <3>5. NextCandidate(req[c], t) \in States /\ HandlerInv(req[c], NextCandidate(req[c], t))
      BY <1>0, <1>03, <1>04, <1>06, <2>1, <3>2, <3>3, <3>4, NextKeeps
    <3> QED
      BY <3>1, <3>5 DEF Keeps
  <2> QED
    BY <1>3, <2>2, <2>3 DEF EstablishHandshake
<1>4. CASE EstablishFails(c)
  <2>1. (h[c].open \ Deferred) \ {"client"} \subseteq Spare(req[c]) /\ h[c].pc \in Answered
    BY <1>02, <1>03 DEF Answered
  <2> QED
    BY <1>4, <2>1, CloseKeeps DEF EstablishFails
<1> QED
  BY <1>1, <1>2, <1>3, <1>4

(* The other steps of MITM and of the TLS fragmentation. *)
LEMMA MitmKeeps ==
  ASSUME TypeOK, NEW c \in Conns, HandlerInv(req[c], h[c]),
         \/ handleMITM(c) \/ handleServerMITM(c) \/ handleQUICMITM(c) \/ PoolCandidates(c)
         \/ TLSFragment(c) \/ TLSRFFallback(c) \/ ServeEnds(c) \/ ClientHandshake(c)
  PROVE  Keeps(c)
<1>0. req[c] \in Requests /\ h[c] \in States /\ h \in [Conns -> States]
  BY DEF TypeOK
<1>01. req[c].cands \in {1, 2}
  BY <1>0 DEF Requests
<1> USE DEF At, Unanswered, Upward, Dialling
<1>02. h[c].pc \in {"mitm", "server", "quic", "pool", "tls-rf", "rffallback", "serve", "handshake"}
  BY DEF handleMITM, handleServerMITM, handleQUICMITM, PoolCandidates, TLSFragment, TLSRFFallback,
         ServeEnds, ClientHandshake
<1>03. h[c].replies = 1 /\ h[c].client = "hijacked" /\ h[c].pc \in Answered
  BY <1>02 DEF HandlerInv, Replied, Answered, Bare
<1>04. h[c].sends <= 2 /\ h[c].dials <= 3 * req[c].cands
  BY DEF HandlerInv, SendsCounted, DialsCounted
<1>05. h[c].pc # "tls-rf" => h[c].open \ Deferred \subseteq Spare(req[c])
  <2>1. CASE h[c].pc = "mitm"
    BY <2>1 DEF HandlerInv, Owned, Routed, Spare
  <2>2. CASE h[c].pc = "rffallback"
    BY <2>2 DEF HandlerInv, Owned, Bare
  <2>3. CASE h[c].pc \in {"server", "quic"} \cup Dialling
    BY <2>3 DEF HandlerInv, Owned
  <2> QED
    BY <1>02, <2>1, <2>2, <2>3
<1>06. ASSUME Ends(c, {"client"}), h[c].pc # "tls-rf" PROVE Keeps(c)
  BY <1>03, <1>05, <1>06, CloseKeeps
<1>1. CASE handleMITM(c)
  <2> DEFINE t == [h[c] EXCEPT !.pc = "establish", !.peer = "mitm"]
  <2>1. h[c].pc = "mitm"
    BY <1>1 DEF handleMITM
  <2>2. CASE Update(c, t)
    <3>1. h'[c] = t
      BY <1>0, <2>2, Updates
    <3>2. t \in States
      BY <1>0 DEF States, Labels, Upstreams
    <3>3. /\ t.pc = "establish" /\ t.open = h[c].open /\ t.dials = h[c].dials
          /\ t.replies = h[c].replies /\ t.client = h[c].client /\ t.sends = h[c].sends
          /\ t.cand = h[c].cand /\ t.try = h[c].try /\ t.fell = h[c].fell
      BY <1>0 DEF States
    <3> HIDE DEF t
    <3>4. NotBegun(h[c]) /\ h[c].cand = 1
      BY <2>1 DEF HandlerInv, DialsCounted
    <3>5. DialsCounted(req[c], t)
      BY <1>01, <3>3, <3>4 DEF DialsCounted, NotBegun, Before
    <3> QED
      BY <1>03, <1>04, <1>05, <2>1, <3>1, <3>2, <3>3, <3>5, DiallingIs DEF Keeps
  <2> QED
    BY <1>1, <1>06, <2>1, <2>2 DEF handleMITM
<1>2. CASE handleServerMITM(c) \/ handleQUICMITM(c)
  <2>1. h[c].pc \in {"server", "quic"}
    BY <1>2 DEF handleServerMITM, handleQUICMITM
  <2>2. ASSUME NEW p \in Upstreams \cup {None},
               Update(c, [h[c] EXCEPT !.pc = "handshake", !.peer = p])
        PROVE  Keeps(c)
    <3> DEFINE t == [h[c] EXCEPT !.pc = "handshake", !.peer = p]
    <3>1. h'[c] = t
      BY <1>0, <2>2, Updates
    <3>2. t \in States
      BY <1>0, <2>2 DEF States, Labels
    <3>3. /\ t.pc = "handshake" /\ t.open = h[c].open /\ t.dials = h[c].dials
          /\ t.replies = h[c].replies /\ t.client = h[c].client /\ t.sends = h[c].sends
          /\ t.cand = h[c].cand /\ t.try = h[c].try /\ t.fell = h[c].fell
      BY <1>0 DEF States
    <3> HIDE DEF t
    <3>4. NotBegun(h[c]) /\ h[c].cand = 1
      BY <2>1 DEF HandlerInv, DialsCounted
    <3>5. DialsCounted(req[c], t)
      BY <1>01, <1>04, <3>3, <3>4 DEF DialsCounted, NotBegun
    <3> QED
      BY <1>03, <1>04, <1>05, <2>1, <3>1, <3>2, <3>3, <3>5, DiallingIs DEF Keeps
  <2>3. h[c].peer \in Upstreams \cup {None} /\ "mitm" \in Upstreams
    BY <1>0 DEF States, Upstreams
  <2>4. [h[c] EXCEPT !.pc = "handshake"] = [h[c] EXCEPT !.pc = "handshake", !.peer = h[c].peer]
    BY <1>0 DEF States
  <2>5. CASE Ends(c, {"client"})
    BY <1>06, <2>1, <2>5
  <2> QED
    BY <1>2, <2>2, <2>3, <2>4, <2>5 DEF handleServerMITM, handleQUICMITM, Goto
<1>3. CASE PoolCandidates(c)
  <2>1. h[c].pc = "pool"
    BY <1>3 DEF PoolCandidates
  <2>2. ASSUME NEW l \in {"serve", "establish"}, Goto(c, l), l = "establish" => h[c].next = "server"
        PROVE  Keeps(c)
    <3> DEFINE t == [h[c] EXCEPT !.pc = l]
    <3>1. h'[c] = t
      BY <1>0, <2>2, Updates DEF Goto
    <3>2. t \in States
      BY <1>0, <2>2 DEF States, Labels
    <3>3. /\ t.pc = l /\ t.open = h[c].open /\ t.dials = h[c].dials
          /\ t.replies = h[c].replies /\ t.client = h[c].client /\ t.sends = h[c].sends
          /\ t.cand = h[c].cand /\ t.try = h[c].try /\ t.fell = h[c].fell
      BY <1>0 DEF States
    <3> HIDE DEF t
    <3>4. l = "establish" => NotBegun(h[c]) /\ h[c].cand = 1
      BY <2>1, <2>2 DEF HandlerInv, DialsCounted
    <3>5. DialsCounted(req[c], t)
      BY <1>01, <1>04, <2>2, <3>3, <3>4 DEF DialsCounted, NotBegun, Before
    <3> QED
      BY <1>03, <1>04, <1>05, <2>1, <2>2, <3>1, <3>2, <3>3, <3>5, DiallingIs DEF Keeps
  <2> QED
    BY <1>3, <1>06, <2>1, <2>2 DEF PoolCandidates
<1>4. CASE TLSFragment(c)
  <2>1. h[c].pc = "tls-rf"
    BY <1>4 DEF TLSFragment
  <2>2. h[c].open \ Deferred \subseteq {"raw"} /\ h[c].peer = "raw"
    BY <2>1 DEF HandlerInv, Owned, Routed
  <2>3. CASE StartsTunnel(c, [h[c] EXCEPT !.next = ""])
    <3> DEFINE s == [h[c] EXCEPT !.next = ""]
    <3>1. s \in States
      BY <1>0 DEF States
    <3>2. /\ s.replies = h[c].replies /\ s.open = h[c].open /\ s.peer = h[c].peer
          /\ s.sends = h[c].sends /\ s.dials = h[c].dials
      BY <1>0 DEF States
    <3> HIDE DEF s
    <3> QED
      BY <1>03, <1>04, <2>2, <2>3, <3>1, <3>2, TunnelKeeps DEF s
  <2>4. CASE Ends(c, {"client", "raw"})
    BY <1>03, <2>2, <2>4, CloseKeeps
  <2>5. CASE Update(c, [h[c] EXCEPT !.pc = "rffallback", !.open = @ \ {"raw"}])
    <3> DEFINE t == [h[c] EXCEPT !.pc = "rffallback", !.open = @ \ {"raw"}]
    <3>1. h'[c] = t
      BY <1>0, <2>5, Updates
    <3>2. t \in States
      BY <1>0 DEF States, Labels
    <3>3. /\ t.pc = "rffallback" /\ t.open = h[c].open \ {"raw"} /\ t.dials = h[c].dials
          /\ t.replies = h[c].replies /\ t.client = h[c].client /\ t.sends = h[c].sends
      BY <1>0 DEF States
    <3> HIDE DEF t
    <3>4. t.pc \in Bare /\ t.open \ Deferred = {}
      BY <2>2, <3>3 DEF Bare
    <3> QED
      BY <1>03, <1>04, <3>1, <3>2, <3>3, <3>4, BareIs DEF Keeps
  <2>6. CASE Goto(c, "panicked")
    BY <2>1, <2>6, GotoKeeps DEF Moves
  <2> QED
    BY <1>4, <2>3, <2>4, <2>5, <2>6 DEF TLSFragment
<1>5. CASE TLSRFFallback(c)
  <2>1. h[c].pc = "rffallback"
    BY <1>5 DEF TLSRFFallback
  <2>2. CASE StartsTunnel(c, Dialled(c, "fallback"))
    <3> DEFINE s == Dialled(c, "fallback")
    <3>1. s \in States
      BY <1>0 DEF Dialled, States, Upstreams
    <3>2. /\ s.replies = h[c].replies /\ s.open = h[c].open \cup {"fallback"} /\ s.peer = "fallback"
          /\ s.sends = h[c].sends /\ s.dials = h[c].dials
      BY <1>0 DEF Dialled, States
    <3> HIDE DEF s
    <3> QED
      BY <1>03, <1>04, <1>05, <2>1, <2>2, <3>1, <3>2, TunnelKeeps DEF s
  <2> QED
    BY <1>5, <1>06, <2>1, <2>2 DEF TLSRFFallback
<1>6. CASE ServeEnds(c)
  BY <1>6, <1>06 DEF ServeEnds
<1>7. CASE ClientHandshake(c)
  <2>1. h[c].pc = "handshake"
    BY <1>7 DEF ClientHandshake
  <2>2. h[c].open \ Deferred \subseteq Spare(req[c])
    BY <1>05, <2>1
  <2>3. CASE StartsTunnel(c, h[c])
    BY <1>0, <1>03, <1>04, <2>2, <2>3, TunnelKeeps
  <2>4. CASE Goto(c, "pool")
    <3> DEFINE t == [h[c] EXCEPT !.pc = "pool"]
    <3>1. h'[c] = t
      BY <1>0, <2>4, Updates DEF Goto
    <3>2. t \in States
      BY <1>0 DEF States, Labels
    <3>3. /\ t.pc = "pool" /\ t.open = h[c].open /\ t.dials = h[c].dials /\ t.next = h[c].next
          /\ t.replies = h[c].replies /\ t.client = h[c].client /\ t.sends = h[c].sends
          /\ t.cand = h[c].cand /\ t.try = h[c].try /\ t.fell = h[c].fell
      BY <1>0 DEF States
    <3> HIDE DEF t
    <3>4. h[c].next = "server" => NotBegun(h[c]) /\ h[c].cand = 1
      BY <2>1 DEF HandlerInv, DialsCounted
    <3>5. DialsCounted(req[c], t)
      BY <1>04, <3>3, <3>4 DEF DialsCounted, NotBegun
    <3> QED
      BY <1>03, <1>04, <2>2, <3>1, <3>2, <3>3, <3>5, DiallingIs DEF Keeps
  <2>5. CASE Update(c, [Ended(c, {"client"}) EXCEPT !.broke = TRUE])
    BY <2>1, <2>2, <2>5, BreakKeeps
  <2> QED
    BY <1>7, <2>3, <2>4, <2>5 DEF ClientHandshake
<1> QED
  BY <1>1, <1>2, <1>3, <1>4, <1>5, <1>6, <1>7

(* A step of a handler preserves what is said of it alone. *)
LEMMA StepKeeps ==
  ASSUME TypeOK, NEW c \in Conns, HandlerInv(req[c], h[c]), Step(c) \/ Peers(c)
  PROVE  Keeps(c)
BY ConnectKeeps, TunnelStepKeeps, PlainKeeps, EstablishKeeps, MitmKeeps DEF Step, Peers, Mitm

-----------------------------------------------------------------------------
(* What handlers share.                                                    *)

(* A handler touches its own state and the pool's lock.                    *)
Touches(c) ==
  /\ \E s : Update(c, s)
  /\ UNCHANGED <<req, gasRelay, gasDialAddr, held, switches>>
  /\ poolLocked' \in BOOLEAN

LEMMA StepTouches ==
  ASSUME TypeOK, NEW c \in Conns, Step(c) \/ Peers(c)
  PROVE  Touches(c)
<1>0. poolLocked \in BOOLEAN
  BY DEF TypeOK
<1> USE <1>0 DEF Touches, Goto, Ends, Answers, ClientFails, StartsTunnel, shared
<1>1. CASE Connect(c)
  <2>1. CASE DialCandidate(c)
    BY <2>1 DEF DialCandidate, ReportSuccess, ReportFailure, poolUnchanged
  <2>2. CASE handleConnect(c) \/ buildDialCandidates(c) \/ HijackOk(c) \/ HijackFails(c)
    BY <2>2 DEF handleConnect, buildDialCandidates, HijackOk, HijackFails
  <2>3. CASE directConnect(c) \/ handleGASConnect(c) \/ GASConnectReply(c) \/ handleGASRelayConnect(c)
    BY <2>3 DEF directConnect, handleGASConnect, GASConnectReply, handleGASRelayConnect
  <2>4. CASE handleV2RayConnect(c) \/ V2RayGreeting(c) \/ V2RayCommand(c)
    BY <2>4 DEF handleV2RayConnect, V2RayGreeting, V2RayCommand
  <2> QED
    BY <1>1, <2>1, <2>2, <2>3, <2>4 DEF Connect
<1>2. CASE EstablishDial(c) \/ EstablishRetry(c) \/ EstablishHandshake(c)
  <2>1. CASE EstablishDial(c)
    BY <2>1 DEF EstablishDial, ReportFailure, poolUnchanged
  <2>2. CASE EstablishRetry(c)
    BY <2>2 DEF EstablishRetry, poolUnchanged
  <2>3. CASE EstablishHandshake(c)
    BY <2>3 DEF EstablishHandshake, ReportSuccess, ReportFailure, poolUnchanged
  <2> QED
    BY <1>2, <2>1, <2>2, <2>3
<1>3. CASE \/ handleMITM(c) \/ handleServerMITM(c) \/ handleQUICMITM(c) \/ PoolCandidates(c)
           \/ EstablishFails(c) \/ TLSFragment(c) \/ TLSRFFallback(c) \/ ServeEnds(c)
  BY <1>3 DEF handleMITM, handleServerMITM, handleQUICMITM, PoolCandidates, EstablishFails,
              TLSFragment, TLSRFFallback, ServeEnds
<1>4. CASE ClientHandshake(c)
  BY <1>4 DEF ClientHandshake
<1>5. CASE Socks(c)
  BY <1>5 DEF Socks, handleSOCKS5, socksRelay, SocksGASReply, socksGASRelayDirect, socksDirect
<1>6. CASE Http(c)
  BY <1>6 DEF Http, handleHTTP, RoundTrip, handleGASRelayHTTP, handleGASHTTP, GASHTTPSend, GASHTTPRetry
<1>7. CASE Splice(c) \/ RelayChooses(c) \/ TunnelEnds(c) \/ RelayLoopEnds(c) \/ relayRequestHangs(c)
  BY <1>7 DEF Splice, RelayChooses, TunnelEnds, RelayLoopEnds, relayRequestHangs
<1>8. CASE \E d \in {"up", "down"} : CopyEnds(c, d)
  BY <1>8 DEF CopyEnds
<1> QED
  BY <1>1, <1>2, <1>3, <1>4, <1>5, <1>6, <1>7, <1>8 DEF Step, Peers, Mitm

(* While the relay is on, a CONNECT or a plain request meets it alone. *)
LEMMA RelayedKeeps ==
  ASSUME TypeOK, NEW c \in Conns, HandlerInv(req[c], h[c]), gasRelay, Relayed(req[c], h[c]),
         Step(c) \/ Peers(c)
  PROVE  Relayed(req[c], h'[c])
<1> SUFFICES ASSUME req[c].kind # "socks" PROVE Relayed(req[c], h'[c])
  BY DEF Relayed
<1>0. req[c] \in Requests /\ h[c] \in States /\ h \in [Conns -> States]
  BY DEF TypeOK
<1>1. /\ h[c].open = {}
      /\ h[c].pc \in {"new", "relay", "hijack", "relaying", "relayhttps", "relayraw", "httprelay",
                       "hangs", "done"}
      /\ h[c].pc = "hijack" => h[c].next = "relaying" /\ h[c].peer = None
  BY DEF Relayed
<1>2. ASSUME NEW s, Update(c, s), s.open = {},
             s.pc \in {"relay", "relaying", "relayhttps", "relayraw", "httprelay", "hangs", "done"}
      PROVE  Relayed(req[c], h'[c])
  BY <1>0, <1>2, Updates DEF Relayed
<1>3. ASSUME NEW l \in {"relayhttps", "relayraw", "httprelay", "hangs"}, Goto(c, l)
      PROVE  Relayed(req[c], h'[c])
  <2>1. [h[c] EXCEPT !.pc = l].open = {} /\ [h[c] EXCEPT !.pc = l].pc = l
    BY <1>0, <1>1 DEF States
  <2> QED
    BY <1>2, <1>3, <2>1 DEF Goto
<1>4. CASE handleConnect(c)
  <2> DEFINE t == [h[c] EXCEPT !.pc = "relay", !.next = effectiveMode(req[c])]
  <2>1. Update(c, t)
    BY <1>4 DEF handleConnect
  <2>2. t.open = {} /\ t.pc = "relay"
    BY <1>0, <1>1 DEF States
  <2> QED
    BY <1>2, <2>1, <2>2
<1>5. CASE handleGASRelayConnect(c)
  <2> DEFINE t == [h[c] EXCEPT !.pc = "hijack", !.next = "relaying"]
  <2>1. Update(c, t) /\ h[c].pc = "relay"
    BY <1>5 DEF handleGASRelayConnect, At
  <2>2. h'[c] = t /\ h[c].peer = None
    BY <1>0, <2>1, Updates DEF HandlerInv, Routed
  <2>3. t.open = {} /\ t.pc = "hijack" /\ t.next = "relaying" /\ t.peer = h[c].peer
    BY <1>0, <1>1 DEF States
  <2> HIDE DEF t
  <2> QED
    BY <2>2, <2>3 DEF Relayed
<1>6. CASE HijackOk(c)
  <2> DEFINE t == [h[c] EXCEPT !.pc = "relaying", !.client = "hijacked", !.replies = @ + 1]
  <2>1. h[c].peer \notin {"gas", "v2ray", "direct"} /\ h[c].next = "relaying"
    BY <1>1, <1>6, HandlersAssumption DEF HijackOk, At, Upstreams
  <2>2. Update(c, t)
    BY <1>6, <2>1 DEF HijackOk
  <2>3. t.open = {} /\ t.pc = "relaying"
    BY <1>0, <1>1 DEF States
  <2> QED
    BY <1>2, <2>2, <2>3
<1>7. CASE HijackFails(c)
  <2> DEFINE t == [Ended(c, {"client", h[c].peer}) EXCEPT !.broke = TRUE]
  <2>1. Update(c, t)
    BY <1>7 DEF HijackFails, ClientFails
  <2>2. t.open = {} /\ t.pc = "done"
    BY <1>0, <1>1 DEF Ended, States
  <2> QED
    BY <1>2, <2>1, <2>2
<1>8. CASE RelayChooses(c) \/ handleHTTP(c) \/ relayRequestHangs(c)
  BY <1>3, <1>8 DEF RelayChooses, handleHTTP, relayRequestHangs
<1>9. CASE RelayLoopEnds(c)
  <2>1. Update(c, Ended(c, {"client"}))
    BY <1>9 DEF RelayLoopEnds, Ends
  <2>2. Ended(c, {"client"}).open = {} /\ Ended(c, {"client"}).pc = "done"
    BY <1>0, <1>1 DEF Ended, States
  <2> QED
    BY <1>2, <2>1, <2>2
<1>10. CASE handleGASRelayHTTP(c)
  <2> DEFINE t == [Ended(c, {}) EXCEPT !.replies = @ + 1]
  <2>1. Update(c, t)
    BY <1>10 DEF handleGASRelayHTTP, Answers
  <2>2. t.open = {} /\ t.pc = "done"
    BY <1>0, <1>1 DEF Ended, States
  <2> QED
    BY <1>2, <2>1, <2>2
<1>11. \/ handleConnect(c) \/ handleGASRelayConnect(c) \/ HijackOk(c) \/ HijackFails(c)
       \/ RelayChooses(c) \/ RelayLoopEnds(c) \/ relayRequestHangs(c) \/ handleHTTP(c)
       \/ handleGASRelayHTTP(c)
  <2> USE <1>1 DEF At
  <2>1. /\ ~buildDialCandidates(c) /\ ~DialCandidate(c) /\ ~directConnect(c) /\ ~handleGASConnect(c)
        /\ ~GASConnectReply(c) /\ ~handleV2RayConnect(c) /\ ~V2RayGreeting(c) /\ ~V2RayCommand(c)
    BY DEF buildDialCandidates, DialCandidate, directConnect, handleGASConnect, GASConnectReply,
           handleV2RayConnect, V2RayGreeting, V2RayCommand
  <2>2. /\ ~handleMITM(c) /\ ~handleServerMITM(c) /\ ~handleQUICMITM(c) /\ ~EstablishDial(c)
        /\ ~EstablishFails(c) /\ ~PoolCandidates(c) /\ ~TLSFragment(c) /\ ~TLSRFFallback(c)
    BY DEF handleMITM, handleServerMITM, handleQUICMITM, EstablishDial, EstablishFails,
           PoolCandidates, TLSFragment, TLSRFFallback
  <2>3. ~Socks(c)
    BY DEF Socks, handleSOCKS5, socksRelay, SocksGASReply, socksGASRelayDirect, socksDirect
  <2>4. ~RoundTrip(c) /\ ~handleGASHTTP(c) /\ ~GASHTTPSend(c) /\ ~GASHTTPRetry(c)
    BY DEF RoundTrip, handleGASHTTP, GASHTTPSend, GASHTTPRetry
  <2>5. ~Splice(c) /\ ~TunnelEnds(c) /\ (\A d \in {"up", "down"} : ~CopyEnds(c, d))
    BY DEF Splice, TunnelEnds, CopyEnds
  <2>6. ~ServeEnds(c) /\ ~EstablishRetry(c) /\ ~EstablishHandshake(c) /\ ~ClientHandshake(c)
    BY DEF ServeEnds, EstablishRetry, EstablishHandshake, ClientHandshake
  <2> QED
    BY <2>1, <2>2, <2>3, <2>4, <2>5, <2>6 DEF Step, Peers, Connect, Mitm, Http
<1> QED
  BY <1>4, <1>5, <1>6, <1>7, <1>8, <1>9, <1>10, <1>11

-----------------------------------------------------------------------------
(* The inductive invariant.                                                *)

LEMMA InitInv == Init => HandlersInv
<1> SUFFICES ASSUME Init PROVE HandlersInv
  OBVIOUS
<1>1. Fresh \in States
  <2>1. "new" \in Labels /\ 1 \in 1..2 /\ 0 \in 0..1
    BY DEF Labels
  <2> QED
    BY <2>1 DEF Fresh, States
<1>2. h \in [Conns -> States] /\ \A c \in Conns : h[c] = Fresh
  BY <1>1 DEF Init
<1>3. req \in [Conns -> Requests]
  <2>1. PICK r \in [Conns -> UNION {Reqs[c] : c \in Conns}] :
          (\A c \in Conns : r[c] \in Reqs[c]) /\ req = r
    BY DEF Init
  <2>2. \A c \in Conns : r[c] \in Requests
    BY <2>1, HandlersAssumption
  <2> QED
    BY <2>1, <2>2
<1>4. 0 \in 0..MaxSwitches
  BY HandlersAssumption
<1>5. TypeOK
  BY <1>2, <1>3, <1>4 DEF TypeOK, Init
<1>6. ASSUME NEW c \in Conns PROVE HandlerInv(req[c], h[c]) /\ Relayed(req[c], h[c])
  <2>1. /\ h[c].pc = "new" /\ h[c].client = "server" /\ h[c].open = {} /\ h[c].peer = None
        /\ h[c].cand = 1 /\ h[c].try = 0 /\ ~h[c].fell /\ h[c].replies = 0
        /\ h[c].sends = 0 /\ h[c].dials = 0
    <3>1. h[c] = Fresh
      BY <1>2
    <3>2. /\ Fresh.pc = "new" /\ Fresh.client = "server" /\ Fresh.open = {} /\ Fresh.peer = None
          /\ Fresh.cand = 1 /\ Fresh.try = 0 /\ ~Fresh.fell /\ Fresh.replies = 0
          /\ Fresh.sends = 0 /\ Fresh.dials = 0
      BY DEF Fresh
    <3> QED
      BY <3>1, <3>2
  <2>2. req[c].cands \in {1, 2}
    BY <1>3 DEF Requests
  <2> USE <2>1 DEF Unanswered, Answered, Bare, Upward, Dialling
  <2>3. Replied(h[c]) /\ SendsCounted(h[c])
    BY DEF Replied, SendsCounted
  <2>4. Routed(req[c], h[c]) /\ Owned(req[c], h[c])
    BY DEF Routed, Owned
  <2>5. DialsCounted(req[c], h[c])
    BY <2>2 DEF DialsCounted, NotBegun
  <2> QED
    BY <2>3, <2>4, <2>5 DEF HandlerInv, Relayed
<1> QED
  BY <1>5, <1>6 DEF HandlersInv

(* A step of a handler. *)
LEMMA HandlerStep ==
  ASSUME HandlersInv, NEW c \in Conns, Step(c) \/ Peers(c)
  PROVE  HandlersInv'
<1>1. Keeps(c) /\ Touches(c) /\ TypeOK
  BY StepKeeps, StepTouches DEF HandlersInv
<1>2. h \in [Conns -> States]
  BY <1>1 DEF TypeOK
<1>3. \A d \in Conns : d # c => h'[d] = h[d]
  BY <1>1, <1>2, Updates DEF Touches
<1>4. h' \in [Conns -> States]
  BY <1>1, <1>2, <1>3 DEF Touches, Update, Keeps
<1>7. TypeOK'
  BY <1>1, <1>4 DEF TypeOK, Touches
<1>8. \A d \in Conns : HandlerInv(req[d], h[d])'
  BY <1>1, <1>3 DEF HandlersInv, Keeps, Touches
<1>9. (switches = 0 /\ gasRelay => \A d \in Conns : Relayed(req[d], h[d]))'
  <2>1. req' = req /\ switches' = switches /\ gasRelay' = gasRelay
    BY <1>1 DEF Touches
  <2> SUFFICES ASSUME switches = 0, gasRelay, NEW d \in Conns PROVE Relayed(req[d], h'[d])
    BY <2>1
  <2>2. Relayed(req[d], h[d]) /\ Relayed(req[c], h[c]) /\ HandlerInv(req[c], h[c])
    BY DEF HandlersInv
  <2>3. Relayed(req[c], h'[c])
    BY <1>1, <2>2, RelayedKeeps
  <2> QED
    BY <1>3, <2>2, <2>3
<1> QED
  BY <1>7, <1>8, <1>9 DEF HandlersInv

(* The relay is switched, a lock is lost. *)
LEMMA EnvironmentStep ==
  ASSUME HandlersInv, Environment
  PROVE  HandlersInv'
<1>1. req' = req /\ h' = h
  BY DEF Environment, SetGasRelay, SetGASDialAddr, MuLost, RulesLost
<1>2. \A c \in Conns : HandlerInv(req[c], h[c])'
  BY <1>1 DEF HandlersInv
<1>3. TypeOK
  BY DEF HandlersInv
<1>4. switches \in Nat /\ MaxSwitches \in Nat
  BY <1>3, HandlersAssumption DEF TypeOK
<1>5. CASE SetGasRelay \/ SetGASDialAddr
  <2>1. switches' = switches + 1 /\ switches < MaxSwitches /\ UNCHANGED <<req, h, poolLocked, held>>
    BY <1>5 DEF SetGasRelay, SetGASDialAddr
  <2>2. switches' \in 0..MaxSwitches /\ switches' # 0
    BY <1>4, <2>1
  <2>3. gasRelay' \in BOOLEAN /\ gasDialAddr' \in BOOLEAN
    BY <1>3, <1>5 DEF SetGasRelay, SetGASDialAddr, TypeOK
  <2>4. TypeOK'
    BY <1>3, <2>1, <2>2, <2>3 DEF TypeOK
  <2> QED
    BY <1>2, <2>2, <2>4 DEF HandlersInv
<1>6. CASE MuLost \/ RulesLost
  <2>1. /\ UNCHANGED <<req, h, gasRelay, gasDialAddr, poolLocked, switches>>
        /\ held' = held \cup {"mu"} \/ held' = held \cup {"rules"}
    BY <1>6 DEF MuLost, RulesLost
  <2>2. TypeOK'
    BY <1>3, <2>1 DEF TypeOK
  <2>3. (switches = 0 /\ gasRelay => \A c \in Conns : Relayed(req[c], h[c]))'
    BY <2>1 DEF HandlersInv
  <2> QED
    BY <1>2, <2>2, <2>3 DEF HandlersInv
<1> QED
  BY <1>5, <1>6 DEF Environment

LEMMA StepInv == HandlersInv /\ [Next]_vars => HandlersInv'
<1> SUFFICES ASSUME HandlersInv, [Next]_vars PROVE HandlersInv'
  OBVIOUS
<1>1. CASE Next
  BY <1>1, HandlerStep, EnvironmentStep DEF Next
<1>2. CASE UNCHANGED vars
  BY <1>2 DEF vars, shared, HandlersInv, TypeOK
<1> QED
  BY <1>1, <1>2

LEMMA AlwaysInv == Spec => []HandlersInv
BY InitInv, StepInv, PTL DEF Spec

-----------------------------------------------------------------------------
(* Whatever path handleConnect, handleHTTP and handleSOCKS5 take, and      *)
(* leave for another when a dial or a handshake fails, the client gets     *)
(* exactly one answer unless it fails itself, and directConnect never      *)
(* finds one that has its answer or is hijacked (proxy.go:1655-2306).      *)
THEOREM RepliesAlwaysSound == Spec => []RepliesSound
<1>1. HandlersInv => RepliesSound
  <2> SUFFICES ASSUME HandlersInv, NEW c \in Conns
               PROVE  /\ h[c].replies <= 1
                      /\ At(c, "done") => h[c].replies = 1 \/ h[c].broke
                      /\ At(c, "direct") => h[c].client = "server" /\ h[c].replies = 0
    BY DEF RepliesSound, OneReply, FallbackUnanswered
  <2>1. Replied(h[c])
    BY DEF HandlersInv, HandlerInv
  <2> QED
    BY <2>1 DEF Replied, At, Unanswered
<1> QED
  BY <1>1, AlwaysInv, PTL

(* A request goes to the GAS proxy twice at most and each candidate is     *)
(* dialled three times at most, whatever fails in between and however the  *)
(* address is switched (handleGASHTTP, establishUpstreamConn).             *)
THEOREM RetriesAlwaysBounded == Spec => []RetriesBounded
<1>1. HandlersInv => RetriesBounded
  BY DEF HandlersInv, HandlerInv, SendsCounted, DialsCounted, RetriesBounded, AtMostOneResend, DialsBounded
<1> QED
  BY <1>1, AlwaysInv, PTL

(* Every connection a handler opens is closed when it returns, by a defer  *)
(* or by the path it takes, but for the one handleConnect dials for a MITM *)
(* rule; only a tls-rf handler ends by a panic, which closes nothing; and  *)
(* with the relay on, nothing is opened beside it (proxy.go:1655-1675,     *)
(* tls_fragment.go:28-120).                                                *)
THEOREM ConnectionsAlwaysOwned == Spec => []ConnectionsOwned
<1>1. HandlersInv => ConnectionsOwned
  <2> SUFFICES ASSUME HandlersInv PROVE ConnectionsOwned
    OBVIOUS
  <2>1. NothingLeftOpen
    <3> SUFFICES ASSUME NEW c \in Conns
                 PROVE  /\ h[c].pc = "done" => h[c].client # "hijacked" /\ h[c].open \subseteq Spare(req[c])
                        /\ h[c].pc = "panicked" => effectiveMode(req[c]) = "tls-rf"
      BY DEF NothingLeftOpen, At, Spare
    <3>1. Replied(h[c]) /\ Owned(req[c], h[c]) /\ Routed(req[c], h[c])
      BY DEF HandlersInv, HandlerInv
    <3> QED
      BY <3>1 DEF Replied, Owned, Routed
  <2>2. RelayKeepsTraffic
    BY DEF HandlersInv, Relayed, RelayKeepsTraffic
  <2> QED
    BY <2>1, <2>2 DEF HandlersInv, ConnectionsOwned
<1> QED
  BY <1>1, AlwaysInv, PTL
=============================================================================
