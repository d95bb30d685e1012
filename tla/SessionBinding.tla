---------------------------- MODULE SessionBinding ----------------------------
(***************************************************************************)
(* Protocol 5: the guest's TLS server (server.py of probe-exporter.sh),    *)
(* the client and the relay of tools/exporter_client.py, and what the      *)
(* client concludes from a report over its nonce and the exporter value of *)
(* the session, and from one over the nonce and the server's key.  A       *)
(* connection is <<peer, server>>; the exporter value of its TLS session   *)
(* is the connection itself, as no two sessions share a secret.            *)
(***************************************************************************)
EXTENDS Naturals, Sequences, FiniteSets

CONSTANTS
  Clients,            \* the clients (strings)
  Sentences,          \* the nonces they may have, functions of the client; two may share one
  RelayKeys           \* the TLS keys the relay may be given

ASSUME SessionAssumption ==
  /\ {"relay", "guest"} \cap Clients = {} /\ IsFiniteSet(Clients)
  /\ \A s \in Sentences : DOMAIN s = Clients

Nonces == {s[c] : s \in Sentences, c \in Clients}
GUEST == "guest"      \* the guest's TLS key, spki
Up == <<"relay", "guest">>

VARIABLES
  plan,               \* client -> "direct", "relayed", or "silent": connects and says nothing
  nonce,              \* client -> nonce
  client,             \* client -> "new", "connected", "asked", "done" or "failed"
  verdict,            \* client -> the binders that it accepts
  server,             \* the guest: "loop", "accept", "serve", "record" or "exited"
  late,               \* the fifteen minutes are over
  backlog, serving,   \* connections the server has not accepted yet; the one it serves
  log,                \* exporter-sessions.json
  relay, relay_key,   \* "listening", "shaken", "dialled" or "exited"; the key it holds
  relayed,            \* the one client it serves
  tls,                \* connections whose handshake is over
  line, blob          \* what has been sent on a connection: {} or {the nonce}, {} or {the blob}

guestVars == <<server, late, backlog, serving, log>>
relayVars == <<relay, relay_key, relayed>>
clientVars == <<plan, nonce, client, verdict>>
wire == <<tls, line, blob>>
vars == <<guestVars, relayVars, clientVars, wire>>

Conns == (Clients \X {"guest", "relay"}) \cup {Up}

Init ==
  /\ plan \in [Clients -> {"direct", "relayed", "silent"}] /\ nonce \in Sentences
  /\ client = [c \in Clients |-> "new"] /\ verdict = [c \in Clients |-> {}]
  /\ server = "loop" /\ late = FALSE /\ backlog = <<>> /\ serving = {} /\ log = <<>>
  /\ relay = "listening" /\ relay_key \in RelayKeys /\ relayed = {}
  /\ tls = {} /\ line = [x \in Conns |-> {}] /\ blob = [x \in Conns |-> {}]

\* The server a client has been given, and its connection.
Peer(c) == IF plan[c] = "relayed" THEN "relay" ELSE "guest"
Conn(c) == <<c, Peer(c)>>

\* Clients that have connected to the relay.
AtRelay == {c \in Clients : plan[c] = "relayed" /\ client[c] \in {"connected", "asked"}}

\* Connections are gone: their peers end with an exception.  Without the relay, its clients end too.
Broken(conns) ==
  /\ relay' = IF Up \in conns THEN "exited" ELSE relay
  /\ client' = [c \in Clients |->
       IF Conn(c) \in conns \/ (Up \in conns /\ c \in AtRelay) THEN "failed" ELSE client[c]]

-----------------------------------------------------------------------------
(* server.py: one connection after the other, on blocking sockets. *)

\* while time < deadline; when the process ends, what it has not accepted is reset.
Loop ==
  /\ server = "loop"
  /\ IF late
       THEN /\ server' = "exited" /\ backlog' = <<>>
            /\ Broken({backlog[i] : i \in DOMAIN backlog})
       ELSE server' = "accept" /\ UNCHANGED <<backlog, relay, client>>
  /\ UNCHANGED <<late, serving, log, relay_key, relayed, plan, nonce, verdict, wire>>

\* accept, or its time-out of ten seconds.
Accept ==
  /\ server = "accept"
  /\ IF backlog = <<>> THEN server' = "loop" /\ UNCHANGED <<backlog, serving>>
     ELSE server' = "serve" /\ serving' = {Head(backlog)} /\ backlog' = Tail(backlog)
  /\ UNCHANGED <<late, log, relayVars, clientVars, wire>>

Talks(conn) == \A c \in Clients : plan[c] = "silent" => conn # Conn(c)

Handshake ==
  /\ server = "serve"
  /\ \E conn \in serving : conn \notin tls /\ Talks(conn) /\ tls' = tls \cup {conn}
  /\ UNCHANGED <<guestVars, relayVars, clientVars, line, blob>>

\* Seeded fault: the connection is not closed.
MutHangup == server' = "loop" /\ UNCHANGED serving

\* finally: shutdown and close.
Hangup == server' = "loop" /\ serving' = {}

Entry(conn, ok) == [exporter |-> conn, ok |-> ok]

\* The two reports over the nonce received, the server's own exporter value, its key and its signature.
Blob(conn, n) ==
  [exporter_server |-> conn, report_exporter |-> <<n, conn>>, report_key |-> <<n, GUEST>>,
   spki |-> GUEST, sig_over_nonce |-> <<n, GUEST>>]

Answer ==
  /\ server = "serve" /\ server' = "record"
  /\ \E conn \in serving, n \in Nonces :
       conn \in tls /\ line[conn] = {n} /\ blob' = [blob EXCEPT ![conn] = {Blob(conn, n)}]
  /\ UNCHANGED <<late, backlog, serving, log, relayVars, clientVars, tls, line>>

Record ==
  /\ server = "record" /\ Hangup
  /\ \E conn \in serving : log' = Append(log, Entry(conn, TRUE))
  /\ UNCHANGED <<late, backlog, relayVars, clientVars, wire>>

\* The firmware refuses a report: an exception, recorded; the peer is left without an answer.
AnswerFails ==
  /\ server = "serve" /\ Hangup
  /\ \E conn \in serving : /\ line[conn] # {}
                           /\ log' = Append(log, Entry(conn, FALSE)) /\ Broken({conn})
  /\ UNCHANGED <<late, backlog, relay_key, relayed, plan, nonce, verdict, wire>>

Guest == Loop \/ Accept \/ Handshake \/ Answer \/ AnswerFails \/ Record

\* A silent peer goes away; nothing says that it will.
SilentLeaves ==
  /\ server = "serve" /\ Hangup
  /\ \E conn \in serving : /\ ~Talks(conn)
                           /\ log' = Append(log, Entry(conn, FALSE)) /\ Broken({conn})
  /\ UNCHANGED <<late, backlog, relay_key, relayed, plan, nonce, verdict, wire>>

Deadline ==
  /\ ~late /\ late' = TRUE
  /\ UNCHANGED <<server, backlog, serving, log, relayVars, clientVars, wire>>

-----------------------------------------------------------------------------
(* relay: one client, then its own session to the guest, all forwarded     *)
(* unchanged.                                                              *)

RelayShake ==
  /\ relay = "listening" /\ relay' = "shaken"
  /\ \E c \in AtRelay : relayed' = {c} /\ tls' = tls \cup {Conn(c)}
  /\ UNCHANGED <<guestVars, relay_key, clientVars, line, blob>>

\* Seeded fault: the guest is dialled before the client is served.
MutReadyToDial == relay \in {"listening", "shaken"}

\* The client's line has been read.
ReadyToDial == relay = "shaken" /\ \E c \in relayed : line[Conn(c)] # {}

\* The guest's server is dialled, or gone.
RelayDial ==
  /\ ReadyToDial
  /\ IF server = "exited" THEN Broken({Up}) /\ UNCHANGED backlog
     ELSE relay' = "dialled" /\ backlog' = Append(backlog, Up) /\ UNCHANGED client
  /\ UNCHANGED <<server, late, serving, log, relay_key, relayed, plan, nonce, verdict, wire>>

RelayLine ==
  /\ relay = "dialled" /\ Up \in tls /\ line[Up] = {}
  /\ \E c \in relayed : line' = [line EXCEPT ![Up] = line[Conn(c)]]
  /\ UNCHANGED <<guestVars, relayVars, clientVars, tls, blob>>

\* The blob is passed on and the relay exits; whoever else has connected to it is reset.
RelaySend ==
  /\ relay = "dialled" /\ blob[Up] # {} /\ relay' = "exited"
  /\ \E c \in relayed : /\ blob' = [blob EXCEPT ![Conn(c)] = blob[Up]]
                        /\ client' = [d \in Clients |-> IF d \in AtRelay \ {c} THEN "failed" ELSE client[d]]
  /\ UNCHANGED <<guestVars, relay_key, relayed, plan, nonce, verdict, tls, line>>

Relay == RelayShake \/ RelayDial \/ RelayLine \/ RelaySend

-----------------------------------------------------------------------------
(* client *)

Connect(c) ==
  /\ client[c] = "new"
  /\ LET gone == IF Peer(c) = "relay" THEN relay = "exited" ELSE server = "exited" IN
     /\ client' = [client EXCEPT ![c] = IF gone THEN "failed" ELSE "connected"]
     /\ backlog' = IF gone \/ Peer(c) = "relay" THEN backlog ELSE Append(backlog, Conn(c))
  /\ UNCHANGED <<server, late, serving, log, relayVars, plan, nonce, verdict, wire>>

Ask(c) ==
  /\ client[c] = "connected" /\ Conn(c) \in tls
  /\ line' = [line EXCEPT ![Conn(c)] = {nonce[c]}]
  /\ client' = [client EXCEPT ![c] = "asked"]
  /\ UNCHANGED <<guestVars, relayVars, plan, nonce, verdict, tls, blob>>

\* The key of the certificate of the client's TLS peer.
PeerKey(c) == IF Peer(c) = "relay" THEN relay_key ELSE GUEST

\* Seeded fault: the key of the TLS peer is not compared.
MutKeyBinder(c, b) ==
  b.report_key = <<nonce[c], b.spki>> /\ b.sig_over_nonce = <<nonce[c], b.spki>>

KeyBinder(c, b) ==
  /\ b.report_key = <<nonce[c], b.spki>> /\ b.sig_over_nonce = <<nonce[c], b.spki>>
  /\ PeerKey(c) = b.spki

\* Seeded fault: the exporter value the guest reports, not the client's own.
MutExporterBinder(c, b) == b.report_exporter = <<nonce[c], b.exporter_server>>

ExporterBinder(c, b) == b.report_exporter = <<nonce[c], Conn(c)>>

Conclude(c) ==
  /\ client[c] = "asked" /\ client' = [client EXCEPT ![c] = "done"]
  /\ \E b \in blob[Conn(c)] :
       verdict' = [verdict EXCEPT ![c] =
         {k \in {"key", "exporter"} : IF k = "key" THEN KeyBinder(c, b) ELSE ExporterBinder(c, b)}]
  /\ UNCHANGED <<guestVars, relayVars, plan, nonce, wire>>

Next ==
  \/ Guest \/ SilentLeaves \/ Deadline \/ Relay
  \/ \E c \in Clients : Connect(c) \/ Ask(c) \/ Conclude(c)

Spec == Init /\ [][Next]_vars

(* The programs go on once they run.  No client has to connect, time need  *)
(* not run out, and a silent peer may stay for good.                       *)
FairSpec ==
  /\ Spec /\ WF_vars(Guest) /\ WF_vars(Relay)
  /\ \A c \in Clients : WF_vars(Ask(c) \/ Conclude(c))

-----------------------------------------------------------------------------

TypeOK ==
  /\ client \in [Clients -> {"new", "connected", "asked", "done", "failed"}]
  /\ server \in {"loop", "accept", "serve", "record", "exited"} /\ late \in BOOLEAN
  /\ Cardinality(serving) = (IF server \in {"serve", "record"} THEN 1 ELSE 0)
  /\ \A i, j \in DOMAIN backlog : /\ backlog[i] \in Conns \ serving
                                  /\ backlog[i] = backlog[j] => i = j
  /\ relay \in {"listening", "shaken", "dialled", "exited"} /\ relay_key \in RelayKeys
  /\ relayed \subseteq Clients /\ tls \subseteq Conns
  /\ \A x \in Conns : line[x] \subseteq Nonces /\ (blob[x] # {} => line[x] # {})

(* PROTOCOLS.md, protocol 5, "the peer the Relying Party is talking to is  *)
(* the guest that obtained the report": the exporter binder accepts        *)
(* exactly the clients whose TLS session ends at the guest, and those are  *)
(* the clients whose session the guest has recorded once it has served it; *)
(* clients with one sentence, and a relay with the guest's key, make no    *)
(* difference.                                                             *)
ExporterMeansDirect ==
  \A c \in Clients : client[c] = "done" =>
    /\ "exporter" \in verdict[c] <=> Peer(c) = "guest"
    /\ Conn(c) \notin serving =>
         ("exporter" \in verdict[c] <=> \E i \in DOMAIN log : log[i] = Entry(Conn(c), TRUE))

(* The same section on the key alone: the key binder accepts whoever holds *)
(* the key, so that accepting the key and not the exporter means a relay.  *)
(* Whatever is accepted, the guest has made a report for this client's     *)
(* nonce.                                                                  *)
KeyBinderMeansKey ==
  \A c \in Clients : client[c] = "done" =>
    /\ "key" \in verdict[c] <=> PeerKey(c) = GUEST
    /\ verdict[c] = {"key"} <=> (Peer(c) = "relay" /\ relay_key = GUEST)
    /\ verdict[c] # {} => \E x \in tls : x[2] = "guest" /\ line[x] = {nonce[c]}

HeldBySilence == \E conn \in serving : ~Talks(conn)

(* The server serves one client at a time and the relay waits for it: if   *)
(* no silent peer keeps the server for ever, a client that has connected   *)
(* gets its answer or is told off, relayed or not, whoever else is there   *)
(* and connects or not.                                                    *)
TalkersServed ==
  []<>(~HeldBySilence) =>
    \A c \in Clients : client[c] = "connected" ~> client[c] \in {"done", "failed"}
=============================================================================
