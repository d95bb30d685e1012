------------------------- MODULE SessionBindingProofs -------------------------
(***************************************************************************)
(* What the binders of protocol 5 mean, for any number of clients, nonces  *)
(* and keys the relay may hold.  The inductive invariant follows a nonce   *)
(* from the client's line to the guest and the blob back again: whose line *)
(* is on which connection, which connections the server can still get, and *)
(* whom the relay stands between.                                          *)
(***************************************************************************)
EXTENDS SessionBinding, FiniteSetTheorems, TLAPS

\* Connections that end at the guest.
GuestConns == (Clients \X {"guest"}) \cup {Up}
\* What the guest records of a session.
Entries == [exporter : GuestConns, ok : BOOLEAN]

\* Types, as exact as the proof needs them.
Domains ==
  /\ plan \in [Clients -> {"direct", "relayed", "silent"}] /\ nonce \in Sentences
  /\ client \in [Clients -> {"new", "connected", "asked", "done", "failed"}]
  /\ verdict \in [Clients -> SUBSET {"key", "exporter"}]
  /\ server \in {"loop", "accept", "serve", "record", "exited"} /\ late \in BOOLEAN
  /\ backlog \in Seq(GuestConns) /\ log \in Seq(Entries)
  /\ relay \in {"listening", "shaken", "dialled", "exited"} /\ relay_key \in RelayKeys
  /\ relayed \in SUBSET Clients
  /\ tls \in SUBSET Conns /\ line \in [Conns -> SUBSET Nonces] /\ DOMAIN blob = Conns

\* A blocking server: one connection at a time.
OneServed ==
  /\ server \in {"serve", "record"} => \E x \in GuestConns : serving = {x}
  /\ server \notin {"serve", "record"} => serving = {}

\* The server has not got to this connection, nor is it waiting.
Untried(x) == x \notin serving /\ \A i \in DOMAIN backlog : backlog[i] # x

\* No connection is accepted twice.
ServedOnce ==
  /\ \A i, j \in DOMAIN backlog : backlog[i] = backlog[j] => i = j
  /\ \A i \in DOMAIN backlog : backlog[i] \notin serving
  /\ \A c \in Clients : client[c] = "new" => Untried(Conn(c))
  /\ relay \in {"listening", "shaken"} => Untried(Up)

\* The relay takes one client, and asks the guest with what that client has sent.
OneRelayed ==
  /\ relay = "listening" => relayed = {}
  /\ relay # "listening" => \E c \in Clients : plan[c] = "relayed" /\ relayed = {c}
  /\ relay = "dialled" => \A c \in relayed : line[Conn(c)] # {}

\* A line carries the nonce of the client it comes from, directly or through the relay.
LinesTold ==
  /\ \A c \in Clients : /\ line[Conn(c)] \in {{}, {nonce[c]}}
                        /\ client[c] \in {"asked", "done"} => line[Conn(c)] = {nonce[c]}
  /\ line[Up] # {} => \E c \in relayed : line[Up] = {nonce[c]}

\* The guest answers a connection's own line over its own exporter; the relay passes that
\* answer on, and has no other.
BlobsMade ==
  /\ \A x \in GuestConns :
       blob[x] = {} \/ (x \in tls /\ \E n \in Nonces : line[x] = {n} /\ blob[x] = {Blob(x, n)})
  /\ \A c \in Clients :
       \/ blob[<<c, "relay">>] = {}
       \/ /\ c \in relayed /\ blob[Up] # {} /\ blob[<<c, "relay">>] = blob[Up]
          /\ line[<<c, "relay">>] # {}

\* An answer is in the session list, or about to be.
Recorded ==
  \A x \in GuestConns : blob[x] # {} =>
    \/ server = "record" /\ x \in serving
    \/ \E i \in DOMAIN log : log[i] = Entry(x, TRUE)

\* Of a client that has its answer: who its peer is, and whose key the peer has shown.
Concluded ==
  \A c \in Clients : client[c] = "done" =>
    /\ blob[Conn(c)] # {}
    /\ "exporter" \in verdict[c] <=> Peer(c) = "guest"
    /\ "key" \in verdict[c] <=> PeerKey(c) = GUEST

\* The inductive invariant.
BindingInv ==
  /\ Domains /\ OneServed /\ ServedOnce /\ OneRelayed
  /\ LinesTold /\ BlobsMade /\ Recorded /\ Concluded

-----------------------------------------------------------------------------
(* Queues and connections. *)

\* What is in a queue that has got one more.
LEMMA Appended ==
  ASSUME NEW S, NEW q \in Seq(S), NEW x \in S
  PROVE  /\ Append(q, x) \in Seq(S)
         /\ DOMAIN q \subseteq DOMAIN Append(q, x) /\ Len(q) + 1 \in DOMAIN Append(q, x)
         /\ \A i \in DOMAIN q : Append(q, x)[i] = q[i]
         /\ Append(q, x)[Len(q) + 1] = x
         /\ \A i \in DOMAIN Append(q, x) : i \in DOMAIN q \/ i = Len(q) + 1
         /\ Len(q) + 1 \notin DOMAIN q
OBVIOUS

\* What is in a queue whose first element has been taken.
LEMMA Taken ==
  ASSUME NEW S, NEW q \in Seq(S), q # <<>>
  PROVE  /\ Tail(q) \in Seq(S) /\ Head(q) \in S
         /\ 1 \in DOMAIN q /\ Head(q) = q[1]
         /\ \A i \in DOMAIN Tail(q) : /\ i + 1 \in DOMAIN q /\ i + 1 # 1
                                      /\ Tail(q)[i] = q[i + 1] /\ i \in Nat
OBVIOUS

\* No two connections are taken for each other.
LEMMA ConnsApart ==
  ASSUME Domains
  PROVE  /\ Up \in GuestConns /\ GuestConns \subseteq Conns
         /\ \A c \in Clients :
              /\ Conn(c) \in Conns /\ Conn(c) # Up /\ <<c, "relay">> \in Conns \ GuestConns
              /\ Peer(c) \in {"guest", "relay"}
              /\ Peer(c) = "guest" => Conn(c) \in GuestConns /\ Conn(c) # <<c, "relay">>
              /\ Peer(c) = "relay" => Conn(c) = <<c, "relay">>
              /\ plan[c] = "relayed" <=> Peer(c) = "relay"
         /\ \A c, d \in Clients : /\ Conn(c) = Conn(d) => c = d
                                  /\ Conn(c) = <<d, "relay">> => c = d
BY SessionAssumption DEF Domains, Conns, GuestConns, Up, Conn, Peer

\* Every nonce is somebody's.
LEMMA NonceOf ==
  ASSUME Domains, NEW c \in Clients
  PROVE  nonce[c] \in Nonces
BY DEF Domains, Nonces

-----------------------------------------------------------------------------
(* What a step may do. *)

\* A peer that ends, ends with an exception, and nothing else happens to it.
LEMMA BrokenFails ==
  ASSUME Domains, NEW conns, Broken(conns)
  PROVE  /\ client' \in [Clients -> {"new", "connected", "asked", "done", "failed"}]
         /\ \A c \in Clients : client'[c] \in {client[c], "failed"}
         /\ relay' \in {relay, "exited"}
BY DEF Domains, Broken

\* Nobody's plan, nonce or key changes.
LEMMA PlansKept ==
  ASSUME [Next]_vars
  PROVE  /\ plan' = plan /\ nonce' = nonce /\ relay_key' = relay_key
         /\ \A c : Peer(c)' = Peer(c) /\ Conn(c)' = Conn(c) /\ PeerKey(c)' = PeerKey(c)
<1>1. plan' = plan /\ nonce' = nonce /\ relay_key' = relay_key
  BY DEF Next, vars, guestVars, relayVars, clientVars, wire, Guest, Loop, Accept, Handshake, Answer,
         AnswerFails, Record, SilentLeaves, Deadline, Relay, RelayShake, RelayDial, RelayLine,
         RelaySend, Connect, Ask, Conclude
<1>2. QED BY <1>1 DEF Peer, Conn, PeerKey

\* The fates of a client in one step.
LEMMA ClientMoves ==
  ASSUME Domains, [Next]_vars, NEW c \in Clients
  PROVE  /\ client'[c] \in {"new", "connected", "asked", "done", "failed"}
         /\ client'[c] = "new" => client[c] = "new"
         /\ client'[c] = "asked" => client[c] = "asked" \/ Ask(c)
         /\ client'[c] = "done" => (client[c] = "done" /\ verdict'[c] = verdict[c]) \/ Conclude(c)
<1> USE DEF Domains
<1>1. CASE Loop \/ AnswerFails \/ SilentLeaves \/ RelayDial
  BY <1>1, BrokenFails DEF Loop, AnswerFails, SilentLeaves, RelayDial
<1>2. CASE RelaySend
  BY <1>2 DEF RelaySend
<1>3. ASSUME NEW d \in Clients, Connect(d) \/ Ask(d) \/ Conclude(d)
      PROVE  /\ client'[c] \in {"new", "connected", "asked", "done", "failed"}
             /\ client'[c] = "new" => client[c] = "new"
             /\ client'[c] = "asked" => client[c] = "asked" \/ Ask(c)
             /\ client'[c] = "done" => (client[c] = "done" /\ verdict'[c] = verdict[c]) \/ Conclude(c)
  <2>1. CASE Connect(d) BY <2>1 DEF Connect
  <2>2. CASE Ask(d) BY <2>2 DEF Ask
  <2>3. CASE Conclude(d) /\ d = c
    <3>1. client' = [client EXCEPT ![c] = "done"]
      BY <2>3 DEF Conclude
    <3>2. Conclude(c)
      BY <2>3, Zenon
    <3>3. QED BY <3>1, <3>2
  <2>4. CASE Conclude(d) /\ d # c BY <2>4 DEF Conclude
  <2>5. QED BY <1>3, <2>1, <2>2, <2>3, <2>4
<1>4. CASE \/ Accept \/ Handshake \/ Answer \/ Record \/ Deadline \/ RelayShake \/ RelayLine
           \/ UNCHANGED vars
  BY <1>4 DEF Accept, Handshake, Answer, Record, Deadline, RelayShake, RelayLine, vars, clientVars
<1>5. QED BY <1>1, <1>2, <1>3, <1>4 DEF Next, Guest, Relay

\* The relay serves one client, and ends early only if it has dialled the guest.
LEMMA RelayMoves ==
  ASSUME Domains, ServedOnce, [Next]_vars
  PROVE  /\ relay' \in {"listening", "shaken", "dialled", "exited"}
         /\ relay' = "listening" => relay = "listening"
         /\ relay = "listening" => relay' = "listening" \/ RelayShake
         /\ relay' = "shaken" => relay = "shaken" \/ RelayShake
         /\ relay' = "dialled" => relay = "dialled" \/ RelayDial
         /\ relayed' = relayed \/ RelayShake
<1> USE DEF Domains
<1>1. CASE Loop \/ AnswerFails \/ SilentLeaves
  <2>1. relay' = relay \/ (relay' = "exited" /\ relay # "listening")
    BY <1>1 DEF Loop, AnswerFails, SilentLeaves, Broken, ServedOnce, Untried
  <2>2. relayed' = relayed
    BY <1>1 DEF Loop, AnswerFails, SilentLeaves
  <2>3. QED BY <2>1, <2>2
<1>2. CASE RelayShake \/ RelayDial \/ RelayLine \/ RelaySend
  BY <1>2, BrokenFails DEF RelayShake, RelayDial, ReadyToDial, RelayLine, RelaySend, relayVars
<1>3. CASE \/ Accept \/ Handshake \/ Answer \/ Record \/ Deadline \/ UNCHANGED vars
           \/ \E c \in Clients : Connect(c) \/ Ask(c) \/ Conclude(c)
  BY <1>3 DEF Accept, Handshake, Answer, Record, Deadline, vars, Connect, Ask, Conclude, relayVars
<1>4. QED BY <1>1, <1>2, <1>3 DEF Next, Guest, Relay

\* What is said on the connections, and by whom.
LEMMA WireMoves ==
  ASSUME Domains, [Next]_vars
  PROVE  /\ tls \subseteq tls'
         /\ line' = line \/ RelayLine \/ \E c \in Clients : Ask(c)
         /\ blob' = blob \/ Answer \/ RelaySend
BY DEF Next, vars, guestVars, relayVars, clientVars, wire, Guest, Loop, Accept, Handshake, Answer,
       AnswerFails, Record, SilentLeaves, Deadline, Relay, RelayShake, RelayDial, RelayLine,
       RelaySend, Connect, Ask, Conclude

\* The server takes one connection after the other, and records each as it closes it.
LEMMA ServerMoves ==
  ASSUME Domains, [Next]_vars
  PROVE  /\ \/ serving' = serving \/ Accept
            \/ server' = "loop" /\ serving' = {}
         /\ \/ backlog' = backlog \/ Accept \/ RelayDial \/ backlog' = <<>>
            \/ \E c \in Clients : Connect(c)
         /\ \/ log' = log
            \/ \E x \in serving, ok \in BOOLEAN : log' = Append(log, Entry(x, ok))
BY DEF Next, vars, guestVars, relayVars, clientVars, wire, Guest, Loop, Accept, Handshake, Answer,
       AnswerFails, Record, SilentLeaves, Deadline, Relay, RelayShake, RelayDial, RelayLine,
       RelaySend, Connect, Ask, Conclude, Hangup

-----------------------------------------------------------------------------
(* Each part of the invariant is kept. *)

\* The variables stay in their domains.
LEMMA DomainsKept ==
  ASSUME BindingInv, [Next]_vars
  PROVE  Domains'
<1> USE DEF BindingInv
<1>1. plan' = plan /\ nonce' = nonce /\ relay_key' = relay_key
  BY PlansKept
<1>2. client' \in [Clients -> {"new", "connected", "asked", "done", "failed"}]
  <2>1. \E f : client' = [c \in Clients |-> f[c]]
    <3>1. CASE Loop \/ AnswerFails \/ SilentLeaves \/ RelayDial
      BY <3>1, BrokenFails DEF Loop, AnswerFails, SilentLeaves, RelayDial, Domains
    <3>2. CASE RelaySend
      BY <3>2 DEF RelaySend
    <3>3. CASE \E c \in Clients : Connect(c) \/ Ask(c) \/ Conclude(c)
      BY <3>3 DEF Connect, Ask, Conclude, Domains
    <3>4. CASE \/ Accept \/ Handshake \/ Answer \/ Record \/ Deadline \/ RelayShake \/ RelayLine
               \/ UNCHANGED vars
      BY <3>4 DEF Accept, Handshake, Answer, Record, Deadline, RelayShake, RelayLine, vars,
                  clientVars, Domains
    <3>5. QED BY <3>1, <3>2, <3>3, <3>4 DEF Next, Guest, Relay
  <2>2. QED BY <2>1, ClientMoves
<1>3. verdict' \in [Clients -> SUBSET {"key", "exporter"}]
  <2>1. CASE \E c \in Clients : Conclude(c)
    BY <2>1 DEF Conclude, Domains
  <2>2. CASE verdict' = verdict
    BY <2>2 DEF Domains
  <2>3. verdict' = verdict \/ \E c \in Clients : Conclude(c)
    BY DEF Next, vars, guestVars, relayVars, clientVars, wire, Guest, Loop, Accept, Handshake,
           Answer, AnswerFails, Record, SilentLeaves, Deadline, Relay, RelayShake, RelayDial,
           RelayLine, RelaySend, Connect, Ask
  <2>4. QED BY <2>1, <2>2, <2>3
<1>4. /\ server' \in {"loop", "accept", "serve", "record", "exited"}
      /\ late' \in BOOLEAN
  BY DEF Domains, Next, vars, guestVars, relayVars, clientVars, wire, Guest, Loop, Accept, Handshake,
         Answer, AnswerFails, Record, SilentLeaves, Deadline, Relay, RelayShake, RelayDial,
         RelayLine, RelaySend, Connect, Ask, Conclude, Hangup
<1>5. backlog' \in Seq(GuestConns)
  <2>1. CASE Accept
    BY <2>1, Taken DEF Accept, Domains
  <2>2. CASE RelayDial
    BY <2>2, ConnsApart, Appended DEF RelayDial, Domains
  <2>3. ASSUME NEW c \in Clients, Connect(c) PROVE backlog' \in Seq(GuestConns)
    <3>1. CASE backlog' = backlog
      BY <3>1 DEF Domains
    <3>2. CASE Peer(c) = "guest" /\ backlog' = Append(backlog, Conn(c))
      BY <3>2, ConnsApart, Appended DEF Domains
    <3>3. QED BY <2>3, <3>1, <3>2, ConnsApart DEF Connect
  <2>4. CASE backlog' = backlog
    BY <2>4 DEF Domains
  <2>5. CASE backlog' = <<>>
    BY <2>5
  <2>6. QED BY <2>1, <2>2, <2>3, <2>4, <2>5, ServerMoves
<1>6. log' \in Seq(Entries)
  <2>1. ASSUME NEW x \in serving, NEW ok \in BOOLEAN
        PROVE  Entry(x, ok) \in Entries
    BY <2>1 DEF Entry, Entries, OneServed
  <2>2. CASE log' = log
    BY <2>2 DEF Domains
  <2>3. ASSUME NEW x \in serving, NEW ok \in BOOLEAN, log' = Append(log, Entry(x, ok))
        PROVE  log' \in Seq(Entries)
    BY <2>1, <2>3, Appended DEF Domains
  <2>4. QED BY <2>2, <2>3, ServerMoves
<1>7. /\ relay' \in {"listening", "shaken", "dialled", "exited"}
      /\ relayed' \in SUBSET Clients
  BY RelayMoves DEF RelayShake, AtRelay, Domains
<1>8. tls' \in SUBSET Conns
  <2>1. \/ tls' = tls \/ \E x \in serving : tls' = tls \cup {x}
        \/ \E c \in Clients : tls' = tls \cup {Conn(c)}
    BY DEF Next, vars, guestVars, relayVars, clientVars, wire, Guest, Loop, Accept, Handshake,
           Answer, AnswerFails, Record, SilentLeaves, Deadline, Relay, RelayShake, RelayDial,
           RelayLine, RelaySend, Connect, Ask, Conclude, AtRelay
  <2>2. serving \subseteq GuestConns
    BY DEF OneServed
  <2>3. QED BY <2>1, <2>2, ConnsApart DEF Domains
<1>9. line' \in [Conns -> SUBSET Nonces]
  <2>1. CASE \E c \in Clients : Ask(c)
    BY <2>1, NonceOf DEF Ask, Domains
  <2>2. CASE RelayLine
    BY <2>2, ConnsApart DEF RelayLine, Domains
  <2>3. QED BY <2>1, <2>2, WireMoves DEF Domains
<1>10. DOMAIN blob' = Conns
  BY WireMoves DEF Answer, RelaySend, Domains
<1>11. QED BY <1>1, <1>2, <1>3, <1>4, <1>5, <1>6, <1>7, <1>8, <1>9, <1>10 DEF Domains

\* The server has one connection while it serves and none else.
LEMMA OneServedKept ==
  ASSUME BindingInv, [Next]_vars
  PROVE  OneServed'
<1> USE DEF BindingInv
<1>1. CASE Accept
  <2>1. CASE backlog = <<>>
    BY <1>1, <2>1 DEF Accept, OneServed
  <2>2. CASE backlog # <<>>
    BY <1>1, <2>2, Taken DEF Accept, OneServed, Domains
  <2>3. QED BY <2>1, <2>2
<1>2. CASE server' = "loop" /\ serving' = {}
  BY <1>2 DEF OneServed
<1>3. CASE Loop \/ Answer
  BY <1>3 DEF Loop, Answer, OneServed
<1>4. CASE server' = server /\ serving' = serving
  BY <1>4 DEF OneServed
<1>5. \/ Accept \/ Loop \/ Answer
      \/ server' = "loop" /\ serving' = {}
      \/ server' = server /\ serving' = serving
  BY DEF Next, vars, guestVars, relayVars, clientVars, wire, Guest, Handshake, AnswerFails, Record,
         SilentLeaves, Deadline, Relay, RelayShake, RelayDial, RelayLine, RelaySend, Connect, Ask,
         Conclude, Hangup
<1>6. QED BY <1>1, <1>2, <1>3, <1>4, <1>5

\* A connection that has not been made is still untried after a step of anybody else.
LEMMA UntriedKept ==
  ASSUME BindingInv, [Next]_vars, NEW x, Untried(x),
         x = Up => ~RelayDial,
         \A c \in Clients : Connect(c) => x # Conn(c)
  PROVE  Untried(x)'
<1> USE DEF BindingInv
<1>1. CASE Accept
  <2>1. CASE backlog = <<>>
    BY <1>1, <2>1 DEF Accept, Untried
  <2>2. CASE backlog # <<>>
    BY <1>1, <2>2, Taken DEF Accept, Untried, Domains
  <2>3. QED BY <2>1, <2>2
<1>2. CASE RelayDial
  <2>1. backlog' = backlog \/ backlog' = Append(backlog, Up)
    BY <1>2 DEF RelayDial
  <2>2. \A i \in DOMAIN backlog' : backlog'[i] # x
    BY <1>2, <2>1, Appended, ConnsApart DEF Untried, Domains
  <2>3. serving' = serving
    BY <1>2 DEF RelayDial
  <2>4. QED BY <2>2, <2>3 DEF Untried
<1>3. ASSUME NEW c \in Clients, Connect(c) PROVE Untried(x)'
  <2>1. backlog' = backlog \/ (backlog' = Append(backlog, Conn(c)) /\ Peer(c) = "guest")
    BY <1>3, ConnsApart DEF Connect
  <2>2. \A i \in DOMAIN backlog' : backlog'[i] # x
    <3>1. CASE backlog' = backlog
      BY <3>1 DEF Untried
    <3>2. CASE backlog' = Append(backlog, Conn(c)) /\ Peer(c) = "guest"
      <4>1. Conn(c) \in GuestConns /\ Conn(c) # x
        BY <1>3, <3>2, ConnsApart
      <4>2. QED BY <3>2, <4>1, Appended DEF Untried, Domains
    <3>3. QED BY <2>1, <3>1, <3>2
  <2>3. serving' = serving
    BY <1>3 DEF Connect
  <2>4. QED BY <2>2, <2>3 DEF Untried
<1>4. CASE backlog' \in {backlog, <<>>} /\ serving' \in {serving, {}}
  BY <1>4 DEF Untried
<1>5. QED BY <1>1, <1>2, <1>3, <1>4, ServerMoves

\* No connection is served twice.
LEMMA ServedOnceKept ==
  ASSUME BindingInv, [Next]_vars
  PROVE  ServedOnce'
<1> USE DEF BindingInv
<1>1. ASSUME NEW c \in Clients, client'[c] = "new" PROVE Untried(Conn(c))'
  <2>1. client[c] = "new"
    BY <1>1, ClientMoves
  <2>2. ~Connect(c)
    BY <1>1 DEF Connect, Domains
  <2>3. Untried(Conn(c)) /\ \A d \in Clients : Connect(d) => Conn(c) # Conn(d)
    BY <2>1, <2>2, ConnsApart DEF ServedOnce
  <2>4. Conn(c) # Up
    BY ConnsApart
  <2>5. \A x : Untried(x) /\ x = Conn(c) => Untried(x)'
    BY <2>3, <2>4, UntriedKept
  <2>6. Conn(c)' = Conn(c)
    BY PlansKept
  <2>7. QED BY <2>3, <2>5, <2>6 DEF Untried
<1>2. ASSUME relay' \in {"listening", "shaken"} PROVE Untried(Up)'
  <2>1. relay \in {"listening", "shaken"}
    BY <1>2, RelayMoves DEF RelayShake
  <2>2. ~RelayDial
    BY <1>2 DEF RelayDial, Broken
  <2>3. QED BY <2>1, <2>2, UntriedKept, ConnsApart DEF ServedOnce
<1>3. /\ \A i, j \in DOMAIN backlog' : backlog'[i] = backlog'[j] => i = j
      /\ \A i \in DOMAIN backlog' : backlog'[i] \notin serving'
  <2>1. CASE Accept
    <3>1. CASE backlog = <<>>
      BY <2>1, <3>1 DEF Accept, ServedOnce
    <3>2. CASE backlog # <<>>
      <4>1. serving' = {backlog[1]} /\ backlog' = Tail(backlog)
        BY <2>1, <3>2, Taken DEF Accept, Domains
      <4>2. \A i \in DOMAIN backlog' :
              i \in Nat /\ i + 1 \in DOMAIN backlog /\ i + 1 # 1 /\ backlog'[i] = backlog[i + 1]
        BY <3>2, <4>1, Taken DEF Domains
      <4>3. 1 \in DOMAIN backlog
        BY <3>2, Taken DEF Domains
      <4>4. ASSUME NEW i \in DOMAIN backlog', NEW j \in DOMAIN backlog', backlog'[i] = backlog'[j]
            PROVE  i = j
        <5>1. i + 1 = j + 1
          BY <4>2, <4>4 DEF ServedOnce
        <5>2. QED BY <4>2, <5>1
      <4>5. QED BY <4>1, <4>2, <4>3, <4>4 DEF ServedOnce
    <3>3. QED BY <3>1, <3>2
  <2>2. ASSUME NEW x \in GuestConns, backlog' = Append(backlog, x), serving' = serving, Untried(x)
        PROVE  /\ \A i, j \in DOMAIN backlog' : backlog'[i] = backlog'[j] => i = j
               /\ \A i \in DOMAIN backlog' : backlog'[i] \notin serving'
    BY <2>2, Appended DEF Untried, ServedOnce, Domains
  <2>3. CASE RelayDial
    <3>1. Untried(Up) /\ serving' = serving
      BY <2>3 DEF RelayDial, ReadyToDial, ServedOnce
    <3>2. backlog' = backlog \/ backlog' = Append(backlog, Up)
      BY <2>3 DEF RelayDial
    <3>3. QED BY <2>2, <3>1, <3>2, ConnsApart DEF ServedOnce
  <2>4. ASSUME NEW c \in Clients, Connect(c)
        PROVE  /\ \A i, j \in DOMAIN backlog' : backlog'[i] = backlog'[j] => i = j
               /\ \A i \in DOMAIN backlog' : backlog'[i] \notin serving'
    <3>1. Untried(Conn(c)) /\ serving' = serving
      BY <2>4 DEF Connect, ServedOnce
    <3>2. backlog' = backlog \/ (backlog' = Append(backlog, Conn(c)) /\ Peer(c) = "guest")
      BY <2>4, ConnsApart DEF Connect
    <3>3. QED BY <2>2, <3>1, <3>2, ConnsApart DEF ServedOnce
  <2>5. CASE backlog' \in {backlog, <<>>} /\ serving' \in {serving, {}}
    BY <2>5 DEF ServedOnce
  <2>6. QED BY <2>1, <2>3, <2>4, <2>5, ServerMoves
<1>4. QED BY <1>1, <1>2, <1>3 DEF ServedOnce

\* A line that has been sent stays on its connection.
LEMMA LinesStay ==
  ASSUME BindingInv, [Next]_vars, NEW x \in Conns, line[x] # {}
  PROVE  line'[x] = line[x]
<1> USE DEF BindingInv
<1>1. CASE RelayLine
  BY <1>1 DEF RelayLine, Domains
<1>2. ASSUME NEW c \in Clients, Ask(c) PROVE line'[x] = line[x]
  <2>1. line' = [line EXCEPT ![Conn(c)] = {nonce[c]}]
    BY <1>2 DEF Ask
  <2>2. line[Conn(c)] \in {{}, {nonce[c]}}
    BY DEF LinesTold
  <2>3. QED BY <2>1, <2>2 DEF Domains
<1>3. QED BY <1>1, <1>2, WireMoves

\* The relay stands between one client and the guest.
LEMMA OneRelayedKept ==
  ASSUME BindingInv, [Next]_vars
  PROVE  OneRelayed'
<1> USE DEF BindingInv
<1>1. relay' = "listening" => relayed' = {}
  BY RelayMoves DEF OneRelayed, RelayShake
<1>2. relay' # "listening" => \E c \in Clients : plan'[c] = "relayed" /\ relayed' = {c}
  <2>1. CASE RelayShake
    BY <2>1, PlansKept DEF RelayShake, AtRelay
  <2>2. CASE relayed' = relayed
    BY <2>2, PlansKept, RelayMoves DEF OneRelayed, RelayShake
  <2>3. QED BY <2>1, <2>2, RelayMoves
<1>3. ASSUME relay' = "dialled", NEW c \in relayed' PROVE line'[Conn(c)'] # {}
  <2>1. relayed' = relayed /\ c \in Clients
    BY <1>2, <1>3, RelayMoves DEF RelayShake
  <2>2. line[Conn(c)] # {}
    <3>1. CASE relay = "dialled"
      BY <2>1, <3>1 DEF OneRelayed
    <3>2. CASE RelayDial
      BY <2>1, <3>2 DEF RelayDial, ReadyToDial, OneRelayed
    <3>3. QED BY <1>3, <3>1, <3>2, RelayMoves
  <2>3. QED BY <2>1, <2>2, LinesStay, ConnsApart, PlansKept
<1>4. QED BY <1>1, <1>2, <1>3 DEF OneRelayed

\* A line holds the nonce of the client it comes from, through the relay as well.
LEMMA LinesToldKept ==
  ASSUME BindingInv, [Next]_vars
  PROVE  LinesTold'
<1> USE DEF BindingInv
<1>1. ASSUME NEW c \in Clients
      PROVE  /\ line'[Conn(c)'] \in {{}, {nonce'[c]}}
             /\ client'[c] \in {"asked", "done"} => line'[Conn(c)'] = {nonce'[c]}
  <2>1. nonce' = nonce /\ Conn(c)' = Conn(c) /\ Conn(c) \in Conns /\ Conn(c) # Up
    BY PlansKept, ConnsApart
  <2>2. line'[Conn(c)] \in {{}, {nonce[c]}}
    <3>1. CASE RelayLine
      BY <2>1, <3>1 DEF RelayLine, LinesTold, Domains
    <3>2. ASSUME NEW d \in Clients, Ask(d) PROVE line'[Conn(c)] \in {{}, {nonce[c]}}
      BY <2>1, <3>2, ConnsApart DEF Ask, LinesTold, Domains
    <3>3. QED BY <3>1, <3>2, WireMoves DEF LinesTold
  <2>3. CASE client[c] \in {"asked", "done"}
    BY <2>1, <2>3, LinesStay DEF LinesTold
  <2>4. CASE Ask(c)
    BY <2>1, <2>4 DEF Ask, Domains
  <2>5. Conclude(c) => client[c] \in {"asked", "done"}
    BY DEF Conclude
  <2>6. QED BY <2>1, <2>2, <2>3, <2>4, <2>5, ClientMoves
<1>2. ASSUME line'[Up] # {} PROVE \E c \in relayed' : line'[Up] = {nonce'[c]}
  <2>1. CASE line[Up] # {}
    <3>1. PICK c \in relayed : line[Up] = {nonce[c]}
      BY <2>1 DEF LinesTold
    <3>2. relayed' = relayed
      BY <3>1, RelayMoves DEF RelayShake, OneRelayed
    <3>3. QED BY <2>1, <3>1, <3>2, LinesStay, ConnsApart, PlansKept
  <2>2. CASE line[Up] = {}
    <3>1. ASSUME NEW c \in Clients, Ask(c) PROVE FALSE
      BY <1>2, <2>2, <3>1, ConnsApart DEF Ask, Domains
    <3>2. RelayLine
      BY <1>2, <2>2, <3>1, WireMoves
    <3>3. PICK c \in relayed : line' = [line EXCEPT ![Up] = line[Conn(c)]]
      BY <3>2 DEF RelayLine
    <3>4. line'[Up] = line[Conn(c)] /\ c \in Clients /\ relayed' = relayed /\ nonce' = nonce
      BY <3>2, <3>3, ConnsApart DEF RelayLine, Domains, relayVars, clientVars
    <3>5. QED BY <1>2, <3>3, <3>4 DEF LinesTold
  <2>3. QED BY <2>1, <2>2
<1>3. QED BY <1>1, <1>2 DEF LinesTold

\* The guest answers the line it has read.
LEMMA AnswerMakes ==
  ASSUME BindingInv, Answer
  PROVE  \E x \in GuestConns, n \in Nonces :
           /\ serving = {x} /\ x \in tls /\ line[x] = {n}
           /\ blob' = [blob EXCEPT ![x] = {Blob(x, n)}]
           /\ server' = "record" /\ serving' = serving /\ line' = line
BY DEF BindingInv, OneServed, Answer

\* The relay passes on what it has been sent.
LEMMA RelaySendPasses ==
  ASSUME BindingInv, RelaySend
  PROVE  \E c \in Clients :
           /\ relayed = {c} /\ Peer(c) = "relay" /\ Conn(c) = <<c, "relay">> /\ line[Conn(c)] # {}
           /\ blob[Up] # {} /\ blob' = [blob EXCEPT ![<<c, "relay">>] = blob[Up]]
           /\ line' = line /\ relayed' = relayed /\ tls' = tls
<1> USE DEF BindingInv
<1>1. PICK c \in Clients : plan[c] = "relayed" /\ relayed = {c}
  BY DEF RelaySend, OneRelayed
<1>2. Peer(c) = "relay" /\ Conn(c) = <<c, "relay">> /\ line[Conn(c)] # {}
  BY <1>1, ConnsApart DEF RelaySend, OneRelayed
<1>3. QED BY <1>1, <1>2 DEF RelaySend

\* A blob that the guest has made stays on its connection.
LEMMA GuestBlobsStay ==
  ASSUME BindingInv, [Next]_vars, NEW x \in GuestConns, blob[x] # {}
  PROVE  blob'[x] = blob[x]
<1> USE DEF BindingInv
<1>1. CASE Answer
  <2>1. PICK y \in GuestConns, n \in Nonces :
          line[y] = {n} /\ blob' = [blob EXCEPT ![y] = {Blob(y, n)}]
    BY <1>1, AnswerMakes
  <2>2. PICK m \in Nonces : line[x] = {m} /\ blob[x] = {Blob(x, m)}
    BY DEF BlobsMade
  <2>3. CASE x = y
    <3>1. m = n
      BY <2>1, <2>2, <2>3
    <3>2. QED BY <2>1, <2>2, <2>3, <3>1, ConnsApart DEF Domains
  <2>4. CASE x # y
    BY <2>1, <2>4 DEF Domains
  <2>5. QED BY <2>3, <2>4
<1>2. CASE RelaySend
  <2>1. PICK c \in Clients : blob' = [blob EXCEPT ![<<c, "relay">>] = blob[Up]]
    BY <1>2, RelaySendPasses
  <2>2. x # <<c, "relay">>
    BY ConnsApart
  <2>3. QED BY <2>1, <2>2 DEF Domains
<1>3. QED BY <1>1, <1>2, WireMoves

\* Blobs are the guest's answers to the line on their connection, or come through the relay.
LEMMA BlobsMadeKept ==
  ASSUME BindingInv, [Next]_vars
  PROVE  BlobsMade'
<1> USE DEF BindingInv
<1>1. ASSUME NEW x \in GuestConns, blob'[x] # {}
      PROVE  x \in tls' /\ \E n \in Nonces : line'[x] = {n} /\ blob'[x] = {Blob(x, n)}
  <2>1. CASE blob[x] # {}
    BY <2>1, GuestBlobsStay, LinesStay, WireMoves, ConnsApart DEF BlobsMade
  <2>2. CASE blob[x] = {}
    <3>1. ~RelaySend
      <4>1. SUFFICES ASSUME RelaySend PROVE FALSE
        OBVIOUS
      <4>2. PICK c \in Clients : blob' = [blob EXCEPT ![<<c, "relay">>] = blob[Up]]
        BY <4>1, RelaySendPasses
      <4>3. QED BY <1>1, <2>2, <4>2, ConnsApart DEF Domains
    <3>2. Answer
      BY <1>1, <2>2, <3>1, WireMoves
    <3>3. PICK y \in GuestConns, n \in Nonces :
            y \in tls /\ line[y] = {n} /\ blob' = [blob EXCEPT ![y] = {Blob(y, n)}] /\ line' = line
      BY <3>2, AnswerMakes
    <3>4. x = y
      BY <1>1, <2>2, <3>3 DEF Domains
    <3>5. QED BY <3>3, <3>4, WireMoves, ConnsApart DEF Domains
  <2>3. QED BY <2>1, <2>2
<1>2. ASSUME NEW c \in Clients, blob'[<<c, "relay">>] # {}
      PROVE  /\ c \in relayed' /\ blob'[Up] # {} /\ blob'[<<c, "relay">>] = blob'[Up]
             /\ line'[<<c, "relay">>] # {}
  <2>1. <<c, "relay">> \in Conns \ GuestConns /\ Up \in GuestConns
    BY ConnsApart
  <2>2. CASE blob[<<c, "relay">>] # {}
    <3>1. /\ c \in relayed /\ blob[Up] # {} /\ blob[<<c, "relay">>] = blob[Up]
          /\ line[<<c, "relay">>] # {}
      BY <2>2 DEF BlobsMade
    <3>2. relayed' = relayed
      BY <3>1, RelayMoves DEF RelayShake, OneRelayed
    <3>3. blob'[Up] = blob[Up]
      BY <2>1, <3>1, GuestBlobsStay
    <3>4. blob'[<<c, "relay">>] = blob[<<c, "relay">>]
      <4>1. CASE Answer
        <5>1. PICK y \in GuestConns, n \in Nonces : blob' = [blob EXCEPT ![y] = {Blob(y, n)}]
          BY <4>1, AnswerMakes
        <5>2. y # <<c, "relay">>
          BY <2>1
        <5>3. QED BY <2>1, <5>1, <5>2 DEF Domains
      <4>2. CASE RelaySend
        <5>1. PICK d \in Clients : blob' = [blob EXCEPT ![<<d, "relay">>] = blob[Up]]
          BY <4>2, RelaySendPasses
        <5>2. QED BY <2>1, <3>1, <5>1 DEF Domains
      <4>3. QED BY <4>1, <4>2, WireMoves
    <3>5. QED BY <2>1, <3>1, <3>2, <3>3, <3>4, LinesStay
  <2>3. CASE blob[<<c, "relay">>] = {}
    <3>1. ~Answer
      <4>1. SUFFICES ASSUME Answer PROVE FALSE
        OBVIOUS
      <4>2. PICK y \in GuestConns, n \in Nonces : blob' = [blob EXCEPT ![y] = {Blob(y, n)}]
        BY <4>1, AnswerMakes
      <4>3. QED BY <1>2, <2>1, <2>3, <4>2 DEF Domains
    <3>2. RelaySend
      BY <1>2, <2>3, <3>1, WireMoves
    <3>3. PICK d \in Clients :
            /\ relayed = {d} /\ Conn(d) = <<d, "relay">> /\ line[Conn(d)] # {}
            /\ blob[Up] # {} /\ blob' = [blob EXCEPT ![<<d, "relay">>] = blob[Up]]
            /\ line' = line /\ relayed' = relayed
      BY <3>2, RelaySendPasses
    <3>4. <<c, "relay">> = <<d, "relay">>
      BY <1>2, <2>1, <2>3, <3>3 DEF Domains
    <3>5. c = d
      BY <3>4
    <3>6. blob'[Up] = blob[Up] /\ blob'[<<c, "relay">>] = blob[Up]
      BY <2>1, <3>3, <3>5 DEF Domains
    <3>7. QED BY <3>3, <3>5, <3>6
  <2>4. QED BY <2>2, <2>3
<1>3. QED BY <1>1, <1>2 DEF BlobsMade

\* The guest records every connection it has answered.
LEMMA RecordedKept ==
  ASSUME BindingInv, [Next]_vars
  PROVE  Recorded'
<1> USE DEF BindingInv
<1>1. SUFFICES ASSUME NEW x \in GuestConns, blob'[x] # {}
      PROVE  \/ server' = "record" /\ x \in serving'
             \/ \E i \in DOMAIN log' : log'[i] = Entry(x, TRUE)
  BY DEF Recorded
<1>2. ASSUME NEW i \in DOMAIN log PROVE i \in DOMAIN log' /\ log'[i] = log[i]
  <2>1. ASSUME NEW y \in serving, NEW ok \in BOOLEAN, log' = Append(log, Entry(y, ok))
        PROVE  i \in DOMAIN log' /\ log'[i] = log[i]
    <3>1. Entry(y, ok) \in Entries
      BY <2>1 DEF Entry, Entries, OneServed
    <3>2. QED BY <2>1, <3>1, Appended DEF Domains
  <2>2. QED BY <2>1, ServerMoves
<1>3. CASE blob[x] = {}
  <2>1. ~RelaySend
    <3>1. SUFFICES ASSUME RelaySend PROVE FALSE
      OBVIOUS
    <3>2. PICK c \in Clients : blob' = [blob EXCEPT ![<<c, "relay">>] = blob[Up]]
      BY <3>1, RelaySendPasses
    <3>3. QED BY <1>1, <1>3, <3>2, ConnsApart DEF Domains
  <2>2. Answer
    BY <1>1, <1>3, <2>1, WireMoves
  <2>3. PICK y \in GuestConns, n \in Nonces :
          /\ serving = {y} /\ blob' = [blob EXCEPT ![y] = {Blob(y, n)}]
          /\ server' = "record" /\ serving' = serving
    BY <2>2, AnswerMakes
  <2>4. x = y
    BY <1>1, <1>3, <2>3 DEF Domains
  <2>5. QED BY <2>3, <2>4
<1>4. CASE \E i \in DOMAIN log : log[i] = Entry(x, TRUE)
  BY <1>2, <1>4
<1>5. CASE server = "record" /\ x \in serving
  <2>1. CASE Record
    <3>1. serving = {x}
      BY <1>5 DEF OneServed
    <3>2. PICK e \in Entries :
            log' = Append(log, e) /\ e = Entry(x, TRUE)
      BY <2>1, <3>1 DEF Record, Entry, Entries
    <3>3. Len(log) + 1 \in DOMAIN log' /\ log'[Len(log) + 1] = e
      BY <3>2, Appended DEF Domains
    <3>4. QED BY <3>2, <3>3
  <2>2. CASE server' = "record" /\ serving' = serving
    BY <1>5, <2>2
  <2>3. Record \/ (server' = "record" /\ serving' = serving)
    BY <1>5 DEF Next, vars, guestVars, relayVars, clientVars, wire, Guest, Loop, Accept, Handshake,
           Answer, AnswerFails, SilentLeaves, Deadline, Relay, RelayShake, RelayDial, RelayLine,
           RelaySend, Connect, Ask, Conclude, Hangup
  <2>4. QED BY <2>1, <2>2, <2>3
<1>6. QED BY <1>3, <1>4, <1>5 DEF Recorded

\* What a client concludes from the blob it has been sent.
LEMMA ConcludeJudges ==
  ASSUME BindingInv, NEW c \in Clients, Conclude(c)
  PROVE  /\ blob[Conn(c)] # {}
         /\ "exporter" \in verdict'[c] <=> Peer(c) = "guest"
         /\ "key" \in verdict'[c] <=> PeerKey(c) = GUEST
<1> USE DEF BindingInv
<1>1. PICK b \in blob[Conn(c)] :
        verdict' = [verdict EXCEPT ![c] =
          {k \in {"key", "exporter"} : IF k = "key" THEN KeyBinder(c, b) ELSE ExporterBinder(c, b)}]
  BY DEF Conclude
<1>2. /\ "key" \in verdict'[c] <=> KeyBinder(c, b)
      /\ "exporter" \in verdict'[c] <=> ExporterBinder(c, b)
  BY <1>1 DEF Domains
<1>3. line[Conn(c)] = {nonce[c]}
  BY DEF Conclude, LinesTold
<1>4. CASE Peer(c) = "guest"
  <2>1. b = Blob(Conn(c), nonce[c])
    <3>1. Conn(c) \in GuestConns
      BY <1>4, ConnsApart
    <3>2. PICK n \in Nonces : line[Conn(c)] = {n} /\ blob[Conn(c)] = {Blob(Conn(c), n)}
      BY <1>1, <3>1 DEF BlobsMade
    <3>3. n = nonce[c]
      BY <1>3, <3>2
    <3>4. QED BY <1>1, <3>2, <3>3
  <2>2. KeyBinder(c, b) <=> PeerKey(c) = GUEST
    BY <2>1 DEF KeyBinder, Blob
  <2>3. ExporterBinder(c, b)
    BY <2>1 DEF ExporterBinder, Blob
  <2>4. QED BY <1>1, <1>2, <1>4, <2>2, <2>3
<1>5. CASE Peer(c) = "relay"
  <2>1. Conn(c) = <<c, "relay">> /\ Conn(c) # Up /\ Up \in GuestConns
    BY <1>5, ConnsApart
  <2>2. c \in relayed /\ blob[Up] # {} /\ b \in blob[Up]
    BY <1>1, <2>1 DEF BlobsMade
  <2>3. PICK n \in Nonces : line[Up] = {n} /\ blob[Up] = {Blob(Up, n)}
    BY <2>1, <2>2 DEF BlobsMade
  <2>4. PICK d \in relayed : line[Up] = {nonce[d]}
    BY <2>3 DEF LinesTold
  <2>5. d = c
    BY <2>2 DEF OneRelayed
  <2>6. b = Blob(Up, nonce[c])
    BY <2>2, <2>3, <2>4, <2>5
  <2>7. KeyBinder(c, b) <=> PeerKey(c) = GUEST
    BY <2>6 DEF KeyBinder, Blob
  <2>8. ~ExporterBinder(c, b)
    BY <2>1, <2>6 DEF ExporterBinder, Blob
  <2>9. QED BY <1>1, <1>2, <1>5, <2>7, <2>8
<1>6. QED BY <1>4, <1>5, ConnsApart

\* A conclusion stands.
LEMMA ConcludedKept ==
  ASSUME BindingInv, [Next]_vars
  PROVE  Concluded'
<1> USE DEF BindingInv
<1>1. SUFFICES ASSUME NEW c \in Clients, client'[c] = "done"
      PROVE  /\ blob'[Conn(c)] # {}
             /\ "exporter" \in verdict'[c] <=> Peer(c) = "guest"
             /\ "key" \in verdict'[c] <=> PeerKey(c) = GUEST
  BY PlansKept DEF Concluded
<1>2. /\ blob[Conn(c)] # {}
      /\ "exporter" \in verdict'[c] <=> Peer(c) = "guest"
      /\ "key" \in verdict'[c] <=> PeerKey(c) = GUEST
  <2>1. CASE client[c] = "done" /\ verdict'[c] = verdict[c]
    BY <2>1 DEF Concluded
  <2>2. QED BY <1>1, <2>1, ClientMoves, ConcludeJudges
<1>3. blob'[Conn(c)] # {}
  <2>1. CASE Peer(c) = "guest"
    BY <1>2, <2>1, GuestBlobsStay, ConnsApart
  <2>2. CASE Peer(c) = "relay"
    <3>1. Conn(c) = <<c, "relay">> /\ Conn(c) \in Conns \ GuestConns
      BY <2>2, ConnsApart
    <3>2. CASE Answer
      <4>1. PICK y \in GuestConns, n \in Nonces : blob' = [blob EXCEPT ![y] = {Blob(y, n)}]
        BY <3>2, AnswerMakes
      <4>2. QED BY <1>2, <3>1, <4>1 DEF Domains
    <3>3. CASE RelaySend
      <4>1. PICK d \in Clients : /\ blob[Up] # {}
                                 /\ blob' = [blob EXCEPT ![<<d, "relay">>] = blob[Up]]
        BY <3>3, RelaySendPasses
      <4>2. QED BY <1>2, <3>1, <4>1 DEF Domains
    <3>4. QED BY <1>2, <3>2, <3>3, WireMoves
  <2>3. QED BY <2>1, <2>2, ConnsApart
<1>4. QED BY <1>2, <1>3

-----------------------------------------------------------------------------
(* The theorems. *)

LEMMA BindingInit ==
  ASSUME Init
  PROVE  BindingInv
<1> USE DEF Init
<1>1. Domains
  <2>1. line \in [Conns -> SUBSET Nonces] /\ DOMAIN blob = Conns /\ tls \in SUBSET Conns
    OBVIOUS
  <2>2. backlog \in Seq(GuestConns) /\ relayed \in SUBSET Clients
    OBVIOUS
  <2>3. log \in Seq(Entries)
    OBVIOUS
  <2>4. /\ client \in [Clients -> {"new", "connected", "asked", "done", "failed"}]
        /\ verdict \in [Clients -> SUBSET {"key", "exporter"}]
    OBVIOUS
  <2>5. QED BY <2>1, <2>2, <2>3, <2>4 DEF Domains
<1>2. OneServed /\ ServedOnce /\ OneRelayed
  BY DEF OneServed, ServedOnce, OneRelayed, Untried
<1>3. LinesTold /\ BlobsMade /\ Recorded /\ Concluded
  BY <1>1, ConnsApart DEF LinesTold, BlobsMade, Recorded, Concluded
<1>4. QED BY <1>1, <1>2, <1>3 DEF BindingInv

LEMMA BindingAlways == Spec => []BindingInv
<1>1. Init => BindingInv
  BY BindingInit
<1>2. BindingInv /\ [Next]_vars => BindingInv'
  BY DomainsKept, OneServedKept, ServedOnceKept, OneRelayedKept, LinesToldKept, BlobsMadeKept,
     RecordedKept, ConcludedKept DEF BindingInv
<1>3. QED BY <1>1, <1>2, PTL DEF Spec

(* server.py serves one connection at a time, none of them twice, and      *)
(* answers only what it has read.                                          *)
THEOREM TypeCorrect == Spec => []TypeOK
<1>1. BindingInv => TypeOK
  <2> SUFFICES ASSUME BindingInv PROVE TypeOK
    OBVIOUS
  <2> USE DEF BindingInv
  <2>1. Cardinality(serving) = (IF server \in {"serve", "record"} THEN 1 ELSE 0)
    BY FS_EmptySet, FS_Singleton DEF OneServed
  <2>2. \A i, j \in DOMAIN backlog : /\ backlog[i] \in Conns \ serving
                                     /\ backlog[i] = backlog[j] => i = j
    BY ConnsApart DEF ServedOnce, Domains
  <2>3. ASSUME NEW x \in Conns, blob[x] # {} PROVE line[x] # {}
    <3>1. x \in GuestConns \/ \E c \in Clients : x = <<c, "relay">>
      BY DEF Conns, GuestConns
    <3>2. QED BY <2>3, <3>1 DEF BlobsMade
  <2>4. QED BY <2>1, <2>2, <2>3 DEF TypeOK, Domains
<1>2. QED BY <1>1, BindingAlways, PTL

(* The exporter binder of exporter_client.py accepts exactly the clients   *)
(* whose TLS session ends at the guest, and the guest's log names them.    *)
THEOREM ExporterBinds == Spec => []ExporterMeansDirect
<1>1. BindingInv => ExporterMeansDirect
  <2> SUFFICES ASSUME BindingInv PROVE ExporterMeansDirect
    OBVIOUS
  <2> USE DEF BindingInv
  <2>1. SUFFICES ASSUME NEW c \in Clients, client[c] = "done"
        PROVE  /\ "exporter" \in verdict[c] <=> Peer(c) = "guest"
               /\ Conn(c) \notin serving =>
                    ("exporter" \in verdict[c] <=> \E i \in DOMAIN log : log[i] = Entry(Conn(c), TRUE))
    BY DEF ExporterMeansDirect
  <2>2. blob[Conn(c)] # {} /\ ("exporter" \in verdict[c] <=> Peer(c) = "guest")
    BY <2>1 DEF Concluded
  <2>3. ASSUME Peer(c) = "guest", Conn(c) \notin serving
        PROVE  \E i \in DOMAIN log : log[i] = Entry(Conn(c), TRUE)
    BY <2>2, <2>3, ConnsApart DEF Recorded
  <2>4. ASSUME NEW i \in DOMAIN log, log[i] = Entry(Conn(c), TRUE) PROVE Peer(c) = "guest"
    <3>1. log[i].exporter \in GuestConns /\ log[i].exporter = Conn(c)
      BY <2>4 DEF Domains, Entry, Entries
    <3>2. QED BY <3>1, ConnsApart
  <2>5. QED BY <2>2, <2>3, <2>4
<1>2. QED BY <1>1, BindingAlways, PTL

(* The key binder accepts whoever holds the guest's key: accepting it and  *)
(* not the exporter means a relay with that key, and whatever is accepted  *)
(* rests on a report made for this client's nonce.                         *)
THEOREM KeyBinds == Spec => []KeyBinderMeansKey
<1>1. BindingInv => KeyBinderMeansKey
  <2> SUFFICES ASSUME BindingInv PROVE KeyBinderMeansKey
    OBVIOUS
  <2> USE DEF BindingInv
  <2>1. SUFFICES ASSUME NEW c \in Clients, client[c] = "done"
        PROVE  /\ "key" \in verdict[c] <=> PeerKey(c) = GUEST
               /\ verdict[c] = {"key"} <=> (Peer(c) = "relay" /\ relay_key = GUEST)
               /\ verdict[c] # {} => \E x \in tls : x[2] = "guest" /\ line[x] = {nonce[c]}
    BY DEF KeyBinderMeansKey
  <2>2. /\ blob[Conn(c)] # {}
        /\ "exporter" \in verdict[c] <=> Peer(c) = "guest"
        /\ "key" \in verdict[c] <=> PeerKey(c) = GUEST
    BY <2>1 DEF Concluded
  <2>3. verdict[c] = {"key"} <=> (Peer(c) = "relay" /\ relay_key = GUEST)
    <3>1. verdict[c] \subseteq {"key", "exporter"} /\ Peer(c) \in {"guest", "relay"}
      BY ConnsApart DEF Domains
    <3>2. PeerKey(c) = GUEST <=> Peer(c) = "guest" \/ relay_key = GUEST
      BY <3>1 DEF PeerKey
    <3>3. QED BY <2>2, <3>1, <3>2
  <2>4. line[Conn(c)] = {nonce[c]}
    BY <2>1 DEF LinesTold
  <2>5. \E x \in tls : x[2] = "guest" /\ line[x] = {nonce[c]}
    <3>1. \A x \in GuestConns : x[2] = "guest"
      BY DEF GuestConns, Up
    <3>2. CASE Peer(c) = "guest"
      BY <2>2, <2>4, <3>1, <3>2, ConnsApart DEF BlobsMade
    <3>3. CASE Peer(c) = "relay"
      <4>1. c \in relayed /\ blob[Up] # {} /\ Up \in GuestConns
        BY <2>2, <3>3, ConnsApart DEF BlobsMade
      <4>2. Up \in tls /\ line[Up] # {}
        BY <4>1 DEF BlobsMade
      <4>3. line[Up] = {nonce[c]}
        BY <4>1, <4>2 DEF LinesTold, OneRelayed
      <4>4. QED BY <3>1, <4>1, <4>2, <4>3
    <3>4. QED BY <3>2, <3>3, ConnsApart
  <2>6. QED BY <2>2, <2>3, <2>5
<1>2. QED BY <1>1, BindingAlways, PTL
=============================================================================
