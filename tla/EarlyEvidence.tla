---------------------------- MODULE EarlyEvidence ----------------------------
(***************************************************************************)
(* early-attestation: the binder of draft-fossati-seat-early-attestation-06*)
(* (binder.py), the handshake a guest captures (handshake_stdlib.py, the   *)
(* same as handshake.py), the client's decision (verify.py) and the        *)
(* verification of the directories of two guests (verify_run.py).          *)
(***************************************************************************)
EXTENDS Evidence

-----------------------------------------------------------------------------
(* binder.py: HKDF as a digest of all it is given. *)

ExpandLabel(secret, label, context, hash) == Digest(<<hash, label>> \o secret \o context)

\* The label of the first derivation.
BaseLabel == "attestation base"

\* Seeded fault: the key alone is bound.
MutAttestBase(transcript, hash) == ExpandLabel(<<ZERO>>, BaseLabel, <<>>, hash)

AttestBase(transcript, hash) == ExpandLabel(<<ZERO>>, BaseLabel, Digest(<<hash>> \o transcript), hash)

ServerBinder(transcript, spki, hash) ==
  ExpandLabel(AttestBase(transcript, hash), "attestation", Digest(<<hash>> \o spki), hash)

\* Zero-padded to 64 bytes.
IntoReportData(binder) == binder \o <<ZERO>>

-----------------------------------------------------------------------------
(* handshake_stdlib.py: a flight is a sequence of records.                 *)

CCS == 20
HANDSHAKE == 22
ClientHello == 1
ServerHello == 2

\* The first handshake message of the flight, if it is of the wanted type.
FirstHsMsg(flight, want) ==
  LET hs == SelectSeq(flight, LAMBDA r : r.type = HANDSHAKE) IN
  IF hs # <<>> /\ hs[1].hs_type = want THEN {hs[1].body} ELSE {}

SuiteHash(suite) == IF suite = "AES_256_GCM" THEN "sha384" ELSE "sha256"

\* ch + sh, or an assertion fails and nothing is captured.
Transcript(session) ==
  {ch \o sh : ch \in FirstHsMsg(session.client_flight, ClientHello), sh \in FirstHsMsg(session.server_flight, ServerHello)}

\* REPORT_DATA is the binder of this session.  The firmware signs whatever it is asked to, so a guest
\* can have it for the session of any other whose key it has.
MadeFor(rep, session) ==
  \E tr \in Transcript(session) :
    rep.data = IntoReportData(ServerBinder(tr, session.spki, SuiteHash(session.suite)))

-----------------------------------------------------------------------------
(* verify.py and verify_run.py.  A directory: the session whose transcript *)
(* and key it has, cap-hs.json's hash (or no such file), the report and    *)
(* the VCEK the hypervisor handed over (or none).                          *)

\* The client's decision of Section 5.1.2.
Accepts(transcript, spki, rep, cert, hash) ==
  rep.data = IntoReportData(ServerBinder(transcript, spki, hash)) /\ SigOk(rep, cert)

\* "sha384" without cap-hs.json
HashOf(d) == IF d.hs = {} THEN "sha384" ELSE CHOOSE h \in d.hs : TRUE

\* The VCEK of the directory, or else the one KDS has.
Leaf(d, rep, net) == IF d.vcek # {} THEN d.vcek ELSE Reached(net, "kds", KdsVcek("Milan", rep))

\* one: the flags of a directory.
One(d, net) ==
  UNION {
    Flag(\E tr \in Transcript(d.session) : rep.data = IntoReportData(ServerBinder(tr, d.session.spki, HashOf(d))), "binder_match")
      \cup Flag(\E vcek \in Leaf(d, rep, net) : SigOk(rep, vcek), "report_signature_ok")
      \cup Flag(\E vcek \in Leaf(d, rep, net), ch \in Reached(net, "chain", KdsChain("vcek", "Milan")) : ChainOk(vcek, ch), "chain_to_ARK_Milan")
      \cup Flag(\E vcek \in Leaf(d, rep, net) : HwidEquals(vcek, rep) = {TRUE}, "hwid_equals_chip_id")
      \cup Flag(/\ \E tr \in Transcript(d.session), vcek \in Leaf(d, rep, net) : Accepts(tr, d.session.spki, rep, vcek, HashOf(d))
                /\ \E vcek \in Leaf(d, rep, net), ch \in Reached(net, "chain", KdsChain("vcek", "Milan")) : ChainOk(vcek, ch),
              "accept")
    : rep \in d.report}

\* The control: a report of one directory in the session of the other.
InSessionOf(from, to) ==
  \E rep \in from.report, tr \in Transcript(to.session) :
    rep.data = IntoReportData(ServerBinder(tr, to.session.spki, HashOf(to)))

\* The control reads cap-hs.json without the default that "one" has; no report, no row.
EarlyAborts(d) == \E x \in {d.server, d.attacker} : x.hs = {} \/ x.report = {} \/ Transcript(x.session) = {}

EarlyReads(d, net) ==
  ({"server"} \X One(d.server, net)) \cup ({"attacker"} \X One(d.attacker, net))
    \cup ({"naive_relay"} \X (Flag(InSessionOf(d.server, d.attacker), "server_report_in_attacker_session")
                                \cup Flag(InSessionOf(d.attacker, d.server), "attacker_report_in_server_session")))
=============================================================================
