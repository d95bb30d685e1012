---------------------------- MODULE GoogleEvidence ----------------------------
(***************************************************************************)
(* gcp-cvm/gcp_verify.py and gcp-cvm/bind_verify.py: what a run directory  *)
(* of a Google machine shows when AMD's, Intel's and Google's services can *)
(* be reached, or some of them.  A directory d has a public sentence, the  *)
(* zone of the metadata server, and sets of at most one report, quote, EK  *)
(* certificate and token.                                                  *)
(***************************************************************************)
EXTENDS Evidence

IntelRoot == Cert(<<"intel root">>, "-", "-", <<"intel root">>)
PckKey == <<"PCK">>
QuotingKey == <<"AK">>         \* attestation key of a genuine quoting enclave

\* Intel's root certifies platform keys and itself, a platform certifies nothing and signs only the
\* reports of its quoting enclave, whoever put the quote together.
Quoted(q) ==
  /\ q.ak \in Seq(STRING) /\ Len(q.pck) \in Nat \ {0} /\ DOMAIN q.pck = 1 .. Len(q.pck)
  /\ \A i \in DOMAIN q.pck :
       /\ q.pck[i].issuer # PckKey
       /\ q.pck[i].issuer = IntelRoot.key => q.pck[i].key \in {PckKey, IntelRoot.key}
  /\ q.qe.signer # IntelRoot.key
  /\ q.qe.signer = PckKey => q.qe.data = Digest(QuotingKey)

-----------------------------------------------------------------------------
(* gcp_verify.  Some names in a row ("vcek", "cert_chain", "type_6",       *)
(* "intel_root") are no flags of the program but its steps that may fail.  *)

SnpChecks(rep, net) ==
  LET vcek == Reached(net, "kds", KdsVcek("Milan", rep))
      chain == Reached(net, "chain", KdsChain("vcek", "Milan")) IN
  << <<"vcek", vcek # {}>>, <<"cert_chain", chain # {}>>,
     <<"report_sig_ok", \A c \in vcek : SigOk(rep, c)>>,
     <<"chain_ok", \A c \in vcek, ch \in chain : ChainOk(c, ch)>>,
     <<"vcek_hwid_equals_chip_id", \A c \in vcek : HwidEquals(c, rep) = {TRUE}>> >>

SnpReads(d, rep, net) ==
  Passed(SnpChecks(rep, net)) \cup Flag(rep.data = Nonce(d), "nonce_ok")

\* qe_report[320:352] == SHA-256(ak || auth)
QeBinds(q) == q.qe.data = Digest(q.ak)

\* Certification data of type 6 carries the QE report and the PCK chain.
TdxReads(d, q, net) ==
  LET passed == Passed(<< <<"quote_sig_ok", q.signer = q.ak>>,
                          <<"type_6", q.cert_data_type = 6>>,
                          <<"qe_report_sig_ok", q.qe.signer = q.pck[1].key>>,
                          <<"pck_chain", SelfContained(q.pck)>>,
                          <<"intel_root", "intel" \in net>> >>) IN
  passed
    \cup Flag("type_6" \in passed /\ QeBinds(q), "qe_binds_ak")
    \cup Flag("intel_root" \in passed /\ q.pck[Len(q.pck)] = IntelRoot, "root_is_intel_sgx_root")
    \cup Flag(q.data = Nonce(d), "nonce_ok")

\* The issuer is the certificate at the caIssuers URL the EK certificate names.
EkReads(ek, net) ==
  Flag(ek.parses /\ "aia" \in net /\ ek.aia \in DOMAIN IssuerAt /\ ek.issuer = IssuerAt[ek.aia], "issuer_sig_ok")

\* A token that is not three parts is reported; the issuer's keys are found through OpenID discovery.
JwtReads(tok, net) == Flag(tok.form = "jwt" /\ TokenSigOk(tok, tok.iss, net), "sig_ok")

\* A token of three parts that are no JSON, an EK certificate that is none, or a quote cut short ends
\* the program before any summary is written.
GcpAborts(d) ==
  \/ \E tok \in d.token : tok.form = "broken"
  \/ \E ek \in d.ek : ~ek.parses
  \/ \E q \in d.quote : ~q.whole

Tagged(section, flags) == {<<section, f>> : f \in flags}

GcpReads(d, net) ==
  UNION ({Tagged("snp", SnpReads(d, rep, net)) : rep \in d.report}
    \cup {Tagged("tdx", TdxReads(d, q, net)) : q \in d.quote}
    \cup {Tagged("ek", EkReads(ek, net)) : ek \in d.ek}
    \cup {Tagged("token", JwtReads(tok, net)) : tok \in d.token})

-----------------------------------------------------------------------------
(* bind_verify *)

Names == <<"r0", "r-ek", "r-jwt">>

\* What the probe has put into REPORT_DATA; r-ek is not checked without an EK certificate.
Expected(d, name) ==
  CASE name = "r0" -> {Nonce(d)}
    [] name = "r-ek" -> {Digest(Nonce(d) \o Digest(ek.bytes)) : ek \in d.ek}
    [] name = "r-jwt" -> {Digest(Nonce(d) \o Digest(tok.bytes)) : tok \in d.token}

\* Seeded fault: each report is verified with the certificate of its own CHIP_ID.
MutVcekAt(d, up, i) == UNION {Reached(up, Names[i], KdsVcek("Milan", rep)) : rep \in d.reports[Names[i]]}

\* The certificate that serves report i: once one has been fetched it serves all; until then every
\* report asks again.  up: the reports whose request, if there is one, gets an answer.
VcekAt(d, up, i) ==
  LET asked == {j \in 1 .. i : Names[j] \in up /\
                  \E rep \in d.reports[Names[j]] : KdsVcek("Milan", rep) # {}}
  IN IF asked = {} THEN {}
     ELSE LET j == CHOOSE k \in asked : \A m \in asked : k <= m
          IN UNION {KdsVcek("Milan", rep) : rep \in d.reports[Names[j]]}

\* up also says whether the chain was there at the start, and the services of the other checks.
BindReportReads(d, up, i) ==
  UNION {(UNION {
    Flag(SigOk(rep, c), "signature_ok_with_kds_vcek")
      \cup Flag(\E ch \in Reached(up, "chain", KdsChain("vcek", "Milan")) : ChainOk(c, ch), "vcek_chain_to_ark_ok")
      \cup Flag(HwidEquals(c, rep) = {TRUE}, "hwid_equals_chip_id") : c \in VcekAt(d, up, i)})
    \cup Flag({rep.data} = Expected(d, Names[i]), "report_data_binding_ok") : rep \in d.reports[Names[i]]}

\* find_zone: some value of the record, wherever it stands, ends with the zone.  A value is the
\* sequence of its parts.
NamesZone(values, zone) == \E v \in values : v[Len(v)] = zone

BindReads(d, up) ==
  UNION ({Tagged(Names[i], BindReportReads(d, up, i)) : i \in 1 .. 3}
    \cup {Tagged("ek", EkReads(ek, up) \cup Flag(ek.parses /\ NamesZone(ek.values, d.zone), "names_zone")) : ek \in d.ek}
    \cup {Tagged("token", JwtReads(tok, up) \cup
             Flag(tok.form = "jwt" /\ NamesZone(tok.values, d.zone), "names_zone")) : tok \in d.token})
=============================================================================
