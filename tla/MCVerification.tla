---------------------------- MODULE MCVerification ----------------------------
(* Values for TLC: run directories whose parts are genuine, made up,       *)
(* borrowed from another machine, or outdated.                             *)
EXTENDS Verification, TLC

MCChips == {"c1", "c2", "c3"}
MCProductOf == [c \in MCChips |-> IF c = "c2" THEN "Genoa" ELSE "Milan"]

S == <<"s">>                        \* the public sentence
N == Digest(S)                      \* its digest
Old == Digest(<<"old">>)
Vcek(chip, cpu, data) == Report("VCEK", chip, "t1", cpu, "g", data, VcekKey(chip, "t1"))
MadeUp(data) == Report("VCEK", "c1", "t1", "-", "g", data, Foreign)
MaskedReport(data) == Report("VCEK", ZERO, "t1", "-", "g", data, VcekKey("c1", "t1"))
VlekReport(csp, data) == Report("VLEK", ZERO, "t1", "-", "g", data, VlekKey(csp))
SelfMade == Cert(Foreign, "c1", "eu", Foreign)

\* Runs of the ledger and the report verifier.
Dir(reports, certs) == [reports |-> reports, table |-> certs, named |-> reports, certs |-> certs]
LaterTcb == Report("VCEK", "c1", "t2", "Milan", "g", N, VcekKey("c1", "t2"))
ReportRuns == {
  Dir(<<Vcek("c1", "-", N), Vcek("c1", "Milan", N)>>, {}),
  Dir(<<LaterTcb>>, {}),
  Dir(<<Vcek("c1", "Milan", N), Vcek("c3", "Milan", N)>>, {}),
  Dir(<<Vcek("c2", "Genoa", N)>>, {}),
  Dir(<<MaskedReport(N)>>, {VcekCert("c1", "t1"), SelfMade}),
  Dir(<<VlekReport("eu", N)>>, {VlekCert("eu")}),
  Dir(<<MadeUp(N), MadeUp(N)>>, {SelfMade}),
  Dir(<<Vcek("c1", "Milan", N), MadeUp(N)>>, {VcekCert("c1", "t1")}),
  \* Reports in files of another name or size, certificates that only one program reads.
  [Dir(<<Vcek("c1", "Milan", N)>>, {}) EXCEPT !.reports = <<MadeUp(N), Vcek("c1", "Milan", N)>>],
  [Dir(<<MadeUp(N)>>, {}) EXCEPT !.reports = <<>>],
  [Dir(<<MaskedReport(N)>>, {VcekCert("c1", "t1")}) EXCEPT !.named = <<>>, !.table = {}]}
MCDirSequences == [1 .. 3 -> ReportRuns]

-----------------------------------------------------------------------------

MCKeysAt == [google |-> [k1 |-> <<"google">>], elsewhere |-> [k1 |-> Foreign]]
MCIssuerAt == [google |-> <<"google">>, elsewhere |-> Foreign]
MCServices ==
  [gcp_verify |-> {"kds", "chain", "intel", "aia", "keys"},
   bind_verify |-> {"r0", "r-ek", "r-jwt", "chain"}, azure_verify |-> {"kds", "keys"},
   vlek_verify |-> {}, idbind_verify |-> {"docs", "kds"}, nitro_verify |-> {"root"},
   nitrotpm_verify |-> {}, tacra_verify |-> {"kds"}, verify_run |-> {"kds", "chain"}, none |-> {}]

MilanReports(data) == {Vcek("c1", "-", data), MadeUp(data), Vcek("c2", "Genoa", data)}

Tokens == [form : {"jwt", "text", "broken"}, iss : {"google", "elsewhere"}, jku : {"-"}, kid : {"k1", "k2"},
           signer : {<<"google">>, Foreign}, bytes : {<<"token">>}, values : {{<<"z1">>}}]
Token == [form |-> "jwt", iss |-> "google", jku |-> "-", kid |-> "k1", signer |-> <<"google">>,
          bytes |-> <<"token">>, values |-> {<<"z1">>, <<"z1", "-bind">>}]
Ek == [parses |-> TRUE, aia |-> "google", issuer |-> <<"google">>, bytes |-> <<"ek">>, values |-> {<<"z1">>}]
Eks == {Ek, [Ek EXCEPT !.parses = FALSE], [Ek EXCEPT !.issuer = Foreign], [Ek EXCEPT !.issuer = Foreign, !.aia = "elsewhere"]}

\* TDX quotes; the platform signs only reports of its quoting enclave, Intel only platform keys.
Pck == Cert(G!PckKey, "-", "-", <<"intel root">>)
Quotes ==
  {q \in [whole : {TRUE}, signer : {G!QuotingKey, Foreign}, ak : {G!QuotingKey, Foreign}, data : {N, Old}, cert_data_type : {5, 6},
          qe : [data : {Digest(G!QuotingKey), Digest(Foreign)}, signer : {G!PckKey, Foreign}],
          pck : {<<Pck, G!IntelRoot>>, <<SelfMade>>, <<SelfMade, G!IntelRoot>>}] :
     q.qe.signer = G!PckKey => q.qe.data = Digest(G!QuotingKey)}
CutQuotes == {[q EXCEPT !.whole = FALSE] : q \in {q \in Quotes : q.signer = G!QuotingKey /\ q.data = N}}

GoogleDir(report, quote, ek, token) ==
  [sentence |-> S, report |-> report, quote |-> quote, ek |-> ek, token |-> token]
GoogleDirs ==
  {GoogleDir({r}, {}, {Ek}, {Token}) : r \in MilanReports(N) \cup MilanReports(Old)}
    \cup {GoogleDir({}, {q}, {}, {}) : q \in Quotes \cup CutQuotes}
    \cup {GoogleDir({}, {}, {ek}, {tok}) : ek \in Eks, tok \in Tokens}

\* r0, r-ek, r-jwt: genuine ones of either chip, made-up ones, and such with other data.
BindData(n) == CASE n = "r0" -> N
                 [] n = "r-ek" -> Digest(N \o Digest(<<"ek">>))
                 [] n = "r-jwt" -> Digest(N \o Digest(<<"token">>))
BindReports(n) == {{}, {Vcek("c1", "-", BindData(n))}, {Vcek("c3", "-", BindData(n))}, {MadeUp(BindData(n))},
                   {Vcek("c1", "-", Old)}}
BindDirs ==
  {[sentence |-> S, zone |-> "z1", ek |-> ek, token |-> {Token},
    reports |-> ("r0" :> r0) @@ ("r-ek" :> rek) @@ ("r-jwt" :> rjwt)] :
     ek \in {{}, {Ek}}, r0 \in BindReports("r0"), rek \in BindReports("r-ek"), rjwt \in BindReports("r-jwt")}

\* The paravisor's runtime data names the vTPM's key; made-up runtime data its maker's, and a guest
\* can have its chip sign them too.
Hcl(magic, json, runtime, ak) == [magic |-> magic, json |-> json, runtime |-> runtime, ak |-> ak]
AzureQuote == [attest : BOOLEAN, extra : {N, Old}, signer : {<<"vtpm">>, Foreign}]
AzureDirs ==
  {[sentence |-> S, hcl |-> hcl, report |-> {r}, vcek |-> vcek, chain |-> chain, quote |-> {q}, token |-> {Token}] :
     hcl \in {Hcl(TRUE, TRUE, <<"rt">>, {<<"vtpm">>}), Hcl(TRUE, TRUE, <<"forged">>, {Foreign}),
              Hcl(TRUE, FALSE, <<"cut">>, {}), Hcl(FALSE, FALSE, <<>>, {})},
     r \in {Vcek("c1", "-", Digest(<<"rt">>)), MadeUp(Digest(<<"forged">>)), Vcek("c3", "-", Digest(<<"rt">>)),
            Vcek("c1", "-", Digest(<<"forged">>))},
     vcek \in {{}, {VcekCert("c1", "t1")}, {SelfMade}},
     chain \in {{}, KdsChain("vcek", "Milan"), {<<SelfMade, SelfMade>>}},
     q \in AzureQuote}
  \cup {[sentence |-> S, hcl |-> Hcl(FALSE, FALSE, <<>>, {}), report |-> {}, vcek |-> {}, chain |-> {},
         quote |-> {}, token |-> {[tok EXCEPT !.jku = jku]}] : tok \in Tokens, jku \in {"-", "elsewhere"}}

VlekDirs ==
  {[sentence |-> S, report |-> {r}, report2 |-> r2, leaf |-> {leaf}, chain |-> chain] :
     r \in {VlekReport("eu", N), VlekReport("eu", Old), MadeUp(N)},
     r2 \in {{}, {VlekReport("eu", N)}, {Vcek("c1", "-", N)}},
     leaf \in {VlekCert("eu"), VcekCert("c1", "t1"), SelfMade},
     chain \in {{}, KdsChain("vlek", "Milan"), {<<SelfMade, SelfMade>>}}}

IdbindDirs ==
  {[sentence |-> S, doc |-> [region |-> region, bytes |-> bytes, signer |-> signer, embeds |-> embeds, rsa |-> rsa], report |-> {r}, leaf |-> {leaf}] :
     region \in {"eu", "us"}, embeds \in BOOLEAN, rsa \in {A!RegionRsaKey("eu"), Foreign}, bytes \in {<<"doc">>, <<"other">>}, signer \in {A!RegionKey("eu"), Foreign},
     r \in {VlekReport("eu", Digest(N \o Digest(<<"doc">>))), VlekReport("us", Digest(N \o Digest(<<"doc">>))),
            MadeUp(Digest(N \o Digest(<<"doc">>)))},
     leaf \in {VlekCert("eu"), VlekCert("us"), SelfMade}}

\* Enclave documents: leaf <- zone <- root; the enclave's key signs documents, not certificates.
EnclaveLeaf == Cert(<<"enclave">>, "-", "-", <<"nitro zone">>)
NitroZone == Cert(<<"nitro zone">>, "-", "-", <<"nitro root">>)
NitroDirs ==
  {[sentence |-> S, spki |-> spki, eph_signer |-> eph,
    doc |-> {[bound |-> bound, leaf |-> leaf, bundle |-> bundle, signer |-> signer, nonce |-> nonce,
              public_key |-> pk]}] :
     spki \in {{}, {<<"eph">>}}, eph \in {<<"eph">>, Foreign}, bound \in BOOLEAN,
     leaf \in {EnclaveLeaf, SelfMade},
     bundle \in {<<A!NitroRoot, NitroZone>>, <<NitroZone>>, <<SelfMade>>, <<A!NitroRoot, SelfMade>>, <<>>},
     signer \in {<<"enclave">>, Foreign}, nonce \in {N, Old}, pk \in {{}, {<<"eph">>}}}

NitroTpmDirs ==
  {[sentence |-> S, nonce256 |-> N, ek |-> <<"ek">>, api_ek |-> api, ak |-> ak,
    quote |-> [signer |-> signer, extra |-> extra]] :
     api \in {{}, {<<"ek">>}, {Foreign}}, ak \in {<<"ak">>, Foreign}, signer \in {<<"ak">>, Foreign}, extra \in {N, Old}}

TacraDirs ==
  {[nonce |-> <<"nonce">>, csr |-> csr, csk_pub |-> csk, leaf |-> leaf, report |-> {r}] :
     csr \in [bytes : {<<"csr">>, <<"other csr">>}, key : {<<"csk">>}, signer : {<<"csk">>, Foreign}],
     csk \in {{}, {<<"csk">>}, {Foreign}}, leaf \in {{}, {VcekCert("c1", "t1")}, {SelfMade}},
     r \in {Vcek("c1", "-", Digest(<<"nonce", "csr">>)), Vcek("c1", "-", Digest(<<"old nonce", "csr">>)),
            MadeUp(Digest(<<"nonce", "csr">>)), MaskedReport(Digest(<<"nonce", "csr">>))}}

\* Sessions of two guests with one key, a third with a key of its own; the reports each has asked for,
\* one that another guest with the leaked key has asked for, a made-up one, and directories that mix them.  A change-cipher-spec record may come first.
Rec(type, hs_type, body) == [type |-> type, hs_type |-> hs_type, body |-> body]
Session(endpoint, spki, suite) ==
  [endpoint |-> endpoint, spki |-> spki, suite |-> suite,
   client_flight |-> <<Rec(Y!HANDSHAKE, Y!ClientHello, <<"ch", endpoint>>), Rec(Y!CCS, 0, <<>>)>>,
   server_flight |-> <<Rec(Y!CCS, 0, <<>>), Rec(Y!HANDSHAKE, Y!ServerHello, <<"sh", endpoint>>), Rec(Y!HANDSHAKE, 8, <<"ee">>)>>]
EarlySessions ==
  {Session("S", <<"tik">>, "AES_256_GCM"), Session("A", <<"tik">>, "CHACHA20"), Session("O", <<"own">>, "AES_256_GCM")}
ChipOf == [S |-> "c1", A |-> "c3", O |-> "c2"]
BinderOf(ses) ==
  Y!IntoReportData(Y!ServerBinder(CHOOSE tr \in Y!Transcript(ses) : TRUE, ses.spki, Y!SuiteHash(ses.suite)))
EarlyReport(ses) ==
  Report("VCEK", ChipOf[ses.endpoint], "t1", "-", ses.endpoint, BinderOf(ses), VcekKey(ChipOf[ses.endpoint], "t1"))
LeakedKeyReport ==
  [EarlyReport(Session("S", <<"tik">>, "AES_256_GCM")) EXCEPT !.guest = "A", !.chip_id = "c3", !.signer = VcekKey("c3", "t1")]
EarlyGuestDirs ==
  {[session |-> ses, hs |-> hs, report |-> report, vcek |-> vcek] :
     ses \in EarlySessions, hs \in {{}, {"sha384"}, {"sha256"}},
     report \in {{EarlyReport(x)} : x \in EarlySessions} \cup {{}, {LeakedKeyReport}, {[EarlyReport(Session("A", <<"tik">>, "CHACHA20")) EXCEPT !.signer = Foreign]}},
     vcek \in {{}, {VcekCert("c1", "t1")}, {SelfMade}}}
EarlyDirs ==
  {[server |-> s, attacker |-> a] :
     s \in {d \in EarlyGuestDirs : d.session.endpoint = "S" /\ d.vcek = {VcekCert("c1", "t1")}}, a \in EarlyGuestDirs}
  \cup {[server |-> d, attacker |-> d] : d \in {d \in EarlyGuestDirs : d.report = {LeakedKeyReport}}}

MCDirectories ==
  [gcp_verify |-> GoogleDirs, bind_verify |-> BindDirs, azure_verify |-> AzureDirs, vlek_verify |-> VlekDirs,
   idbind_verify |-> IdbindDirs, nitro_verify |-> NitroDirs, nitrotpm_verify |-> NitroTpmDirs,
   tacra_verify |-> TacraDirs, verify_run |-> EarlyDirs]
=============================================================================
