---------------------------- MODULE AzureEvidence ----------------------------
(***************************************************************************)
(* azure-cvm/azure_verify.py.  The paravisor's HCL report carries an       *)
(* SEV-SNP report and the runtime data whose digest is its REPORT_DATA;    *)
(* the runtime data carries the key of the vTPM that signs the quote.  The *)
(* certificates are those Azure's THIM service gave the machine.           *)
(***************************************************************************)
EXTENDS Evidence

\* The runtime data cut out of the HCL report; nothing without the magic HCLA.
RuntimeData(d) == IF d.hcl.magic THEN d.hcl.runtime ELSE <<>>

\* keys["HCLAkPub"] of the runtime data, when it is JSON and holds one.
AkPub(d) == IF d.hcl.magic /\ d.hcl.json THEN d.hcl.ak ELSE {}

\* kds == vcek, byte for byte; the request may fail.
SameAsKds(rep, vcek, net) == Reached(net, "kds", KdsVcek("Milan", rep)) = {vcek}

SnpReads(d, rep, net) ==
  LET passed == Passed(<< <<"thim", d.vcek # {} /\ d.chain # {}>>,
                          <<"report_sig_ok_thim_vcek", \A c \in d.vcek : SigOk(rep, c)>>,
                          <<"thim_chain_ok", \A c \in d.vcek, ch \in d.chain : ChainOk(c, ch)>> >>) IN
  passed
    \cup Flag(rep.data = Digest(RuntimeData(d)), "report_data_binds_runtime_json")
    \cup Flag("thim_chain_ok" \in passed /\ \A c \in d.vcek : HwidEquals(c, rep) = {TRUE},
            "thim_vcek_hwid_equals_chip_id")
    \cup Flag("thim_chain_ok" \in passed /\ \A c \in d.vcek : SameAsKds(rep, c, net),
            "kds_vcek_identical_to_thim_vcek")

\* The nonce is compared before the signature is checked; without the key there is only a note.
QuoteReads(d, q) ==
  IF ~q.attest THEN {}
  ELSE Flag(q.extra = Nonce(d), "extra_data_is_our_nonce")
         \cup Flag(\E ak \in AkPub(d) : q.signer = ak, "quote_sig_ok_with_HCLAkPub")

\* The key set is where the token's header says, else under its issuer.
MaaReads(tok, net) == Flag(TokenSigOk(tok, IF tok.jku = "-" THEN tok.iss ELSE tok.jku, net), "sig_ok")

\* A MAA token whose first two parts are no JSON ends the program before any summary is written.
AzureAborts(d) == \E tok \in d.token : tok.form # "jwt"

AzureReads(d, net) ==
  UNION ({{<<"snp", f>> : f \in SnpReads(d, rep, net)} : rep \in d.report}
    \cup {{<<"tpm_quote", f>> : f \in QuoteReads(d, q)} : q \in d.quote}
    \cup {{<<"maa", f>> : f \in MaaReads(tok, net)} : tok \in d.token})
=============================================================================
