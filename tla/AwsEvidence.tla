----------------------------- MODULE AwsEvidence -----------------------------
(***************************************************************************)
(* The verifiers of the AWS runs: aws-vlek/vlek_verify.py (reports signed  *)
(* with the provider's key), aws-vlek/idbind_verify.py (identity document  *)
(* bound to a report), aws-nitro/nitro_verify.py (enclave documents) and   *)
(* aws-nitro/nitrotpm_verify.py (NitroTPM quote), and the Credential       *)
(* Authority of tacra/tacra_verify.py.                                     *)
(***************************************************************************)
EXTENDS Evidence

-----------------------------------------------------------------------------
(* vlek_verify: leaf and chain are files of the run directory. *)

\* Fields of the second report that differ from the first; None without one.
Moved(rep, rep2) == {f \in {"guest", "chip_id", "tcb"} : rep2[f] # rep[f]}

VlekReads(d) ==
  UNION {UNION {
    Flag(rep.data = Nonce(d), "nonce_matches_public_sentence")
      \cup Flag(SigOk(rep, leaf), "report_sig_ok")
      \cup Flag(\E ch \in d.chain : ChainOk(leaf, ch), "chain")
      \cup Flag(\E rep2 \in d.report2 : Moved(rep, rep2) = {}, "nothing_moved") : leaf \in d.leaf} : rep \in d.report}

-----------------------------------------------------------------------------
(* idbind_verify: doc has the region it names, its bytes, and two          *)
(* signatures: signer made the PKCS#7 one, which may bring its maker's     *)
(* certificate along (embeds), rsa the detached one.                       *)

\* Keys of the certificates AWS publishes for the region; the page may be out of reach, which ends
\* the program.
RegionKey(region) == <<"AWS", region>>
RegionRsaKey(region) == <<"AWS RSA", region>>

\* openssl smime -verify -certfile ... -noverify: the signer's certificate may be the published one or
\* one out of the PKCS#7 itself, and nobody asks who issued it.
Pkcs7Verifies(doc) == doc.signer = RegionKey(doc.region) \/ doc.embeds

IdbindReads(d, net) ==
  UNION {UNION {
    Flag(Pkcs7Verifies(d.doc), "pkcs7")
      \cup Flag(d.doc.rsa = RegionRsaKey(d.doc.region), "rsa2048")
      \cup Flag(rep.data = Digest(Nonce(d) \o Digest(d.doc.bytes)), "report_data_is_sha512_nonce_docdigest")
      \cup Flag(SigOk(rep, vlek), "report_signature_ok")
      \cup Flag(\E ch \in Reached(net, "kds", KdsChain("vlek", "Milan")) : ChainOk(vlek, ch), "chain_to_ark_ok")
      \cup Flag(vlek.csp = d.doc.region, "csp_id_names_document_region") : vlek \in d.leaf} : rep \in d.report}

-----------------------------------------------------------------------------
(* nitro_verify: bundle is the document's cabundle, the root's certificate *)
(* first.                                                                  *)

NitroRoot == Cert(<<"nitro root">>, "-", "-", <<"nitro root">>)

NitroCA == {"nitro root", "nitro zone"}

\* AWS's authorities certify each other and enclaves, an enclave signs documents and no certificates.
Enclosed(doc) ==
  /\ Len(doc.bundle) \in Nat /\ DOMAIN doc.bundle = 1 .. Len(doc.bundle)
  /\ \A cert \in {doc.leaf} \cup {doc.bundle[i] : i \in DOMAIN doc.bundle} :
       /\ cert.issuer[1] # "enclave"
       /\ cert.issuer[1] \in NitroCA => cert.key[1] \in NitroCA \cup {"enclave"}
  /\ doc.signer[1] \notin NitroCA

\* leaf <- reversed(bundle) <- root, and the bundle starts with the root's certificate.
NitroChainOk(leaf, bundle) ==
  LET chain == <<leaf>> \o [i \in DOMAIN bundle |-> bundle[Len(bundle) + 1 - i]] \o <<NitroRoot>> IN
  /\ \A i \in 1 .. Len(chain) - 1 : chain[i].issuer = chain[i + 1].key
  /\ chain[Len(chain) - 1] = NitroRoot

NitroReads(d) ==
  UNION {
    Flag(doc.signer = doc.leaf.key, "signature_ok")
      \cup Flag(NitroChainOk(doc.leaf, doc.bundle), "chain_to_aws_root_ok")
      \cup Flag(doc.nonce = Nonce(d), "nonce_is_sha512_sentence")
      \cup Flag(doc.public_key # {} /\ doc.public_key = d.spki, "public_key_is_enclave_spki")
      \cup Flag(doc.bound /\ \E k \in d.spki : d.eph_signer = k, "ephemeral_sig_over_nonce_ok")
    : doc \in d.doc}

-----------------------------------------------------------------------------
(* nitrotpm_verify: the guest's EK against the EC2 API's; a quote under    *)
(* the AK file, over the nonce file, of the run directory.                 *)

NitroTpmReads(d) ==
  Flag(d.api_ek # {} /\ d.api_ek = {d.ek}, "api_ek_equals_guest_ek")
    \cup (LET passed == Passed(<< <<"quote_signature_ok", d.quote.signer = d.ak>> >>) IN
          passed \cup Flag(passed # {} /\ d.quote.extra = d.nonce256, "quote_extra_data_is_sha256_sentence"))

-----------------------------------------------------------------------------
(* tacra_verify: the CA's nonce, the CSR, the report and the certificate   *)
(* the attester sent.                                                      *)

\* REPORT_DATA == SHA-512(nonce || CSR)
BindingOk(d, rep) == rep.data = Digest(d.nonce \o d.csr.bytes)

\* hwID is printed, and not asked for.
IssueWhen == {"binding", "report_signature_ok", "chain_to_ARK_Milan", "CSR_proof_of_possession", "CSKpub_matches"}

TacraReads(d, net) ==
  UNION {LET checks ==
    Flag(BindingOk(d, rep), "binding")
      \cup Flag(\E vcek \in d.leaf : SigOk(rep, vcek), "report_signature_ok")
      \cup Flag(\E vcek \in d.leaf, ch \in Reached(net, "kds", KdsChain("vcek", "Milan")) : ChainOk(vcek, ch),
              "chain_to_ARK_Milan")
      \cup Flag(\E vcek \in d.leaf : HwidEquals(vcek, rep) = {TRUE}, "hwID==CHIP_ID")
      \cup Flag(d.csr.signer = d.csr.key, "CSR_proof_of_possession")
      \cup Flag(d.csk_pub = {} \/ d.csk_pub = {d.csr.key}, "CSKpub_matches")
    IN checks \cup Flag(IssueWhen \subseteq checks, "ISSUE_CREDENTIAL") : rep \in d.report}
=============================================================================
