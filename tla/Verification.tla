---------------------------- MODULE Verification ----------------------------
(***************************************************************************)
(* The operator's machine: the ledger and the report verifier over the run *)
(* directories with AMD reports, and one of the other verifiers over a run *)
(* directory of its cloud.  What each program concludes is set against who *)
(* really made what it was shown.                                          *)
(***************************************************************************)
EXTENDS DualVerify, Evidence

G == INSTANCE GoogleEvidence
Z == INSTANCE AzureEvidence
A == INSTANCE AwsEvidence
Y == INSTANCE EarlyEvidence

CONSTANTS
  DirSequences,       \* run directories with AMD reports, in the order they are read
  Directories,        \* run directories of the other verifiers: program -> set
  Services,           \* program -> services it asks
  Sessions            \* the TLS sessions that guests have terminated

\* The files of a run directory are anyone's, and nobody has forged a key of AMD's.
Lawful(dirs) ==
  /\ Len(dirs) \in Nat /\ DOMAIN dirs = 1 .. Len(dirs)
  /\ \A i \in DOMAIN dirs :
       /\ \A files \in {dirs[i].reports, dirs[i].named} :
            /\ Len(files) \in Nat /\ DOMAIN files = 1 .. Len(files)
            /\ \A r \in DOMAIN files : Unforged(files[r])
       /\ \A cert \in dirs[i].certs : Issued(cert)

\* What a report, a certificate, a quote or a document of any run directory can be: nobody signs
\* with a key that is not theirs.
AtMostOne(files) == \A x, y \in files : x = y
Reports(files) == AtMostOne(files) /\ \A rep \in files : Unforged(rep)
Certificates(files) == AtMostOne(files) /\ \A cert \in files : Issued(cert)

LawfulGuest(g) == g.session \in Sessions /\ Reports(g.report) /\ Certificates(g.vcek)

LawfulDir(p, d) ==
  /\ p = "gcp_verify" => /\ \A files \in {d.report, d.quote, d.ek, d.token} : AtMostOne(files)
                         /\ \A q \in d.quote : G!Quoted(q)
  /\ p = "bind_verify" => \A n \in {"r0", "r-ek", "r-jwt"} : Reports(d.reports[n])
  /\ p = "azure_verify" => /\ Reports(d.report) /\ AtMostOne(d.vcek) /\ AtMostOne(d.quote)
  /\ p \in {"vlek_verify", "idbind_verify", "tacra_verify"} => Reports(d.report) /\ Certificates(d.leaf)
  /\ p = "nitro_verify" => AtMostOne(d.doc) /\ \A doc \in d.doc : A!Enclosed(doc)
  /\ p = "verify_run" => LawfulGuest(d.server) /\ LawfulGuest(d.attacker)

ASSUME DirectoriesAssumption == \A p \in DOMAIN Directories : \A d \in Directories[p] : LawfulDir(p, d)

\* The bytes of a TLS transcript are no brackets of a digest.
ASSUME SessionsAssumption ==
  \A ses \in Sessions : ses.spki \in Seq(STRING) /\ Y!Transcript(ses) \subseteq Seq(STRING \ {")"})

\* Google's keys are Google's.
ASSUME PublishersAssumption ==
  /\ "google" \in DOMAIN KeysAt => \A kid \in DOMAIN KeysAt["google"] : KeysAt["google"][kid] # Foreign
  /\ "google" \in DOMAIN IssuerAt => IssuerAt["google"] # Foreign

ASSUME RunsAssumption == \A dirs \in DirSequences : Lawful(dirs)

VARIABLES
  program, dir,       \* the verifier that is run and what it is run on
  row,                \* the flags that read True
  pc                  \* "read", then "written" or "aborted"

appraisalVars == <<program, dir, row, pc>>
vars == <<runs, ledgerVars, dualVars, appraisalVars>>

\* Either the two programs about AMD reports have run directories, or another verifier has one.
Init ==
  /\ LedgerInit /\ DualInit
  /\ row = {} /\ pc = "read"
  /\ \/ runs \in DirSequences /\ program = "none" /\ dir = {}
     \/ runs = <<>> /\ \E p \in DOMAIN Directories : program = p /\ \E d \in Directories[p] : dir = {d}

\* What the program writes into its summary when these services answer.
Reads(p, d, net) ==
  CASE p = "gcp_verify" -> G!GcpReads(d, net)
    [] p = "bind_verify" -> G!BindReads(d, net)
    [] p = "azure_verify" -> Z!AzureReads(d, net)
    [] p = "vlek_verify" -> A!VlekReads(d)
    [] p = "idbind_verify" -> A!IdbindReads(d, net)
    [] p = "nitro_verify" -> A!NitroReads(d)
    [] p = "nitrotpm_verify" -> A!NitroTpmReads(d)
    [] p = "tacra_verify" -> A!TacraReads(d, net)
    [] p = "verify_run" -> Y!EarlyReads(d, net)

\* An exception outside every try block: no summary for any run.
Aborts(p, d, net) ==
  \/ p = "gcp_verify" /\ G!GcpAborts(d)
  \/ p = "azure_verify" /\ Z!AzureAborts(d)
  \/ p = "idbind_verify" /\ "docs" \notin net
  \/ p = "nitro_verify" /\ "root" \notin net
  \/ p = "verify_run" /\ Y!EarlyAborts(d)

Appraise ==
  /\ pc = "read"
  /\ \E d \in dir, net \in SUBSET Services[program] :
       IF Aborts(program, d, net) THEN pc' = "aborted" /\ UNCHANGED row
       ELSE pc' = "written" /\ row' = Reads(program, d, net)
  /\ UNCHANGED <<runs, ledgerVars, dualVars, program, dir>>

Next ==
  \/ LedgerStep /\ UNCHANGED <<dualVars, appraisalVars>>
  \/ DualStep /\ UNCHANGED <<ledgerVars, appraisalVars>>
  \/ Appraise

Spec == Init /\ [][Next]_vars

-----------------------------------------------------------------------------

Tags(section, flags) == {<<section, f>> : f \in flags}

SnpFlags == {"report_sig_ok", "chain_ok", "vcek_hwid_equals_chip_id", "nonce_ok"}
TdxFlags == {"quote_sig_ok", "qe_binds_ak", "qe_report_sig_ok", "pck_chain", "root_is_intel_sgx_root", "nonce_ok"}
BindFlags == {"signature_ok_with_kds_vcek", "vcek_chain_to_ark_ok", "hwid_equals_chip_id", "report_data_binding_ok"}
AzureFlags == {"report_sig_ok_thim_vcek", "thim_chain_ok", "thim_vcek_hwid_equals_chip_id",
               "kds_vcek_identical_to_thim_vcek", "report_data_binds_runtime_json"}

OfItsChip(rep) == rep.signer = VcekKey(rep.chip_id, rep.tcb)

\* A Google report or quote that reads well was made on genuine hardware over the public nonce; a
\* token, or an EK certificate, that points to Google was signed by Google.
GoogleTrue(d) ==
  /\ \A rep \in d.report : Tags("snp", SnpFlags) \subseteq row => OfItsChip(rep) /\ rep.data = Nonce(d)
  /\ \A q \in d.quote : Tags("tdx", TdxFlags) \subseteq row => q.signer = G!QuotingKey /\ q.data = Nonce(d)
  /\ \A tok \in d.token : <<"token", "sig_ok">> \in row /\ tok.iss = "google" => tok.signer # Foreign
  /\ \A ek \in d.ek : <<"ek", "issuer_sig_ok">> \in row /\ ek.aia = "google" => ek.issuer # Foreign

\* Three reports that read well are of one chip, and carry this sentence, EK certificate and token.
BindTrue(d) ==
  (\A n \in {"r0", "r-ek", "r-jwt"} : d.reports[n] # {} /\ Tags(n, BindFlags) \subseteq row) =>
    \E chip \in Chips : \A n \in {"r0", "r-ek", "r-jwt"} : \A rep \in d.reports[n] :
      OfItsChip(rep) /\ rep.chip_id = chip

\* A quote that reads well was signed, over this nonce, with a key of runtime data that the named chip
\* has signed for some guest.  Nothing tells whether that guest was a paravisor (the report's VMPL is
\* not looked at).
AzureTrue(d) ==
  Tags("snp", AzureFlags) \cup Tags("tpm_quote", {"extra_data_is_our_nonce", "quote_sig_ok_with_HCLAkPub"}) \subseteq row =>
    /\ \A rep \in d.report : OfItsChip(rep) /\ rep.data = Digest(d.hcl.runtime)
    /\ \A q \in d.quote : q.signer \in d.hcl.ak /\ q.extra = Nonce(d)

\* A report over an identity document is under the provider's key of the region that the document
\* names.  The document is the region's own where its detached signature was verified (rsa2048):
\* "pkcs7" alone takes a signature by anyone who puts a certificate into it.
AwsTrue(d) ==
  /\ program = "idbind_verify" /\ {"report_data_is_sha512_nonce_docdigest", "report_signature_ok",
       "chain_to_ark_ok", "csp_id_names_document_region"} \subseteq row =>
         /\ \A rep \in d.report : rep.signer = VlekKey(d.doc.region)
         /\ "rsa2048" \in row => d.doc.rsa = A!RegionRsaKey(d.doc.region)
  /\ program = "nitro_verify" /\ {"signature_ok", "chain_to_aws_root_ok", "nonce_is_sha512_sentence"} \subseteq row =>
         \A doc \in d.doc : doc.signer[1] = "enclave" /\ doc.nonce = Nonce(d)
  /\ program = "nitrotpm_verify" /\ "quote_extra_data_is_sha256_sentence" \in row => d.quote.signer = d.ak

\* A credential is issued for a key whose holder signed a request that a genuine chip bound, with
\* this nonce, to one report.
CredentialTrue(d) ==
  "ISSUE_CREDENTIAL" \in row =>
    \A rep \in d.report : /\ \E c \in Chips : rep.signer = VcekKey(c, rep.tcb)
                          /\ rep.data = Digest(d.nonce \o d.csr.bytes) /\ d.csr.signer = d.csr.key

(* No verifier reads well what nobody genuine has made: for every mixture  *)
(* of genuine, made-up, borrowed and outdated parts, and whatever services *)
(* answer, the flags that its docstring lists hold together only of        *)
(* evidence whose makers are those it names.  vlek_verify takes leaf and   *)
(* chain from the run directory, and pins neither: its flags say nothing   *)
(* of AMD.                                                                 *)
AppraisedGenuine ==
  pc = "written" => \A d \in dir :
    CASE program = "gcp_verify" -> GoogleTrue(d)
      [] program = "bind_verify" -> BindTrue(d)
      [] program = "azure_verify" -> AzureTrue(d)
      [] program = "tacra_verify" -> CredentialTrue(d)
      [] program \in {"verify_run", "vlek_verify"} -> TRUE
      [] OTHER -> AwsTrue(d)

(* early-attestation/binder.py, "The verifier recomputes s_attest_binder   *)
(* from the transcript it observed and the server public key it saw":      *)
(* accepted evidence is a report of a genuine Milan chip for this very     *)
(* session and no other, and the controls, "both must be False", are:      *)
(* whatever session a report was made for, it matches in that one alone.   *)
(* It need not be a report of the guest that owns the session's key:       *)
(* "once the server TLS identity key is available to an attacker"          *)
(* (README.md:4), another guest's firmware signs the binder just as well.  *)
AcceptedInItsSession ==
  pc = "written" /\ program = "verify_run" => \A d \in dir, ses \in Sessions :
    /\ \A role \in {"server", "attacker"} : <<role, "accept">> \in row =>
         \A rep \in d[role].report :
           /\ \E c \in Chips : rep.signer = VcekKey(c, rep.tcb) /\ ProductOf[c] = "Milan"
           /\ Y!MadeFor(rep, ses) => Y!Transcript(ses) = Y!Transcript(d[role].session)
    /\ \A rep \in d.server.report :
         <<"naive_relay", "server_report_in_attacker_session">> \in row /\ Y!MadeFor(rep, ses) =>
           Y!Transcript(ses) = Y!Transcript(d.attacker.session)
    /\ \A rep \in d.attacker.report :
         <<"naive_relay", "attacker_report_in_server_session">> \in row /\ Y!MadeFor(rep, ses) =>
           Y!Transcript(ses) = Y!Transcript(d.server.session)
=============================================================================
