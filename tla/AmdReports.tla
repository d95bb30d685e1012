------------------------------ MODULE AmdReports ------------------------------
(***************************************************************************)
(* SEV-SNP attestation reports, the certificates that verify them and the  *)
(* AMD Key Distribution Service, as every verifier of the repository uses  *)
(* them.  Bytes, keys and digests are sequences of strings; a signature is *)
(* its maker's key, and nobody signs with a key that is not theirs: the    *)
(* keys of AMD's chips and authorities sign what the firmware and AMD      *)
(* sign, Foreign signs whatever its owner likes.                           *)
(***************************************************************************)
EXTENDS Naturals, Sequences, FiniteSets

CONSTANTS
  Chips,              \* the chips there are
  ProductOf           \* chip -> "Milan", "Genoa" or "Turin"

ASSUME ReportsAssumption ==
  /\ ProductOf \in [Chips -> {"Milan", "Genoa", "Turin"}]
  /\ "0" \notin Chips

ZERO == "0"                                     \* a CHIP_ID of 64 zero bytes
Foreign == <<"foreign">>
VcekKey(chip, tcb) == <<"VCEK", chip, tcb>>
VlekKey(csp) == <<"VLEK", csp>>
AskKey(kind, prod) == <<"ASK", kind, prod>>
ArkKey(prod) == <<"ARK", prod>>
Digest(bytes) == <<"digest(">> \o bytes \o <<")">>

\* What the firmware writes: signing_key, chip_id (zero where the host masks it), tcb, cpu (the
\* family and model a report of version 3 or later carries, else "-"), guest (REPORT_ID), data
\* (REPORT_DATA), under the key of the chip or of the provider.
Report(kind, chip, tcb, cpu, guest, data, signer) ==
  [signing_key |-> kind, chip_id |-> chip, tcb |-> tcb, cpu |-> cpu, guest |-> guest,
   data |-> data, signer |-> signer]

\* A report this chip's firmware has made for this guest.
IsGenuine(rep) ==
  \/ /\ rep.signing_key = "VCEK"
     /\ \E c \in Chips : rep.signer = VcekKey(c, rep.tcb) /\ rep.chip_id \in {c, ZERO}
  \/ rep.signing_key = "VLEK" /\ rep.signer[1] = "VLEK" /\ rep.chip_id = ZERO

\* The product of the report's CPUID fields; older reports are taken as Milan.
Product(rep) == IF rep.cpu \in {"Genoa", "Turin"} THEN rep.cpu ELSE "Milan"

-----------------------------------------------------------------------------
(* Certificates: hwid and csp are the AMD extensions, "-" where absent. *)

Cert(key, hwid, csp, issuer) == [key |-> key, hwid |-> hwid, csp |-> csp, issuer |-> issuer]
VcekCert(chip, tcb) ==
  Cert(VcekKey(chip, tcb), chip, "-", AskKey("vcek", ProductOf[chip]))
VlekCert(csp) == Cert(VlekKey(csp), "-", csp, AskKey("vlek", "Milan"))

\* Nobody signs with a key that is not theirs: what a key of AMD's or of its chips has signed is
\* what KDS, or the firmware, has made.
Issued(cert) ==
  cert.issuer[1] = "ASK" =>
    \/ cert.key[1] = "VCEK" /\ \E c \in Chips : cert = VcekCert(c, cert.key[3])
    \/ cert.key[1] = "VLEK" /\ cert = VlekCert(cert.key[2])
Unforged(rep) == rep.signer[1] \in {"VCEK", "VLEK"} => IsGenuine(rep)

SigOk(rep, cert) == rep.signer = cert.key

\* Seeded fault: the chain is checked by itself, without the leaf's link to it.
MutChainOk(leaf, chain) ==
  /\ Len(chain) >= 2
  /\ chain[1].issuer = chain[2].key /\ chain[2].issuer = chain[2].key

\* leaf <- chain[0] <- chain[1] <- chain[1]; an exception on the way is False.
ChainOk(leaf, chain) ==
  /\ Len(chain) >= 2
  /\ leaf.issuer = chain[1].key
  /\ chain[1].issuer = chain[2].key /\ chain[2].issuer = chain[2].key

\* "hwID == CHIP_ID", there only when the certificate has a hwID.
HwidEquals(cert, rep) == IF cert.hwid = "-" THEN {} ELSE {cert.hwid = rep.chip_id}

-----------------------------------------------------------------------------
(* The Key Distribution Service.  None, or a failed request, is {}.        *)

\* vcek/v1/<product>/<CHIP_ID>?<TCB>: the certificate, or 404.
KdsVcek(prod, rep) ==
  IF rep.chip_id \in Chips /\ ProductOf[rep.chip_id] = prod
    THEN {VcekCert(rep.chip_id, rep.tcb)} ELSE {}

\* <kind>/v1/<product>/cert_chain
KdsChain(kind, prod) ==
  {<<Cert(AskKey(kind, prod), "-", "-", ArkKey(prod)), Cert(ArkKey(prod), "-", "-", ArkKey(prod))>>}

\* What a request brings: the answer, or nothing (rate limit, time-out, no network).
Fetched(answer) == {answer, {}}

\* if key not in cache: cache[key] = the answer, or None for good.
Memo(cache, key, answer) ==
  IF key \in DOMAIN cache THEN {cache}
  ELSE {[k \in DOMAIN cache \cup {key} |-> IF k = key THEN got ELSE cache[k]] : got \in Fetched(answer)}

\* The request for this key is made, and fails, on the way from cache to after.
FetchFailed(cache, after, key) == key \notin DOMAIN cache /\ after[key] = {}
=============================================================================
