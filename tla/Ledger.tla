-------------------------------- MODULE Ledger --------------------------------
(***************************************************************************)
(* tools/fingerprint_ledger.py: one row per run directory that holds       *)
(* SEV-SNP reports, with the key that verifies them, then the rows grouped *)
(* by CHIP_ID.  The first report stands for the run; the key of a report   *)
(* signed with a VCEK is fetched from AMD KDS once per CHIP_ID and TCB,    *)
(* and a request that failed is never made again.                          *)
(***************************************************************************)
EXTENDS AmdReports

VARIABLES
  runs,               \* the run directories, in the order they are read: reports (every *.bin
                      \* below it of 1184 bytes and a version from 2 to 5) and table (cert-*.bin
                      \* and certs/vlek.pem) are what the ledger reads, named and certs what
                      \* the report verifier does
  place,              \* the directory read next
  rows,               \* rows
  kds_cache           \* kds_cache: <<CHIP_ID, TCB>> -> {certificate} or {}

ledgerVars == <<place, rows, kds_cache>>

LedgerInit == place = 1 /\ rows = <<>> /\ kds_cache = <<>>

\* What a sequence of files holds.
Files(seq) == {seq[i] : i \in DOMAIN seq}

-----------------------------------------------------------------------------

\* Seeded fault: the first report only.
MutAllVerify(reports, cert) == SigOk(reports[1], cert)

\* all(sig_ok(b, cert) for _, b in reps)
AllVerify(reports, cert) == \A i \in DOMAIN reports : SigOk(reports[i], cert)

\* The row: a certificate, when there is one, brings its key and the verdict on every report.
Row(i, cert, failed) ==
  LET f == runs[i].reports[1] IN
  [run |-> i, signing_key |-> f.signing_key, chip_id |-> f.chip_id, tcb |-> f.tcb,
   key |-> {c.key : c \in cert},
   signature_ok |-> {AllVerify(runs[i].reports, c) : c \in cert},
   csp_id |-> {c.csp : c \in cert}, kds_error |-> failed]

Append1(row) == rows' = Append(rows, row) /\ place' = place + 1

\* if not reps: continue
NoReports ==
  /\ place \in DOMAIN runs /\ runs[place].reports = <<>>
  /\ place' = place + 1
  /\ UNCHANGED <<runs, rows, kds_cache>>

\* Seeded fault: one request per chip, whatever its TCB.
MutCacheKey(f) == <<f.chip_id, "-">>

CacheKey(f) == <<f.chip_id, f.tcb>>

\* signing_key VCEK and a CHIP_ID: the certificate KDS issues, under Milan whatever the product.
VcekRow ==
  LET f == runs[place].reports[1] IN
  /\ place \in DOMAIN runs /\ runs[place].reports # <<>>
  /\ f.signing_key = "VCEK" /\ f.chip_id # ZERO
  /\ kds_cache' \in Memo(kds_cache, CacheKey(f), KdsVcek("Milan", f))
  /\ Append1(Row(place, kds_cache'[CacheKey(f)], FetchFailed(kds_cache, kds_cache', CacheKey(f))))
  /\ UNCHANGED runs

\* Otherwise: a certificate of the run directory that verifies the first report, in glob's order.
HostRow ==
  LET f == runs[place].reports[1]
      verifying == {c \in runs[place].table : SigOk(f, c)} IN
  /\ place \in DOMAIN runs /\ runs[place].reports # <<>>
  /\ f.signing_key # "VCEK" \/ f.chip_id = ZERO
  /\ \/ \E c \in verifying : Append1(Row(place, {c}, FALSE))
     \/ verifying = {} /\ Append1(Row(place, {}, FALSE))
  /\ UNCHANGED <<runs, kds_cache>>

LedgerStep == NoReports \/ VcekRow \/ HostRow
LedgerDone == place > Len(runs)

-----------------------------------------------------------------------------
(* LEDGER.md *)

\* by_chip: the rows that expose a CHIP_ID, whether their signatures were verified or not.
ByChip(chip) == {rows[i] : i \in {j \in DOMAIN rows :
                  rows[j].signing_key = "VCEK" /\ rows[j].chip_id = chip}}

(* "`key` is the SPKI SHA-256 of the certificate that verifies every       *)
(* report of the run": a row that reads OK is about one key holder, and    *)
(* with a CHIP_ID about one chip, for the whole run: no run that moved     *)
(* between two reports, or mixes in a report of another origin, reads OK.  *)
RowsSound ==
  \A i \in DOMAIN rows : rows[i].signature_ok = {TRUE} =>
    \A rep \in Files(runs[rows[i].run].reports) :
      /\ {rep.signer} = rows[i].key
      /\ rows[i].signing_key = "VCEK" /\ rows[i].chip_id # ZERO =>
           rep.signer = VcekKey(rows[i].chip_id, rows[i].tcb)

(* A row with CHIP_ID but no key is never the fault of another machine or  *)
(* of another TCB: the request for this very CHIP_ID and TCB has failed,   *)
(* and the row of the run that made it says so (kds_error).  And a row     *)
(* that reads False holds a report this chip has not signed at this TCB.   *)
GapsExplained ==
  \A i \in DOMAIN rows : rows[i].signing_key = "VCEK" /\ rows[i].chip_id # ZERO =>
    /\ rows[i].key = {} => \E j \in 1 .. i : /\ rows[j].kds_error
                                             /\ rows[j].chip_id = rows[i].chip_id
                                             /\ rows[j].tcb = rows[i].tcb
    /\ rows[i].signature_ok = {FALSE} =>
         \E rep \in Files(runs[rows[i].run].reports) :
           rep.signer # VcekKey(rows[i].chip_id, rows[i].tcb)

(* "a CHIP_ID that comes back in a later run is the same machine seen      *)
(* again (the KDS certificate for it verifies both runs' reports)".        *)
SeenAgainVerified ==
  LedgerDone =>
    \A chip \in Chips : Cardinality(ByChip(chip)) > 1 =>
      \A row \in ByChip(chip) : row.signature_ok = {TRUE}
=============================================================================
