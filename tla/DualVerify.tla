------------------------------ MODULE DualVerify ------------------------------
(***************************************************************************)
(* aws-vlek/dual_verify.py over the same run directories as the ledger:    *)
(* every report-*.bin by itself, while the ledger reads whatever file has  *)
(* a report's size and version, in any directory below.  A certificate the *)
(* run brought along is tried first, then the one AMD KDS issues for the   *)
(* report's product, CHIP_ID and TCB; the certificate found must chain to  *)
(* AMD's root.  Certificates and chains are fetched once each, and a       *)
(* request that failed is not made again.                                  *)
(***************************************************************************)
EXTENDS Ledger

VARIABLES
  at,                 \* <<run, report>>: what is looked at next
  verdicts,           \* r of every report, in order
  vceks,              \* kds_cache of main
  chains              \* chains of main

dualVars == <<at, verdicts, vceks, chains>>

DualInit == at = <<1, 1>> /\ verdicts = <<>> /\ vceks = <<>> /\ chains = <<>>

-----------------------------------------------------------------------------

Current == runs[at[1]].named[at[2]]

\* host_certs that verify the report
HostLeaves == {c \in runs[at[1]].certs : SigOk(Current, c)}

\* Seeded fault: one certificate per chip.
MutVcekCacheKey(rep) == <<Product(rep), rep.chip_id, "-">>

\* ck = (product, CHIP_ID, TCB)
VcekCacheKey(rep) == <<Product(rep), rep.chip_id, rep.tcb>>

\* The chain is that of the key the report claims, not of the certificate found.
ChainKey(rep) == <<IF rep.signing_key = "VLEK" THEN "vlek" ELSE "vcek", Product(rep)>>

ReportThere == at[1] \in DOMAIN runs /\ runs[at[1]].named # <<>>

Advance ==
  at' = IF at[2] < Len(runs[at[1]].named) THEN <<at[1], at[2] + 1>> ELSE <<at[1] + 1, 1>>

\* if not glob.glob("report-*.bin"): continue
NoneNamed ==
  /\ at[1] \in DOMAIN runs /\ runs[at[1]].named = <<>>
  /\ Advance
  /\ UNCHANGED <<runs, verdicts, vceks, chains>>

\* r of a report: verified_by "host", "kds" or "-"; kds_error when its own request failed.
Verdict(by, failed, chainOk, hwid) ==
  /\ verdicts' = Append(verdicts, [run |-> at[1], report |-> at[2], verified_by |-> by,
                                   kds_error |-> failed, chain_ok |-> chainOk, hwid |-> hwid])
  /\ Advance
  /\ UNCHANGED runs

\* A leaf verifies the signature: its chain, None when the chain cannot be fetched.
Verified(leaf, by) ==
  /\ chains' \in Memo(chains, ChainKey(Current), KdsChain(ChainKey(Current)[1], ChainKey(Current)[2]))
  /\ Verdict(by, FALSE, {ChainOk(leaf, ch) : ch \in chains'[ChainKey(Current)]},
             HwidEquals(leaf, Current))

ByHost ==
  /\ ReportThere
  /\ \E leaf \in HostLeaves : Verified(leaf, "host")
  /\ UNCHANGED vceks

\* No certificate of the run verifies it, and there is no CHIP_ID to ask AMD for.
Masked ==
  /\ ReportThere
  /\ HostLeaves = {} /\ Current.chip_id = ZERO
  /\ Verdict("-", FALSE, {}, {})
  /\ UNCHANGED <<vceks, chains>>

ByKds ==
  /\ ReportThere
  /\ HostLeaves = {} /\ Current.chip_id # ZERO
  /\ LET ck == VcekCacheKey(Current) IN
     /\ vceks' \in Memo(vceks, ck, KdsVcek(Product(Current), Current))
     /\ \/ \E leaf \in vceks'[ck] : SigOk(Current, leaf) /\ Verified(leaf, "kds")
        \/ /\ \A leaf \in vceks'[ck] : ~SigOk(Current, leaf)
           /\ Verdict("-", FetchFailed(vceks, vceks', ck), {}, {})
           /\ UNCHANGED chains

DualStep == NoneNamed \/ ByHost \/ Masked \/ ByKds
DualDone == at[1] > Len(runs)

-----------------------------------------------------------------------------

(* A report that reads chain_ok was made by an AMD key of the kind it      *)
(* claims; and when the certificate's hwID is its CHIP_ID, by that chip at *)
(* the TCB it reports.  What the run directory brought along (it came from *)
(* the machine under test) cannot vouch for itself.                        *)
ReadsGenuine ==
  \A i \in DOMAIN verdicts : verdicts[i].chain_ok = {TRUE} =>
    LET rep == runs[verdicts[i].run].named[verdicts[i].report] IN
    /\ rep.signer[1] = (IF rep.signing_key = "VLEK" THEN "VLEK" ELSE "VCEK")
    /\ verdicts[i].hwid = {TRUE} => rep.signer = VcekKey(rep.chip_id, rep.tcb)

VerdictsOf(i) == {verdicts[j] : j \in {k \in DOMAIN verdicts : verdicts[k].run = i}}

\* A request of this run's or an earlier one's for the same certificate has failed.
Unfetched(rep) ==
  \E j \in DOMAIN verdicts :
    /\ verdicts[j].kds_error
    /\ VcekCacheKey(runs[verdicts[j].run].named[verdicts[j].report])
         = <<Product(rep), rep.chip_id, rep.tcb>>

(* The two programs, with a cache each, every request failing or not by    *)
(* itself, and each with its own idea of what is a report of a run, never  *)
(* contradict each other about what both have read: of the reports of a    *)
(* row that reads OK the other verifies each that it reads, unless a       *)
(* request failed, which it says; a row that reads False, when the other   *)
(* reads all its reports, it does not verify whole with the certificate of *)
(* one chip.                                                               *)
ProgramsAgree ==
  LedgerDone /\ DualDone =>
    \A i \in DOMAIN rows : rows[i].signing_key = "VCEK" /\ rows[i].chip_id # ZERO =>
      LET d == runs[rows[i].run] IN
      /\ rows[i].signature_ok = {TRUE} =>
           \A v \in VerdictsOf(rows[i].run) :
             v.verified_by = "-" /\ d.named[v.report] \in Files(d.reports) =>
               d.named[v.report].chip_id = ZERO \/ Unfetched(d.named[v.report])
      /\ rows[i].signature_ok = {FALSE} /\ Files(d.reports) \subseteq Files(d.named) =>
           ~ \A v \in VerdictsOf(rows[i].run) :
               /\ v.verified_by = "kds" /\ v.hwid = {TRUE}
               /\ d.named[v.report].chip_id = rows[i].chip_id
               /\ d.named[v.report].tcb = rows[i].tcb
=============================================================================
