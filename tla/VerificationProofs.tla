-------------------------- MODULE VerificationProofs --------------------------
(***************************************************************************)
(* What the rows of the ledger and of the report verifier stand for, for   *)
(* any number of run directories, reports, chips and certificates, and any *)
(* failing requests.  Either program keeps what it has fetched and what it *)
(* has failed to fetch; the invariants say whose certificate is kept where,*)
(* and which row owns up to each gap.  Then the other verifiers: what the  *)
(* flags of a row, taken together, say of the makers of what was read, one *)
(* lemma per program, for any run directory in which nobody signs with a   *)
(* key that is not theirs.                                                 *)
(***************************************************************************)
EXTENDS Verification, FiniteSetTheorems, SequenceTheorems, TLAPS

\* A sequence of what it holds.
IsSequence(q) == q \in Seq({q[i] : i \in DOMAIN q})

\* A row of the ledger: of its run, with no key or with one certificate's.
RowFields(i) ==
  /\ rows[i].run \in DOMAIN runs
  /\ rows[i].signing_key = runs[rows[i].run].reports[1].signing_key
  /\ rows[i].chip_id = runs[rows[i].run].reports[1].chip_id
  /\ rows[i].tcb = runs[rows[i].run].reports[1].tcb

\* An entry that names its chip and is under a VCEK.
OfVcek(entry) == entry.signing_key = "VCEK" /\ entry.chip_id # ZERO

\* A row with a key has one certificate's, and under a VCEK that of its chip at its TCB.
RowKeyed(i) ==
  \E c \in runs[rows[i].run].table \cup {VcekCert(chip, rows[i].tcb) : chip \in Chips} :
    /\ rows[i].key = {c.key} /\ rows[i].signature_ok = {AllVerify(runs[rows[i].run].reports, c)}
    /\ OfVcek(rows[i]) => c = VcekCert(rows[i].chip_id, rows[i].tcb)

\* A row without a key: under a VCEK, an earlier row owns up to the failed request for it.
RowUnkeyed(i) ==
  /\ rows[i].key = {} /\ rows[i].signature_ok = {}
  /\ OfVcek(rows[i]) =>
       \E j \in 1 .. i : rows[j].kds_error /\ CacheKey(rows[j]) = CacheKey(rows[i])

\* The cache holds the certificate that was asked for, or a failure that a row owns up to.
CacheTrue ==
  \A k \in DOMAIN kds_cache :
    \/ k[1] \in Chips /\ kds_cache[k] = {VcekCert(k[1], k[2])}
    \/ kds_cache[k] = {} /\ \E j \in DOMAIN rows : rows[j].kds_error /\ CacheKey(rows[j]) = k

\* The invariant of the ledger.
LedgerInv ==
  /\ IsSequence(rows)
  /\ \A i \in DOMAIN rows : RowFields(i) /\ (RowKeyed(i) \/ RowUnkeyed(i))
  /\ CacheTrue

-----------------------------------------------------------------------------

\* The report a verdict is about.
ReportOf(v) == runs[v.run].named[v.report]

\* The report verifier's place is one of a report, or of a directory without one.
AtReport ==
  /\ at = <<at[1], at[2]>> /\ at[1] \in Nat \ {0} /\ at[2] \in Nat \ {0}
  /\ at[1] \in DOMAIN runs => at[2] \in DOMAIN runs[at[1]].named \/ runs[at[1]].named = <<>>

\* Its certificates are those asked for, or failures that a verdict owns up to.
VceksTrue ==
  \A k \in DOMAIN vceks :
    \/ k[2] \in Chips /\ vceks[k] = {VcekCert(k[2], k[3])}
    \/ vceks[k] = {} /\ \E j \in DOMAIN verdicts :
                           verdicts[j].kds_error /\ VcekCacheKey(ReportOf(verdicts[j])) = k

\* Its chains are those of KDS, or failures.
ChainsTrue == \A k \in DOMAIN chains : chains[k] \in {{}, KdsChain(k[1], k[2])}

\* A chain that reads well ends in a certificate of AMD's that verifies the report.
ChainedTo(v, leaf) ==
  /\ SigOk(ReportOf(v), leaf) /\ Issued(leaf) /\ v.hwid = HwidEquals(leaf, ReportOf(v))
  /\ leaf.issuer = AskKey(ChainKey(ReportOf(v))[1], ChainKey(ReportOf(v))[2])

\* What a verdict says of its report.
VerdictTrue(v) ==
  LET rep == ReportOf(v) IN
  /\ v.run \in DOMAIN runs /\ v.report \in DOMAIN runs[v.run].named
  /\ v.chain_ok = {TRUE} =>
       \E leaf \in runs[v.run].certs \cup {VcekCert(chip, rep.tcb) : chip \in Chips} : ChainedTo(v, leaf)
  /\ v.verified_by = "kds" => rep.signer = VcekKey(rep.chip_id, rep.tcb)
  /\ v.verified_by = "-" =>
       rep.chip_id = ZERO \/ rep.signer # VcekKey(rep.chip_id, rep.tcb) \/ Unfetched(rep)

\* Every report before the next one has its verdict.
NoneSkipped ==
  \A i \in DOMAIN runs : \A r \in DOMAIN runs[i].named :
    i < at[1] \/ (i = at[1] /\ r < at[2]) =>
      \E j \in DOMAIN verdicts : verdicts[j].run = i /\ verdicts[j].report = r

\* The invariant of the report verifier.
DualInv ==
  /\ AtReport /\ VceksTrue /\ ChainsTrue /\ IsSequence(verdicts)
  /\ \A i \in DOMAIN verdicts : VerdictTrue(verdicts[i])
  /\ NoneSkipped

\* The invariant of both programs about AMD reports.
RunsInv == Lawful(runs) /\ LedgerInv /\ DualInv

-----------------------------------------------------------------------------
(* Sequences. *)

\* What is in a sequence that has got one more.
LEMMA Appended ==
  ASSUME NEW q, NEW x, IsSequence(q)
  PROVE  /\ IsSequence(Append(q, x)) /\ Len(q) \in Nat
         /\ DOMAIN q = 1 .. Len(q) /\ DOMAIN Append(q, x) = 1 .. Len(q) + 1
         /\ \A i \in DOMAIN q : Append(q, x)[i] = q[i]
         /\ Append(q, x)[Len(q) + 1] = x
<1> DEFINE S == {q[i] : i \in DOMAIN q}
<1>1. q \in Seq(S)
  BY DEF IsSequence
<1>2. /\ Len(q) \in Nat /\ DOMAIN q = 1 .. Len(q) /\ DOMAIN Append(q, x) = 1 .. Len(q) + 1
      /\ \A i \in DOMAIN q : Append(q, x)[i] = q[i]
      /\ Append(q, x)[Len(q) + 1] = x
  BY <1>1
<1> DEFINE r == Append(q, x)
           T == {r[i] : i \in DOMAIN r}
<1>3. r \in Seq(S \cup {x})
  <2>1. x \in S \cup {x} /\ q \in Seq(S \cup {x})
    BY <1>1
  <2>2. QED BY <2>1
<1>4. r \in Seq(T)
  BY <1>3
<1>5. QED BY <1>2, <1>4 DEF IsSequence

-----------------------------------------------------------------------------
(* Certificates and caches. *)

\* KDS has a certificate for this very CHIP_ID and TCB, or none.
LEMMA KdsAnswers ==
  ASSUME NEW prod, NEW rep
  PROVE  \/ KdsVcek(prod, rep) = {}
         \/ rep.chip_id \in Chips /\ KdsVcek(prod, rep) = {VcekCert(rep.chip_id, rep.tcb)}
BY DEF KdsVcek

\* AMD issues what KDS hands out.
LEMMA KdsIssued ==
  ASSUME NEW chip \in Chips, NEW tcb
  PROVE  /\ Issued(VcekCert(chip, tcb)) /\ VcekCert(chip, tcb).key = VcekKey(chip, tcb)
         /\ VcekCert(chip, tcb).issuer = AskKey("vcek", ProductOf[chip])
BY DEF Issued, VcekCert, Cert, VcekKey, AskKey

\* What a cache holds stays there, and the new entry is the answer or nothing.
LEMMA MemoKeeps ==
  ASSUME NEW cache, NEW key, NEW answer, NEW after \in Memo(cache, key, answer)
  PROVE  /\ DOMAIN after = DOMAIN cache \cup {key}
         /\ \A k \in DOMAIN cache : after[k] = cache[k]
         /\ key \notin DOMAIN cache => after[key] \in {answer, {}}
<1>1. CASE key \in DOMAIN cache
  BY <1>1 DEF Memo
<1>2. CASE key \notin DOMAIN cache
  <2>1. PICK got \in {answer, {}} :
          after = [k \in DOMAIN cache \cup {key} |-> IF k = key THEN got ELSE cache[k]]
    BY <1>2 DEF Memo, Fetched
  <2>2. QED BY <1>2, <2>1
<1>3. QED BY <1>1, <1>2

-----------------------------------------------------------------------------
(* The ledger. *)

\* Earlier rows stay as they are.
LEMMA RowsStay ==
  ASSUME RunsInv, NEW e, Append1(e), runs' = runs
  PROVE  /\ IsSequence(rows') /\ Len(rows) + 1 \in DOMAIN rows' /\ rows'[Len(rows) + 1] = e
         /\ Len(rows) \in Nat /\ DOMAIN rows = 1 .. Len(rows)
         /\ DOMAIN rows' = DOMAIN rows \cup {Len(rows) + 1}
         /\ \A i \in DOMAIN rows : rows'[i] = rows[i]
         /\ \A i \in DOMAIN rows : RowFields(i)' /\ (RowKeyed(i)' \/ RowUnkeyed(i)')
<1> USE DEF RunsInv, LedgerInv
<1>1. /\ IsSequence(rows') /\ Len(rows) + 1 \in DOMAIN rows' /\ rows'[Len(rows) + 1] = e
      /\ Len(rows) \in Nat /\ DOMAIN rows = 1 .. Len(rows)
      /\ DOMAIN rows' = DOMAIN rows \cup {Len(rows) + 1}
      /\ \A i \in DOMAIN rows : rows'[i] = rows[i]
  BY Appended DEF Append1
<1>2. ASSUME NEW i \in DOMAIN rows
      PROVE  RowFields(i)' /\ (RowKeyed(i)' \/ RowUnkeyed(i)')
  <2>1. rows'[i] = rows[i] /\ i \in 1 .. Len(rows)
    BY <1>1
  <2>2. RowFields(i)'
    BY <2>1 DEF RowFields
  <2>3. CASE RowKeyed(i)
    <3>1. PICK c \in runs[rows[i].run].table \cup {VcekCert(chip, rows[i].tcb) : chip \in Chips} :
            /\ rows[i].key = {c.key} /\ rows[i].signature_ok = {AllVerify(runs[rows[i].run].reports, c)}
            /\ OfVcek(rows[i]) => c = VcekCert(rows[i].chip_id, rows[i].tcb)
      BY <2>3 DEF RowKeyed
    <3>2. c \in runs'[rows'[i].run].table \cup {VcekCert(chip, rows'[i].tcb) : chip \in Chips}
      BY <2>1, <3>1
    <3>3. /\ rows'[i].key = {c.key} /\ rows'[i].signature_ok = {AllVerify(runs'[rows'[i].run].reports, c)}
          /\ OfVcek(rows'[i]) => c = VcekCert(rows'[i].chip_id, rows'[i].tcb)
      BY <2>1, <3>1
    <3>4. RowKeyed(i)'
      BY <3>2, <3>3 DEF RowKeyed
    <3>5. QED BY <2>2, <3>4
  <2>4. CASE RowUnkeyed(i)
    <3>1. \A j \in 1 .. i : rows'[j] = rows[j]
      BY <1>1, <2>1
    <3>2. RowUnkeyed(i)'
      BY <2>1, <2>4, <3>1 DEF RowUnkeyed
    <3>3. QED BY <2>2, <3>2
  <2>5. QED BY <2>2, <2>3, <2>4
<1>3. QED BY <1>1, <1>2

\* A row that KDS is asked about.
LEMMA VcekRowKeeps ==
  ASSUME RunsInv, VcekRow
  PROVE  LedgerInv'
<1>0. PICK i : i = Len(rows) + 1
  OBVIOUS
<1> DEFINE f == runs[place].reports[1]
           k == CacheKey(f)
           cert == kds_cache'[k]
           e == Row(place, cert, FetchFailed(kds_cache, kds_cache', k))
<1>1. /\ place \in DOMAIN runs /\ f.signing_key = "VCEK" /\ f.chip_id # ZERO
      /\ kds_cache' \in Memo(kds_cache, k, KdsVcek("Milan", f)) /\ Append1(e) /\ runs' = runs
  BY <1>0 DEF VcekRow
<1>2. /\ DOMAIN kds_cache' = DOMAIN kds_cache \cup {k}
      /\ \A k2 \in DOMAIN kds_cache : kds_cache'[k2] = kds_cache[k2]
      /\ k \notin DOMAIN kds_cache => cert \in {KdsVcek("Milan", f), {}}
  BY <1>1, MemoKeeps
<1>3. /\ IsSequence(rows') /\ i \in DOMAIN rows' /\ rows'[i] = e
      /\ Len(rows) \in Nat /\ DOMAIN rows = 1 .. Len(rows)
      /\ DOMAIN rows' = DOMAIN rows \cup {i}
      /\ \A i2 \in DOMAIN rows : rows'[i2] = rows[i2]
      /\ \A i2 \in DOMAIN rows : RowFields(i2)' /\ (RowKeyed(i2)' \/ RowUnkeyed(i2)')
  BY <1>0, <1>1, RowsStay
<1>4. CacheTrue
  BY DEF RunsInv, LedgerInv
<1>5. /\ e.run = place /\ e.signing_key = "VCEK" /\ e.chip_id = f.chip_id /\ e.tcb = f.tcb
      /\ e.key = {c.key : c \in cert} /\ e.signature_ok = {AllVerify(runs[place].reports, c) : c \in cert}
      /\ e.kds_error = FetchFailed(kds_cache, kds_cache', k)
      /\ CacheKey(e) = k /\ k[1] = f.chip_id /\ k[2] = f.tcb
  BY <1>1 DEF Row, CacheKey
<1>6. \/ f.chip_id \in Chips /\ cert = {VcekCert(f.chip_id, f.tcb)}
      \/ cert = {} /\ \E j \in DOMAIN rows' : rows'[j].kds_error /\ CacheKey(rows'[j]) = k
  <2>1. CASE k \in DOMAIN kds_cache
    BY <1>2, <1>3, <1>4, <1>5, <2>1 DEF CacheTrue
  <2>2. CASE k \notin DOMAIN kds_cache /\ cert # {}
    BY <1>2, <2>2, KdsAnswers
  <2>3. CASE k \notin DOMAIN kds_cache /\ cert = {}
    BY <1>3, <1>5, <2>3 DEF FetchFailed
  <2>4. QED BY <2>1, <2>2, <2>3
<1>7. CacheTrue'
  <2>1. SUFFICES ASSUME NEW k2 \in DOMAIN kds_cache'
        PROVE  \/ k2[1] \in Chips /\ kds_cache'[k2] = {VcekCert(k2[1], k2[2])}
               \/ /\ kds_cache'[k2] = {}
                  /\ \E j \in DOMAIN rows' : rows'[j].kds_error /\ CacheKey(rows'[j]) = k2
    BY DEF CacheTrue
  <2>2. CASE k2 = k
    BY <1>5, <1>6, <2>2
  <2>3. CASE k2 \in DOMAIN kds_cache
    BY <1>2, <1>3, <1>4, <2>3 DEF CacheTrue
  <2>4. QED BY <1>2, <2>2, <2>3
<1>8. RowFields(i)' /\ (RowKeyed(i)' \/ RowUnkeyed(i)')
  <2>1. RowFields(i)'
    BY <1>1, <1>3, <1>5 DEF RowFields
  <2>2. CASE f.chip_id \in Chips /\ cert = {VcekCert(f.chip_id, f.tcb)}
    <3> DEFINE c == VcekCert(f.chip_id, f.tcb)
    <3>1. c \in runs'[rows'[i].run].table \cup {VcekCert(chip, rows'[i].tcb) : chip \in Chips}
      BY <1>3, <1>5, <2>2
    <3>2. /\ rows'[i].key = {c.key} /\ rows'[i].signature_ok = {AllVerify(runs'[rows'[i].run].reports, c)}
          /\ c = VcekCert(rows'[i].chip_id, rows'[i].tcb)
      BY <1>1, <1>3, <1>5, <2>2
    <3>3. RowKeyed(i)'
      BY <3>1, <3>2 DEF RowKeyed
    <3>4. QED BY <2>1, <3>3
  <2>3. CASE cert = {} /\ \E j \in DOMAIN rows' : rows'[j].kds_error /\ CacheKey(rows'[j]) = k
    <3>1. rows'[i].key = {} /\ rows'[i].signature_ok = {}
      BY <1>3, <1>5, <2>3
    <3>2. DOMAIN rows' = 1 .. i
      BY <1>0, <1>3
    <3>3. RowUnkeyed(i)'
      BY <1>3, <1>5, <2>3, <3>1, <3>2 DEF RowUnkeyed
    <3>4. QED BY <2>1, <3>3
  <2>4. QED BY <1>6, <2>1, <2>2, <2>3
<1>9. QED BY <1>3, <1>7, <1>8 DEF LedgerInv

\* A row for which the run directory may bring the certificate.
LEMMA HostRowKeeps ==
  ASSUME RunsInv, HostRow
  PROVE  LedgerInv'
<1>0. PICK i : i = Len(rows) + 1
  OBVIOUS
<1> DEFINE f == runs[place].reports[1]
<1>1. /\ place \in DOMAIN runs /\ (f.signing_key # "VCEK" \/ f.chip_id = ZERO)
      /\ runs' = runs /\ kds_cache' = kds_cache
  BY <1>0 DEF HostRow
<1>2. PICK cert : /\ Append1(Row(place, cert, FALSE))
                  /\ cert = {} \/ \E c \in runs[place].table : cert = {c}
  BY <1>0 DEF HostRow
<1> DEFINE e == Row(place, cert, FALSE)
<1>3. /\ IsSequence(rows') /\ i \in DOMAIN rows' /\ rows'[i] = e
      /\ DOMAIN rows' = DOMAIN rows \cup {i}
      /\ \A i2 \in DOMAIN rows : rows'[i2] = rows[i2]
      /\ \A i2 \in DOMAIN rows : RowFields(i2)' /\ (RowKeyed(i2)' \/ RowUnkeyed(i2)')
  BY <1>0, <1>1, <1>2, RowsStay
<1>4. /\ e.run = place /\ e.signing_key = f.signing_key /\ e.chip_id = f.chip_id /\ e.tcb = f.tcb /\ ~OfVcek(e)
      /\ e.key = {c.key : c \in cert} /\ e.signature_ok = {AllVerify(runs[place].reports, c) : c \in cert}
  BY <1>1 DEF Row, OfVcek
<1>5. CacheTrue'
  BY <1>1, <1>3 DEF RunsInv, LedgerInv, CacheTrue
<1>6. RowFields(i)' /\ (RowKeyed(i)' \/ RowUnkeyed(i)')
  <2>1. RowFields(i)'
    BY <1>1, <1>3, <1>4 DEF RowFields
  <2>2. cert = {} => RowUnkeyed(i)'
    BY <1>3, <1>4 DEF RowUnkeyed
  <2>3. ASSUME NEW c \in runs[place].table, cert = {c} PROVE RowKeyed(i)'
    <3>1. /\ rows'[i].key = {c.key} /\ rows'[i].signature_ok = {AllVerify(runs'[rows'[i].run].reports, c)}
          /\ ~OfVcek(rows'[i])
      <4>1. e.key = {c.key} /\ e.signature_ok = {AllVerify(runs[place].reports, c)}
        BY <1>4, <2>3
      <4>2. QED BY <1>1, <1>3, <1>4, <4>1
    <3>2. c \in runs'[rows'[i].run].table
      BY <1>1, <1>3, <1>4, <2>3
    <3>3. QED BY <3>1, <3>2 DEF RowKeyed
  <2>4. QED BY <1>2, <2>1, <2>2, <2>3
<1>7. QED BY <1>3, <1>5, <1>6 DEF LedgerInv

-----------------------------------------------------------------------------
(* The report verifier. *)

\* The report that is looked at is one of the directory's, and nobody has forged a key of AMD's.
LEMMA CurrentLawful ==
  ASSUME RunsInv, ReportThere
  PROVE  /\ at[1] \in DOMAIN runs /\ at[2] \in DOMAIN runs[at[1]].named /\ Unforged(Current)
         /\ \A cert \in runs[at[1]].certs : Issued(cert)
BY DEF RunsInv, DualInv, AtReport, ReportThere, Lawful, Current

\* The next report is the next one of the directory, or the first of the next directory.
LEMMA AdvanceKeeps ==
  ASSUME RunsInv, at[1] \in DOMAIN runs, Advance, runs' = runs
  PROVE  /\ AtReport'
         /\ \A i \in DOMAIN runs : \A r \in DOMAIN runs[i].named :
              i < at'[1] \/ (i = at'[1] /\ r < at'[2]) =>
                i < at[1] \/ (i = at[1] /\ r < at[2]) \/ (i = at[1] /\ r = at[2])
<1> DEFINE n == Len(runs[at[1]].named)
<1>1. /\ DOMAIN runs = 1 .. Len(runs) /\ Len(runs) \in Nat
      /\ \A i \in DOMAIN runs : /\ Len(runs[i].named) \in Nat
                                /\ DOMAIN runs[i].named = 1 .. Len(runs[i].named)
  BY DEF RunsInv, Lawful
<1>2. at = <<at[1], at[2]>> /\ at[1] \in Nat \ {0} /\ at[2] \in Nat \ {0} /\ n \in Nat
      /\ (at[2] \in 1 .. n \/ n = 0)
  BY <1>1 DEF RunsInv, DualInv, AtReport
<1>3. CASE at[2] < n
  <2>1. at' = <<at[1], at[2] + 1>>
    BY <1>3 DEF Advance
  <2>2. AtReport'
    BY <1>1, <1>2, <1>3, <2>1 DEF AtReport
  <2>3. QED BY <1>1, <1>2, <2>1, <2>2
<1>4. CASE ~(at[2] < n)
  <2>1. at' = <<at[1] + 1, 1>>
    BY <1>4 DEF Advance
  <2>2. AtReport'
    BY <1>1, <1>2, <2>1 DEF AtReport
  <2>3. ASSUME NEW i \in DOMAIN runs, NEW r \in DOMAIN runs[i].named,
               i < at'[1] \/ (i = at'[1] /\ r < at'[2])
        PROVE  i < at[1] \/ (i = at[1] /\ r < at[2]) \/ (i = at[1] /\ r = at[2])
    <3>1. i \in Nat /\ r \in 1 .. Len(runs[i].named) /\ Len(runs[i].named) \in Nat
      BY <1>1
    <3>2. i < at[1] + 1
      BY <1>2, <2>1, <2>3, <3>1
    <3>3. CASE i = at[1]
      BY <1>2, <1>4, <3>1, <3>3
    <3>4. QED BY <1>2, <3>1, <3>2, <3>3
  <2>4. QED BY <2>2, <2>3
<1>5. QED BY <1>3, <1>4

\* The verdict that is written, with the caches as they then are: what has been fetched, or has
\* not, is accounted for by the verdicts so far and this one.
Accounted(v) ==
  /\ \A k \in DOMAIN vceks' :
       \/ k[2] \in Chips /\ vceks'[k] = {VcekCert(k[2], k[3])}
       \/ vceks'[k] = {} /\ \/ \E j \in DOMAIN verdicts :
                                 verdicts[j].kds_error /\ VcekCacheKey(ReportOf(verdicts[j])) = k
                            \/ v.kds_error /\ VcekCacheKey(ReportOf(v)) = k
  /\ \A k \in DOMAIN chains' : chains'[k] \in {{}, KdsChain(k[1], k[2])}

\* Whatever is appended, earlier verdicts keep what they say.
LEMMA VerdictKeeps ==
  ASSUME RunsInv, ReportThere, NEW v, v.run = at[1], v.report = at[2],
         runs' = runs, Advance, verdicts' = Append(verdicts, v), Accounted(v),
         v.chain_ok = {TRUE} =>
           \E leaf \in runs[at[1]].certs \cup {VcekCert(chip, Current.tcb) : chip \in Chips} :
             ChainedTo(v, leaf),
         v.verified_by = "kds" => Current.signer = VcekKey(Current.chip_id, Current.tcb),
         v.verified_by = "-" =>
           \/ Current.chip_id = ZERO
           \/ Current.signer # VcekKey(Current.chip_id, Current.tcb)
           \/ Unfetched(Current)
           \/ v.kds_error /\ VcekCacheKey(Current) = <<Product(Current), Current.chip_id, Current.tcb>>
  PROVE  DualInv'
<1>0. PICK n : n = Len(verdicts) + 1
  OBVIOUS
<1>1. runs' = runs
  OBVIOUS
<1>2. /\ IsSequence(verdicts') /\ n \in DOMAIN verdicts' /\ verdicts'[n] = v
      /\ DOMAIN verdicts' = DOMAIN verdicts \cup {n}
      /\ \A i \in DOMAIN verdicts : verdicts'[i] = verdicts[i]
  BY <1>0, <1>1, Appended DEF RunsInv, DualInv
<1>3. ReportOf(v) = Current
  BY DEF ReportOf, Current
<1>4. \A e : ReportOf(e)' = ReportOf(e)
  BY <1>1 DEF ReportOf
<1>5. AtReport' /\ NoneSkipped'
  <2>1. AtReport'
    BY <1>1, CurrentLawful, AdvanceKeeps
  <2>2. ASSUME NEW i \in DOMAIN runs, NEW r \in DOMAIN runs[i].named,
               i < at'[1] \/ (i = at'[1] /\ r < at'[2])
        PROVE  \E j \in DOMAIN verdicts' : verdicts'[j].run = i /\ verdicts'[j].report = r
    <3>1. CASE i = at[1] /\ r = at[2]
      BY <1>2, <1>3, <3>1
    <3>2. CASE i < at[1] \/ (i = at[1] /\ r < at[2])
      <4>1. PICK j \in DOMAIN verdicts : verdicts[j].run = i /\ verdicts[j].report = r
        BY <3>2 DEF RunsInv, DualInv, NoneSkipped
      <4>2. QED BY <1>2, <4>1
    <3>3. QED BY <1>1, <2>2, <3>1, <3>2, CurrentLawful, AdvanceKeeps
  <2>3. QED BY <1>1, <2>1, <2>2 DEF NoneSkipped
<1>6. VceksTrue' /\ ChainsTrue'
  <2>1. ChainsTrue'
    BY DEF Accounted, ChainsTrue
  <2>2. ASSUME NEW k \in DOMAIN vceks'
        PROVE  \/ k[2] \in Chips /\ vceks'[k] = {VcekCert(k[2], k[3])}
               \/ vceks'[k] = {} /\ \E j \in DOMAIN verdicts' :
                    verdicts'[j].kds_error /\ VcekCacheKey(ReportOf(verdicts'[j])) = k
    BY <1>2 DEF Accounted
  <2>3. QED BY <1>4, <2>1, <2>2 DEF VceksTrue
<1>7. \A rep : Unfetched(rep) => Unfetched(rep)'
  BY <1>1, <1>2 DEF Unfetched
<1>8. \A e, leaf : ChainedTo(e, leaf) => ChainedTo(e, leaf)'
  BY <1>4 DEF ChainedTo
<1>9. ASSUME NEW e, VerdictTrue(e) PROVE VerdictTrue(e)'
  BY <1>1, <1>4, <1>7, <1>8, <1>9 DEF VerdictTrue
<1>10. VerdictTrue(v)'
  <2>1. PICK rep : rep = Current
    OBVIOUS
  <2>2. v.run \in DOMAIN runs' /\ v.report \in DOMAIN runs'[v.run].named
    BY <1>1, <1>3, CurrentLawful
  <2>3. ReportOf(v)' = rep
    BY <1>3, <1>4, <2>1
  <2>4. v.kds_error /\ VcekCacheKey(rep) = <<Product(rep), rep.chip_id, rep.tcb>> => Unfetched(rep)'
    BY <1>1, <1>2, <1>3, <2>1 DEF Unfetched, ReportOf
  <2>5. v.chain_ok = {TRUE} =>
          \E leaf \in runs'[v.run].certs \cup {VcekCert(chip, rep.tcb) : chip \in Chips} :
            ChainedTo(v, leaf)'
    BY <1>1, <1>3, <1>8, <2>1
  <2>6. v.verified_by = "kds" => rep.signer = VcekKey(rep.chip_id, rep.tcb)
    BY <1>3, <2>1
  <2>7. v.verified_by = "-" =>
          rep.chip_id = ZERO \/ rep.signer # VcekKey(rep.chip_id, rep.tcb) \/ Unfetched(rep)'
    BY <1>3, <1>7, <2>1, <2>4
  <2>8. QED BY <2>2, <2>3, <2>5, <2>6, <2>7 DEF VerdictTrue
<1>11. (\A i \in DOMAIN verdicts : VerdictTrue(verdicts[i]))'
  <2>1. SUFFICES ASSUME NEW i \in (DOMAIN verdicts)' PROVE VerdictTrue(verdicts[i])'
    OBVIOUS
  <2>2. PICK e : e = verdicts'[i]
    OBVIOUS
  <2>3. VerdictTrue(e)'
    <3>1. e = v \/ VerdictTrue(e)
      BY <1>2, <2>2 DEF RunsInv, DualInv
    <3>2. QED BY <1>9, <1>10, <3>1
  <2>4. QED BY <2>2, <2>3 DEF VerdictTrue, ChainedTo, ReportOf, Unfetched
<1>12. QED BY <1>2, <1>5, <1>6, <1>11 DEF DualInv

\* What the entries of the certificate cache are, before a verdict is written.
Fetches(failed, rep) ==
  \A k \in DOMAIN vceks' :
    \/ k[2] \in Chips /\ vceks'[k] = {VcekCert(k[2], k[3])}
    \/ vceks'[k] = {} /\ \/ \E j \in DOMAIN verdicts :
                              verdicts[j].kds_error /\ VcekCacheKey(ReportOf(verdicts[j])) = k
                         \/ failed /\ VcekCacheKey(rep) = k

\* A verdict with the certificate that verifies the report.
LEMMA VerifiedKeeps ==
  ASSUME RunsInv, ReportThere,
         NEW leaf \in runs[at[1]].certs \cup {VcekCert(chip, Current.tcb) : chip \in Chips},
         NEW by, by # "-", Verified(leaf, by), SigOk(Current, leaf), Issued(leaf),
         Fetches(FALSE, Current),
         by = "kds" => leaf = VcekCert(Current.chip_id, Current.tcb)
  PROVE  DualInv'
<1>1. PICK ck : ck = ChainKey(Current)
  OBVIOUS
<1>2. PICK v : v = [run |-> at[1], report |-> at[2], verified_by |-> by, kds_error |-> FALSE,
                    chain_ok |-> {ChainOk(leaf, ch) : ch \in chains'[ck]},
                    hwid |-> HwidEquals(leaf, Current)]
  OBVIOUS
<1>3. /\ chains' \in Memo(chains, ck, KdsChain(ck[1], ck[2]))
      /\ verdicts' = Append(verdicts, v) /\ Advance /\ runs' = runs
  BY <1>1, <1>2 DEF Verified, Verdict
<1>4. /\ DOMAIN chains' = DOMAIN chains \cup {ck}
      /\ \A k \in DOMAIN chains : chains'[k] = chains[k]
      /\ ck \notin DOMAIN chains => chains'[ck] \in {KdsChain(ck[1], ck[2]), {}}
  BY <1>3, MemoKeeps
<1>5. \A k \in DOMAIN chains' : chains'[k] \in {{}, KdsChain(k[1], k[2])}
  BY <1>4 DEF RunsInv, DualInv, ChainsTrue
<1>6. /\ v.run = at[1] /\ v.report = at[2] /\ v.verified_by = by /\ v.kds_error = FALSE
      /\ v.chain_ok = {ChainOk(leaf, ch) : ch \in chains'[ck]} /\ v.hwid = HwidEquals(leaf, Current)
      /\ ReportOf(v) = Current
  BY <1>2 DEF ReportOf, Current
<1>7. Accounted(v)
  BY <1>5, <1>6 DEF Accounted, Fetches
<1>8. v.chain_ok = {TRUE} => ChainedTo(v, leaf)
  <2>1. SUFFICES ASSUME v.chain_ok = {TRUE} PROVE leaf.issuer = AskKey(ck[1], ck[2])
    BY <1>1, <1>6 DEF ChainedTo
  <2>2. PICK ch \in chains'[ck] : ChainOk(leaf, ch)
    BY <1>6, <2>1
  <2>3. ch[1].key = AskKey(ck[1], ck[2])
    BY <1>4, <1>5, <2>2 DEF KdsChain, Cert
  <2>4. QED BY <2>2, <2>3 DEF ChainOk
<1>9. by = "kds" => Current.signer = VcekKey(Current.chip_id, Current.tcb)
  BY DEF SigOk, VcekCert, Cert
<1>10. QED BY <1>3, <1>6, <1>7, <1>8, <1>9, VerdictKeeps

\* A certificate of the run directory verifies the report.
LEMMA ByHostKeeps ==
  ASSUME RunsInv, ByHost
  PROVE  DualInv'
<1>1. PICK leaf \in runs[at[1]].certs : SigOk(Current, leaf) /\ Verified(leaf, "host")
  BY DEF ByHost, HostLeaves
<1>2. ReportThere /\ vceks' = vceks
  BY DEF ByHost
<1>3. Fetches(FALSE, Current)
  BY <1>2 DEF Fetches, RunsInv, DualInv, VceksTrue
<1>4. Issued(leaf)
  BY <1>2, CurrentLawful
<1>5. QED BY <1>1, <1>2, <1>3, <1>4, VerifiedKeeps

\* Nothing verifies a report without CHIP_ID.
LEMMA MaskedKeeps ==
  ASSUME RunsInv, Masked
  PROVE  DualInv'
<1>1. /\ ReportThere /\ Current.chip_id = ZERO
      /\ Verdict("-", FALSE, {}, {}) /\ vceks' = vceks /\ chains' = chains
  BY DEF Masked
<1>2. PICK v : v = [run |-> at[1], report |-> at[2], verified_by |-> "-",
                    kds_error |-> FALSE, chain_ok |-> {}, hwid |-> {}]
  OBVIOUS
<1>3. Accounted(v)
  BY <1>1 DEF Accounted, RunsInv, DualInv, VceksTrue, ChainsTrue
<1>4. /\ v.run = at[1] /\ v.report = at[2] /\ v.verified_by = "-" /\ v.chain_ok # {TRUE}
      /\ verdicts' = Append(verdicts, v) /\ Advance /\ runs' = runs
  BY <1>1, <1>2 DEF Verdict
<1>5. QED BY <1>1, <1>3, <1>4, VerdictKeeps

\* KDS is asked, or has been.
LEMMA ByKdsKeeps ==
  ASSUME RunsInv, ByKds
  PROVE  DualInv'
<1> DEFINE ck == VcekCacheKey(Current)
           failed == FetchFailed(vceks, vceks', ck)
<1>1. /\ ReportThere
      /\ vceks' \in Memo(vceks, ck, KdsVcek(Product(Current), Current))
      /\ \/ \E leaf \in vceks'[ck] : SigOk(Current, leaf) /\ Verified(leaf, "kds")
         \/ /\ \A leaf \in vceks'[ck] : ~SigOk(Current, leaf)
            /\ Verdict("-", failed, {}, {}) /\ chains' = chains
  BY DEF ByKds
<1>2. /\ DOMAIN vceks' = DOMAIN vceks \cup {ck}
      /\ \A k \in DOMAIN vceks : vceks'[k] = vceks[k]
      /\ ck \notin DOMAIN vceks => vceks'[ck] \in {KdsVcek(Product(Current), Current), {}}
  BY <1>1, MemoKeeps
<1>3. ck = <<Product(Current), Current.chip_id, Current.tcb>>
  BY DEF VcekCacheKey
<1>4. VceksTrue
  BY DEF RunsInv, DualInv
<1>5. \/ Current.chip_id \in Chips /\ vceks'[ck] = {VcekCert(Current.chip_id, Current.tcb)}
      \/ vceks'[ck] = {} /\ (failed \/ Unfetched(Current))
  <2>1. CASE ck \in DOMAIN vceks
    <3>1. \/ ck[2] \in Chips /\ vceks[ck] = {VcekCert(ck[2], ck[3])}
          \/ vceks[ck] = {} /\ \E j \in DOMAIN verdicts :
                                 verdicts[j].kds_error /\ VcekCacheKey(ReportOf(verdicts[j])) = ck
      BY <1>4, <2>1 DEF VceksTrue
    <3>2. (\E j \in DOMAIN verdicts : verdicts[j].kds_error /\ VcekCacheKey(ReportOf(verdicts[j])) = ck)
            => Unfetched(Current)
      BY <1>3 DEF Unfetched, ReportOf
    <3>3. ck[2] = Current.chip_id /\ ck[3] = Current.tcb /\ vceks'[ck] = vceks[ck]
      BY <1>2, <1>3, <2>1
    <3>4. QED BY <3>1, <3>2, <3>3
  <2>2. CASE ck \notin DOMAIN vceks /\ vceks'[ck] = {}
    BY <2>2 DEF FetchFailed
  <2>3. CASE ck \notin DOMAIN vceks /\ vceks'[ck] # {}
    BY <1>2, <2>3, KdsAnswers
  <2>4. QED BY <2>1, <2>2, <2>3
<1>6. \A k \in DOMAIN vceks : \/ k[2] \in Chips /\ vceks'[k] = {VcekCert(k[2], k[3])}
                              \/ vceks'[k] = {} /\ \E j \in DOMAIN verdicts :
                                   verdicts[j].kds_error /\ VcekCacheKey(ReportOf(verdicts[j])) = k
  BY <1>2, <1>4 DEF VceksTrue
<1>7. CASE \E leaf \in vceks'[ck] : SigOk(Current, leaf) /\ Verified(leaf, "kds")
  <2>1. PICK leaf \in vceks'[ck] : SigOk(Current, leaf) /\ Verified(leaf, "kds")
    BY <1>7
  <2>2. /\ Current.chip_id \in Chips /\ leaf = VcekCert(Current.chip_id, Current.tcb)
        /\ vceks'[ck] = {VcekCert(Current.chip_id, Current.tcb)}
    BY <1>5, <2>1
  <2>3. Issued(leaf)
    BY <2>2, KdsIssued
  <2>4. ck[2] \in Chips /\ vceks'[ck] = {VcekCert(ck[2], ck[3])}
    BY <1>3, <2>2
  <2>5. Fetches(FALSE, Current)
    BY <1>2, <1>6, <2>4 DEF Fetches
  <2>6. QED BY <1>1, <2>1, <2>2, <2>3, <2>5, VerifiedKeeps
<1>8. CASE /\ \A leaf \in vceks'[ck] : ~SigOk(Current, leaf)
           /\ Verdict("-", failed, {}, {}) /\ chains' = chains
  <2>1. PICK v : v = [run |-> at[1], report |-> at[2], verified_by |-> "-",
                      kds_error |-> failed, chain_ok |-> {}, hwid |-> {}]
    OBVIOUS
  <2>2. ReportOf(v) = Current /\ v.kds_error = failed
    BY <2>1 DEF ReportOf, Current
  <2>3. \/ ck[2] \in Chips /\ vceks'[ck] = {VcekCert(ck[2], ck[3])}
        \/ vceks'[ck] = {} /\ \/ \E j \in DOMAIN verdicts :
                                   verdicts[j].kds_error /\ VcekCacheKey(ReportOf(verdicts[j])) = ck
                              \/ failed
    BY <1>3, <1>5 DEF Unfetched, ReportOf
  <2>4. Accounted(v)
    <3>1. \A k \in DOMAIN chains' : chains'[k] \in {{}, KdsChain(k[1], k[2])}
      BY <1>8 DEF RunsInv, DualInv, ChainsTrue
    <3>2. QED BY <1>2, <1>6, <2>2, <2>3, <3>1 DEF Accounted
  <2>5. \/ Current.signer # VcekKey(Current.chip_id, Current.tcb)
        \/ Unfetched(Current) \/ failed
    <3>1. VcekCert(Current.chip_id, Current.tcb).key = VcekKey(Current.chip_id, Current.tcb)
      BY DEF VcekCert, Cert
    <3>2. CASE vceks'[ck] = {VcekCert(Current.chip_id, Current.tcb)}
      <4>1. ~SigOk(Current, VcekCert(Current.chip_id, Current.tcb))
        BY <1>8, <3>2
      <4>2. QED BY <3>1, <4>1 DEF SigOk
    <3>3. QED BY <1>5, <3>2
  <2>6. /\ v.run = at[1] /\ v.report = at[2] /\ v.verified_by = "-" /\ v.chain_ok # {TRUE}
        /\ verdicts' = Append(verdicts, v) /\ Advance /\ runs' = runs
    BY <1>8, <2>1 DEF Verdict
  <2> HIDE DEF failed
  <2>7. QED BY <1>1, <1>3, <2>2, <2>4, <2>5, <2>6, VerdictKeeps
<1>9. QED BY <1>1, <1>7, <1>8

-----------------------------------------------------------------------------
(* The invariant of both programs. *)

\* A step that leaves the ledger alone preserves its invariant.
LEMMA LedgerUntouched ==
  ASSUME RunsInv, runs' = runs, rows' = rows, kds_cache' = kds_cache
  PROVE  LedgerInv'
BY DEF RunsInv, LedgerInv, CacheTrue, RowFields, RowKeyed, RowUnkeyed

\* Without a new verdict the old ones keep what they say.
LEMMA VerdictsUntouched ==
  ASSUME RunsInv, runs' = runs, verdicts' = verdicts
  PROVE  (\A i \in DOMAIN verdicts : VerdictTrue(verdicts[i]))'
<1>1. SUFFICES ASSUME NEW i \in (DOMAIN verdicts)' PROVE VerdictTrue(verdicts[i])'
  OBVIOUS
<1>2. VerdictTrue(verdicts[i]) /\ verdicts'[i] = verdicts[i]
  BY <1>1 DEF RunsInv, DualInv
<1>3. \A rep : Unfetched(rep)' <=> Unfetched(rep)
  BY DEF Unfetched
<1>4. PICK e : e = verdicts'[i]
  OBVIOUS
<1>5. ReportOf(e)' = ReportOf(e) /\ \A leaf : ChainedTo(e, leaf)' <=> ChainedTo(e, leaf)
  BY DEF ReportOf, ChainedTo
<1>6. VerdictTrue(e)'
  BY <1>2, <1>3, <1>4, <1>5 DEF VerdictTrue
<1>7. QED BY <1>4, <1>6 DEF VerdictTrue, ChainedTo, ReportOf, Unfetched

\* A step that leaves the report verifier alone preserves its invariant.
LEMMA DualUntouched ==
  ASSUME RunsInv, runs' = runs, dualVars' = dualVars
  PROVE  DualInv'
<1>1. at' = at /\ verdicts' = verdicts /\ vceks' = vceks /\ chains' = chains
  BY DEF dualVars
<1>2. AtReport' /\ VceksTrue' /\ ChainsTrue' /\ NoneSkipped'
  BY <1>1 DEF RunsInv, DualInv, AtReport, VceksTrue, ChainsTrue, NoneSkipped, ReportOf
<1>3. (\A i \in DOMAIN verdicts : VerdictTrue(verdicts[i]))'
  BY <1>1, VerdictsUntouched
<1>4. QED BY <1>1, <1>2, <1>3 DEF RunsInv, DualInv

\* A directory without a report adds no row.
LEMMA NoReportsKeeps ==
  ASSUME RunsInv, NoReports
  PROVE  LedgerInv'
BY LedgerUntouched DEF NoReports

\* A directory without a report-*.bin is left out.
LEMMA NoneNamedKeeps ==
  ASSUME RunsInv, NoneNamed
  PROVE  DualInv'
<1>1. /\ at[1] \in DOMAIN runs /\ runs[at[1]].named = <<>> /\ Advance /\ runs' = runs
      /\ verdicts' = verdicts /\ vceks' = vceks /\ chains' = chains
  BY DEF NoneNamed
<1>2. PICK a : a = at'
  OBVIOUS
<1>3. AtReport'
  BY <1>1, AdvanceKeeps
<1>4. NoneSkipped'
  <2>1. \A i \in DOMAIN runs : \A r \in DOMAIN runs[i].named :
          i < a[1] \/ (i = a[1] /\ r < a[2]) => i < at[1] \/ (i = at[1] /\ r < at[2])
    BY <1>1, <1>2, AdvanceKeeps
  <2>2. QED BY <1>1, <1>2, <2>1 DEF NoneSkipped, RunsInv, DualInv
<1>5. VceksTrue' /\ ChainsTrue'
  BY <1>1 DEF RunsInv, DualInv, VceksTrue, ChainsTrue, ReportOf
<1>6. (\A i \in DOMAIN verdicts : VerdictTrue(verdicts[i]))'
  BY <1>1, VerdictsUntouched
<1>7. QED BY <1>1, <1>3, <1>4, <1>5, <1>6 DEF RunsInv, DualInv

\* No row, no verdict and empty caches to begin with.
LEMMA RunsInit ==
  ASSUME Init
  PROVE  RunsInv
<1>1. Lawful(runs)
  <2>1. Lawful(<<>>)
    BY DEF Lawful
  <2>2. QED BY <2>1, RunsAssumption DEF Init
<1>2. LedgerInv
  BY DEF Init, LedgerInit, LedgerInv, CacheTrue, IsSequence
<1>3. at = <<1, 1>> /\ verdicts = <<>> /\ vceks = <<>> /\ chains = <<>>
  BY DEF Init, DualInit
<1>4. AtReport
  BY <1>1, <1>3 DEF AtReport, Lawful
<1>5. NoneSkipped
  <2>1. ASSUME NEW i \in DOMAIN runs, NEW r \in DOMAIN runs[i].named
        PROVE  ~(i < at[1] \/ (i = at[1] /\ r < at[2]))
    <3>1. i \in 1 .. Len(runs) /\ r \in 1 .. Len(runs[i].named)
      BY <1>1 DEF Lawful
    <3>2. QED BY <1>1, <1>3, <3>1 DEF Lawful
  <2>2. QED BY <2>1 DEF NoneSkipped
<1>6. QED BY <1>1, <1>2, <1>3, <1>4, <1>5 DEF RunsInv, DualInv, VceksTrue, ChainsTrue, IsSequence

\* The invariant of both programs, in every state.
LEMMA RunsAlways == Spec => []RunsInv
<1>1. Init => RunsInv
  BY RunsInit
<1>2. RunsInv /\ [Next]_vars => RunsInv'
  <2> SUFFICES ASSUME RunsInv, [Next]_vars PROVE RunsInv'
    OBVIOUS
  <2>1. CASE LedgerStep /\ UNCHANGED <<dualVars, appraisalVars>>
    <3>1. runs' = runs
      BY <2>1 DEF LedgerStep, NoReports, VcekRow, HostRow
    <3>2. LedgerInv'
      BY <2>1, NoReportsKeeps, VcekRowKeeps, HostRowKeeps DEF LedgerStep
    <3>3. DualInv'
      BY <2>1, <3>1, DualUntouched
    <3>4. QED BY <3>1, <3>2, <3>3 DEF RunsInv, Lawful
  <2>2. CASE DualStep /\ UNCHANGED <<ledgerVars, appraisalVars>>
    <3>1. runs' = runs
      BY <2>2 DEF DualStep, NoneNamed, ByHost, Masked, ByKds, Verified, Verdict
    <3>2. DualInv'
      BY <2>2, NoneNamedKeeps, ByHostKeeps, MaskedKeeps, ByKdsKeeps DEF DualStep
    <3>3. LedgerInv'
      BY <2>2, <3>1, LedgerUntouched DEF ledgerVars
    <3>4. QED BY <3>1, <3>2, <3>3 DEF RunsInv, Lawful
  <2>3. CASE Appraise \/ UNCHANGED vars
    <3>1. runs' = runs /\ rows' = rows /\ kds_cache' = kds_cache /\ dualVars' = dualVars
      BY <2>3 DEF Appraise, vars, ledgerVars
    <3>2. QED BY <3>1, LedgerUntouched, DualUntouched DEF RunsInv, Lawful
  <2>4. QED BY <2>1, <2>2, <2>3 DEF Next
<1>3. QED BY <1>1, <1>2, PTL DEF Spec

-----------------------------------------------------------------------------
(* The theorems. *)

(* A row of fingerprint_ledger.py that reads OK is about one key holder,   *)
(* and with a CHIP_ID about one chip, for every report of the run.         *)
THEOREM OneKeyHolder == Spec => []RowsSound
<1>1. RunsInv => RowsSound
  <2>1. SUFFICES ASSUME RunsInv, NEW i \in DOMAIN rows, rows[i].signature_ok = {TRUE},
                        NEW rep \in Files(runs[rows[i].run].reports)
        PROVE  /\ {rep.signer} = rows[i].key
               /\ rows[i].signing_key = "VCEK" /\ rows[i].chip_id # ZERO =>
                    rep.signer = VcekKey(rows[i].chip_id, rows[i].tcb)
    BY DEF RowsSound
  <2>2. RowKeyed(i)
    BY <2>1 DEF RunsInv, LedgerInv, RowUnkeyed
  <2>3. PICK c : /\ rows[i].key = {c.key} /\ rows[i].signature_ok = {AllVerify(runs[rows[i].run].reports, c)}
                 /\ OfVcek(rows[i]) => c = VcekCert(rows[i].chip_id, rows[i].tcb)
    BY <2>2 DEF RowKeyed
  <2>4. rep.signer = c.key
    BY <2>1, <2>3 DEF AllVerify, SigOk, Files
  <2>5. VcekCert(rows[i].chip_id, rows[i].tcb).key = VcekKey(rows[i].chip_id, rows[i].tcb)
    BY DEF VcekCert, Cert
  <2>6. QED BY <2>3, <2>4, <2>5 DEF OfVcek
<1>2. QED BY <1>1, RunsAlways, PTL

(* A row of fingerprint_ledger.py with CHIP_ID but no key is explained by  *)
(* a row whose own request for this certificate failed; one that reads     *)
(* False holds a report that this chip has not signed at this TCB.         *)
THEOREM EveryGapOwned == Spec => []GapsExplained
<1>1. RunsInv => GapsExplained
  <2>1. SUFFICES ASSUME RunsInv, NEW i \in DOMAIN rows, OfVcek(rows[i])
        PROVE  /\ rows[i].key = {} => \E j \in 1 .. i : /\ rows[j].kds_error
                                                        /\ rows[j].chip_id = rows[i].chip_id
                                                        /\ rows[j].tcb = rows[i].tcb
               /\ rows[i].signature_ok = {FALSE} =>
                    \E rep \in Files(runs[rows[i].run].reports) :
                      rep.signer # VcekKey(rows[i].chip_id, rows[i].tcb)
    BY DEF GapsExplained, OfVcek
  <2>2. CASE RowUnkeyed(i)
    BY <2>1, <2>2 DEF RowUnkeyed, CacheKey
  <2>3. CASE RowKeyed(i)
    <3>1. PICK c : /\ rows[i].key = {c.key}
                   /\ rows[i].signature_ok = {AllVerify(runs[rows[i].run].reports, c)}
                   /\ c = VcekCert(rows[i].chip_id, rows[i].tcb)
      BY <2>1, <2>3 DEF RowKeyed
    <3>2. c.key = VcekKey(rows[i].chip_id, rows[i].tcb)
      BY <3>1 DEF VcekCert, Cert
    <3>3. rows[i].signature_ok = {FALSE} => ~AllVerify(runs[rows[i].run].reports, c)
      BY <3>1
    <3>4. QED BY <3>1, <3>2, <3>3 DEF AllVerify, SigOk, Files
  <2>4. QED BY <2>1, <2>2, <2>3 DEF RunsInv, LedgerInv
<1>2. QED BY <1>1, RunsAlways, PTL

\* A genuine report of a chip names the TCB its key belongs to, and its chip or none.
LEMMA GenuineNames ==
  ASSUME NEW rep, Unforged(rep), NEW chip, NEW tcb, rep.signer = VcekKey(chip, tcb)
  PROVE  rep.tcb = tcb /\ rep.chip_id \in {chip, ZERO}
BY DEF Unforged, IsGenuine, VcekKey

(* A report for which dual_verify.py prints chain_ok was made by an AMD    *)
(* key of the kind it claims, and when the hwID matches, by its own chip   *)
(* at its own TCB.                                                         *)
THEOREM ChainMeansAmd == Spec => []ReadsGenuine
<1>1. RunsInv => ReadsGenuine
  <2>1. SUFFICES ASSUME RunsInv, NEW i \in DOMAIN verdicts, verdicts[i].chain_ok = {TRUE},
                        NEW rep, rep = ReportOf(verdicts[i])
        PROVE  /\ rep.signer[1] = (IF rep.signing_key = "VLEK" THEN "VLEK" ELSE "VCEK")
               /\ verdicts[i].hwid = {TRUE} => rep.signer = VcekKey(rep.chip_id, rep.tcb)
    BY DEF ReadsGenuine, ReportOf
  <2>2. VerdictTrue(verdicts[i])
    BY <2>1 DEF RunsInv, DualInv
  <2>3. PICK leaf : /\ rep.signer = leaf.key /\ Issued(leaf)
                    /\ verdicts[i].hwid = HwidEquals(leaf, rep)
                    /\ leaf.issuer = AskKey(ChainKey(rep)[1], ChainKey(rep)[2])
    BY <2>1, <2>2 DEF VerdictTrue, ChainedTo, SigOk
  <2>4. Unforged(rep)
    BY <2>1, <2>2 DEF VerdictTrue, RunsInv, Lawful, ReportOf
  <2>5. leaf.issuer[1] = "ASK" /\ leaf.issuer[2] = (IF rep.signing_key = "VLEK" THEN "vlek" ELSE "vcek")
    BY <2>3 DEF AskKey, ChainKey
  <2>6. CASE \E c \in Chips : leaf = VcekCert(c, leaf.key[3])
    <3>1. PICK c \in Chips : leaf = VcekCert(c, leaf.key[3])
      BY <2>6
    <3>2. PICK tcb : tcb = leaf.key[3]
      OBVIOUS
    <3>3. leaf.key = VcekKey(c, tcb) /\ leaf.hwid = c /\ leaf.issuer[2] = "vcek"
      BY <3>1, <3>2 DEF VcekCert, Cert, AskKey
    <3>4. rep.tcb = tcb
      BY <2>3, <2>4, <3>3, GenuineNames
    <3>5. verdicts[i].hwid = {TRUE} => c = rep.chip_id
      BY <2>3, <3>3 DEF HwidEquals
    <3>6. rep.signer[1] = "VCEK"
      BY <2>3, <3>3 DEF VcekKey
    <3>7. QED BY <2>3, <2>5, <3>3, <3>4, <3>5, <3>6
  <2>7. CASE leaf = VlekCert(leaf.key[2])
    <3>1. leaf.key[1] = "VLEK" /\ leaf.hwid = "-" /\ leaf.issuer[2] = "vlek"
      BY <2>7 DEF VlekCert, VlekKey, Cert, AskKey
    <3>2. verdicts[i].hwid = {}
      BY <2>3, <3>1 DEF HwidEquals
    <3>3. QED BY <2>3, <2>5, <3>1, <3>2
  <2>8. QED BY <2>3, <2>5, <2>6, <2>7 DEF Issued
<1>2. QED BY <1>1, RunsAlways, PTL

(* fingerprint_ledger.py and dual_verify.py never contradict each other    *)
(* about the reports that both read of a run, whichever of their requests  *)
(* fail.                                                                   *)
THEOREM NoContradiction == Spec => []ProgramsAgree
<1>1. RunsInv /\ RowsSound /\ GapsExplained => ProgramsAgree
  <2>1. SUFFICES ASSUME RunsInv, RowsSound, GapsExplained, DualDone,
                        NEW i \in DOMAIN rows, rows[i].signing_key = "VCEK", rows[i].chip_id # ZERO,
                        NEW d, d = runs[rows[i].run]
        PROVE  /\ rows[i].signature_ok = {TRUE} =>
                    \A v \in VerdictsOf(rows[i].run) :
                      v.verified_by = "-" /\ d.named[v.report] \in Files(d.reports) =>
                        d.named[v.report].chip_id = ZERO \/ Unfetched(d.named[v.report])
               /\ rows[i].signature_ok = {FALSE} /\ Files(d.reports) \subseteq Files(d.named) =>
                    ~ \A v \in VerdictsOf(rows[i].run) :
                        /\ v.verified_by = "kds" /\ v.hwid = {TRUE}
                        /\ d.named[v.report].chip_id = rows[i].chip_id
                        /\ d.named[v.report].tcb = rows[i].tcb
    BY DEF ProgramsAgree
  <2>2. ASSUME NEW v \in VerdictsOf(rows[i].run)
        PROVE  /\ VerdictTrue(v) /\ v.run = rows[i].run
               /\ ReportOf(v) = d.named[v.report] /\ v.report \in DOMAIN d.named
    BY <2>1 DEF VerdictsOf, RunsInv, DualInv, VerdictTrue, ReportOf
  <2>3. rows[i].run \in DOMAIN runs /\ rows[i].run < at[1]
    BY <2>1 DEF RunsInv, LedgerInv, RowFields, Lawful, DualDone, DualInv, AtReport
  <2>4. ASSUME rows[i].signature_ok = {TRUE}, NEW v \in VerdictsOf(rows[i].run), v.verified_by = "-",
               NEW rep, rep = d.named[v.report], rep \in Files(d.reports), rep.chip_id # ZERO
        PROVE  Unfetched(rep)
    <3>1. rep.signer = VcekKey(rows[i].chip_id, rows[i].tcb)
      BY <2>1, <2>4 DEF RowsSound
    <3>2. Unforged(rep)
      BY <2>1, <2>2, <2>3, <2>4 DEF RunsInv, Lawful
    <3>3. rep.tcb = rows[i].tcb /\ rep.chip_id = rows[i].chip_id
      BY <2>4, <3>1, <3>2, GenuineNames
    <3>4. QED BY <2>2, <2>4, <3>1, <3>3 DEF VerdictTrue
  <2>5. ASSUME rows[i].signature_ok = {FALSE}, Files(d.reports) \subseteq Files(d.named),
               \A v \in VerdictsOf(rows[i].run) : /\ v.verified_by = "kds"
                                                  /\ d.named[v.report].chip_id = rows[i].chip_id
                                                  /\ d.named[v.report].tcb = rows[i].tcb
        PROVE  FALSE
    <3>0. PICK rep \in Files(d.named) : rep.signer # VcekKey(rows[i].chip_id, rows[i].tcb)
      BY <2>1, <2>5 DEF GapsExplained
    <3>1. PICK r \in DOMAIN d.named : d.named[r].signer # VcekKey(rows[i].chip_id, rows[i].tcb)
      BY <3>0 DEF Files
    <3>2. PICK j \in DOMAIN verdicts : verdicts[j].run = rows[i].run /\ verdicts[j].report = r
      BY <2>1, <2>3, <3>1 DEF RunsInv, DualInv, NoneSkipped
    <3>3. verdicts[j] \in VerdictsOf(rows[i].run)
      BY <3>2 DEF VerdictsOf
    <3>4. VerdictTrue(verdicts[j]) /\ ReportOf(verdicts[j]) = d.named[r]
      BY <2>2, <3>2, <3>3
    <3>5. QED BY <2>5, <3>1, <3>2, <3>3, <3>4 DEF VerdictTrue
  <2>6. QED BY <2>4, <2>5
<1>2. QED BY <1>1, RunsAlways, OneKeyHolder, EveryGapOwned, PTL

\* When the last flag of a try block is there, every check of it went through.
LEMMA LastPassed ==
  ASSUME NEW checks, NEW n \in Nat, DOMAIN checks = 1 .. n,
         NEW f \in Passed(checks), \A i \in 1 .. n : i # n => checks[i][1] # f
  PROVE  \A k \in 1 .. n : checks[k][2]
<1>1. PICK i \in DOMAIN checks : checks[i][1] = f /\ \A k \in 1 .. i : checks[k][2]
  BY DEF Passed
<1>2. QED BY <1>1

\* A flag that is there says that its comparison holds.
LEMMA FlagMeans ==
  ASSUME NEW condition \in BOOLEAN, NEW flag
  PROVE  \A f \in Flag(condition, flag) : f = flag /\ condition
BY DEF Flag

\* The last of three checks went through: they all did.
LEMMA AllPassed3 ==
  ASSUME NEW f1, NEW f2, NEW f3, NEW b1 \in BOOLEAN, NEW b2 \in BOOLEAN, NEW b3 \in BOOLEAN,
         f3 \in Passed(<< <<f1, b1>>, <<f2, b2>>, <<f3, b3>> >>), f3 \notin {f1, f2}
  PROVE  b1 /\ b2 /\ b3
<1>1. PICK checks : checks = << <<f1, b1>>, <<f2, b2>>, <<f3, b3>> >>
  OBVIOUS
<1>2. DOMAIN checks = 1 .. 3
  BY <1>1
<1>3. checks[1] = <<f1, b1>> /\ checks[2] = <<f2, b2>> /\ checks[3] = <<f3, b3>>
  BY <1>1
<1>4. \A k \in 1 .. 3 : checks[k][2]
  <2>1. \A i \in 1 .. 3 : i # 3 => checks[i][1] # f3
    BY <1>3
  <2>2. QED BY <1>1, <1>2, <2>1, LastPassed
<1>5. checks[1][2] /\ checks[2][2] /\ checks[3][2]
  BY <1>4
<1>6. QED BY <1>3, <1>5

\* The last of five checks went through: they all did.
LEMMA AllPassed5 ==
  ASSUME NEW f1, NEW f2, NEW f3, NEW f4, NEW f5,
         NEW b1 \in BOOLEAN, NEW b2 \in BOOLEAN, NEW b3 \in BOOLEAN, NEW b4 \in BOOLEAN, NEW b5 \in BOOLEAN,
         f5 \in Passed(<< <<f1, b1>>, <<f2, b2>>, <<f3, b3>>, <<f4, b4>>, <<f5, b5>> >>),
         f5 \notin {f1, f2, f3, f4}
  PROVE  b1 /\ b2 /\ b3 /\ b4 /\ b5
<1>1. PICK checks : checks = << <<f1, b1>>, <<f2, b2>>, <<f3, b3>>, <<f4, b4>>, <<f5, b5>> >>
  OBVIOUS
<1>2. DOMAIN checks = 1 .. 5
  BY <1>1
<1>3. /\ checks[1] = <<f1, b1>> /\ checks[2] = <<f2, b2>> /\ checks[3] = <<f3, b3>>
      /\ checks[4] = <<f4, b4>> /\ checks[5] = <<f5, b5>>
  BY <1>1
<1>4. \A k \in 1 .. 5 : checks[k][2]
  <2>1. \A i \in 1 .. 5 : i # 5 => checks[i][1] # f5
    BY <1>3
  <2>2. QED BY <1>1, <1>2, <2>1, LastPassed
<1>5. checks[1][2] /\ checks[2][2] /\ checks[3][2] /\ checks[4][2] /\ checks[5][2]
  BY <1>4
<1>6. QED BY <1>3, <1>5

-----------------------------------------------------------------------------

\* The Google verifier's operators on reports and checks are those of Evidence.
LEMMA GoogleShares ==
  /\ \A c : G!Passed(c) = Passed(c)
  /\ \A b, f : G!Flag(b, f) = Flag(b, f)
  /\ \A net, s, x : G!Reached(net, s, x) = Reached(net, s, x)
  /\ \A d : G!Nonce(d) = Nonce(d)
  /\ \A b : G!Digest(b) = Digest(b)
  /\ \A p, r : G!KdsVcek(p, r) = KdsVcek(p, r)
  /\ \A p, k : G!KdsChain(p, k) = KdsChain(p, k)
  /\ \A c, ch : G!ChainOk(c, ch) <=> ChainOk(c, ch)
  /\ \A rep, c : G!SigOk(rep, c) <=> SigOk(rep, c)
  /\ \A c, r : G!HwidEquals(c, r) = HwidEquals(c, r)
BY DEF G!Passed, Passed, G!Flag, Flag, G!Reached, Reached, G!Nonce, Nonce, G!Digest, Digest,
   G!KdsVcek, KdsVcek, G!KdsChain, KdsChain, G!ChainOk, ChainOk, G!SigOk, SigOk, G!HwidEquals, HwidEquals,
   G!VcekCert, VcekCert, G!Cert, Cert, G!VcekKey, VcekKey, G!AskKey, AskKey, G!ArkKey, ArkKey

\* A Google SNP report with all four flags was made by its chip at its TCB over the nonce: the
\* signature is compared with the VCEK that KDS hands out for the CHIP_ID in the report.
LEMMA SnpGenuine ==
  ASSUME NEW d, NEW net, NEW rep, SnpFlags \subseteq G!SnpReads(d, rep, net)
  PROVE  OfItsChip(rep) /\ rep.data = Nonce(d)
<1> DEFINE vcek == G!Reached(net, "kds", G!KdsVcek("Milan", rep))
           chain == G!Reached(net, "chain", G!KdsChain("vcek", "Milan"))
           sig == \A c \in vcek : G!SigOk(rep, c)
           linked == \A c \in vcek, ch \in chain : G!ChainOk(c, ch)
           hwid == \A c \in vcek : G!HwidEquals(c, rep) = {TRUE}
           checks == << <<"vcek", vcek # {}>>, <<"cert_chain", chain # {}>>,
                        <<"report_sig_ok", sig>>, <<"chain_ok", linked>>, <<"vcek_hwid_equals_chip_id", hwid>> >>
           nonce == rep.data = G!Nonce(d)
<1>1. \A f \in SnpFlags : f \in Passed(checks) \/ (f = "nonce_ok" /\ nonce)
  <2>1. G!SnpReads(d, rep, net) = G!Passed(checks) \cup G!Flag(nonce, "nonce_ok")
    BY DEF G!SnpReads, G!SnpChecks
  <2>2. nonce \in BOOLEAN
    OBVIOUS
  <2> HIDE DEF checks, nonce
  <2>3. G!SnpReads(d, rep, net) = Passed(checks) \cup Flag(nonce, "nonce_ok")
    BY <2>1, GoogleShares
  <2>4. QED BY <2>2, <2>3, FlagMeans
<1>2. /\ sig \in BOOLEAN /\ linked \in BOOLEAN /\ hwid \in BOOLEAN
      /\ (vcek # {}) \in BOOLEAN /\ (chain # {}) \in BOOLEAN
  OBVIOUS
<1>3. vcek = Reached(net, "kds", KdsVcek("Milan", rep))
  BY GoogleShares
<1>4. sig <=> \A c \in vcek : SigOk(rep, c)
  BY GoogleShares
<1>5. nonce <=> rep.data = Nonce(d)
  BY GoogleShares
<1>6. \A f \in Passed(checks) : f # "nonce_ok"
  <2>1. DOMAIN checks = 1 .. 5 /\ \A i \in 1 .. 5 : checks[i][1] # "nonce_ok"
    OBVIOUS
  <2> HIDE DEF checks
  <2>2. QED BY <2>1 DEF Passed
<1>7. vcek # {} /\ sig
  <2>1. "vcek_hwid_equals_chip_id" \in Passed(checks)
    BY <1>1 DEF SnpFlags
  <2> HIDE DEF vcek, chain, sig, linked, hwid
  <2>2. PICK b1 \in BOOLEAN, b2 \in BOOLEAN : b1 = (vcek # {}) /\ b2 = (chain # {})
    OBVIOUS
  <2>3. checks = << <<"vcek", b1>>, <<"cert_chain", b2>>,
                    <<"report_sig_ok", sig>>, <<"chain_ok", linked>>, <<"vcek_hwid_equals_chip_id", hwid>> >>
    BY <2>2
  <2> HIDE DEF checks
  <2>4. b1 /\ sig
    BY <1>2, <2>1, <2>3, AllPassed5
  <2>5. QED BY <2>2, <2>4
<1> HIDE DEF checks, sig, vcek, nonce
<1>8. rep.data = Nonce(d)
  BY <1>1, <1>5, <1>6 DEF SnpFlags
<1>9. \A c \in vcek : c.key = VcekKey(rep.chip_id, rep.tcb)
  BY <1>3 DEF Reached, KdsVcek, VcekCert, Cert
<1>10. QED BY <1>4, <1>7, <1>8, <1>9 DEF OfItsChip, SigOk

(* The last member of a set of positions: downward induction along a chain *)
(* of certificates, in the form that needs no operator parameter.          *)
LEMMA LastExists ==
  ASSUME NEW n \in Nat, NEW T \in SUBSET (1 .. n), T # {}
  PROVE  \E x \in T : \A y \in T : y <= x
<1> DEFINE R == StrictSubsetOrdering(Nat)
           D == FiniteSubsetsOf(Nat)
           TT == {k .. n : k \in T}
<1>1. IsWellFoundedOn(R, D)
  BY FS_StrictSubsetOrderingWellFounded
<1>2. TT \subseteq D
  <2>1. ASSUME NEW k \in T PROVE (k .. n) \in D
    BY FS_Interval DEF FiniteSubsetsOf
  <2>2. QED BY <2>1
<1>3. TT # {}
  OBVIOUS
<1>4. PICK last \in TT : \A after \in TT : ~ (<<after, last>> \in R)
  <2> HIDE DEF R, D, TT
  <2> QED BY <1>1, <1>2, <1>3, WFMin
<1>5. PICK x \in T : last = x .. n
  BY <1>4
<1>6. ASSUME NEW y \in T, x < y PROVE FALSE
  <2>1. (y .. n) \subseteq (x .. n) /\ (y .. n) # (x .. n)
    <3>1. x \in x .. n /\ x \notin y .. n
      BY <1>6
    <3>2. QED BY <1>6, <3>1
  <2>2. <<y .. n, x .. n>> \in R
    BY <2>1, <1>6 DEF StrictSubsetOrdering
  <2>3. QED BY <2>2, <1>4, <1>5
<1>7. QED BY <1>6

\* A digest tells what it is of.
LEMMA DigestInjective ==
  ASSUME NEW S, NEW a \in Seq(S), NEW b \in Seq(S), Digest(a) = Digest(b)
  PROVE  a = b
<1> DEFINE T == S \cup {"digest(", ")"}
<1>1. /\ <<"digest(">> \in Seq(T) /\ <<")">> \in Seq(T) /\ a \in Seq(T) /\ b \in Seq(T)
  BY Z3
<1> HIDE DEF T
<1>2. <<"digest(">> \o a \in Seq(T) /\ <<"digest(">> \o b \in Seq(T)
  BY <1>1, ConcatProperties
<1>3. <<"digest(">> \o a = <<"digest(">> \o b
  <2>1. (<<"digest(">> \o a) \o <<")">> = (<<"digest(">> \o b) \o <<")">>
    BY DEF Digest
  <2>2. QED BY <1>1, <1>2, <2>1, ConcatSimplifications
<1>4. QED BY <1>1, <1>3, ConcatSimplifications

\* Where a chain ends with Intel's root, its first key is Intel's or a platform's.
LEMMA PckChain ==
  ASSUME NEW q, G!Quoted(q), SelfContained(q.pck), q.pck[Len(q.pck)] = G!IntelRoot
  PROVE  q.pck[1].key \in {G!PckKey, G!IntelRoot.key}
<1> DEFINE n == Len(q.pck)
           Intels == {G!PckKey, G!IntelRoot.key}
           T == {i \in 1 .. n : q.pck[i].key \notin Intels}
<1>1. n \in Nat \ {0} /\ DOMAIN q.pck = 1 .. n
  BY DEF G!Quoted
<1>2. SUFFICES ASSUME 1 \in T PROVE FALSE
  BY <1>1
<1>3. PICK i \in T : \A j \in T : j <= i
  BY <1>1, <1>2, LastExists
<1>4. i # n
  OBVIOUS
<1>5. i \in 1 .. n /\ i + 1 \in 1 .. n /\ q.pck[i + 1].key \in Intels
  BY <1>1, <1>3, <1>4
<1>6. q.pck[i].issuer = q.pck[i + 1].key
  BY <1>1, <1>5 DEF SelfContained
<1>7. q.pck[i].issuer = G!IntelRoot.key
  BY <1>1, <1>5, <1>6 DEF G!Quoted
<1>8. q.pck[i].key \in Intels
  BY <1>1, <1>5, <1>7 DEF G!Quoted
<1>9. QED BY <1>8

\* A TDX quote with all its flags was made by Intel's quoting enclave over the nonce: the chain of
\* certificates ends at Intel's root, and Intel certifies only keys of genuine platforms.
LEMMA TdxGenuine ==
  ASSUME NEW d, NEW net, NEW q, G!Quoted(q), TdxFlags \subseteq G!TdxReads(d, q, net)
  PROVE  q.signer = G!QuotingKey /\ q.data = Nonce(d)
<1> DEFINE b1 == q.signer = q.ak
           b2 == q.cert_data_type = 6
           b3 == q.qe.signer = q.pck[1].key
           b4 == G!SelfContained(q.pck)
           b5 == "intel" \in net
           checks == << <<"quote_sig_ok", b1>>, <<"type_6", b2>>, <<"qe_report_sig_ok", b3>>,
                        <<"pck_chain", b4>>, <<"intel_root", b5>> >>
           passed == Passed(checks)
           binds == "type_6" \in passed /\ G!QeBinds(q)
           rooted == "intel_root" \in passed /\ q.pck[Len(q.pck)] = G!IntelRoot
           nonce == q.data = G!Nonce(d)
<1>1. G!TdxReads(d, q, net) =
        passed \cup Flag(binds, "qe_binds_ak") \cup Flag(rooted, "root_is_intel_sgx_root") \cup Flag(nonce, "nonce_ok")
  <2>1. G!Passed(checks) = passed
    <3> HIDE DEF checks
    <3>1. QED BY GoogleShares
  <2>2. G!TdxReads(d, q, net) =
          G!Passed(checks)
            \cup G!Flag("type_6" \in G!Passed(checks) /\ G!QeBinds(q), "qe_binds_ak")
            \cup G!Flag("intel_root" \in G!Passed(checks) /\ q.pck[Len(q.pck)] = G!IntelRoot, "root_is_intel_sgx_root")
            \cup G!Flag(q.data = G!Nonce(d), "nonce_ok")
    BY DEF G!TdxReads
  <2> HIDE DEF checks, passed
  <2>3. QED BY <2>1, <2>2, GoogleShares
<1>2. /\ b1 \in BOOLEAN /\ b2 \in BOOLEAN /\ b3 \in BOOLEAN /\ b4 \in BOOLEAN /\ b5 \in BOOLEAN
      /\ binds \in BOOLEAN /\ rooted \in BOOLEAN /\ nonce \in BOOLEAN
  BY DEF G!SelfContained
<1>3. \A f \in passed : f \notin {"qe_binds_ak", "root_is_intel_sgx_root", "nonce_ok"}
  <2>1. DOMAIN checks = 1 .. 5 /\ \A i \in 1 .. 5 : checks[i][1] \notin {"qe_binds_ak", "root_is_intel_sgx_root", "nonce_ok"}
    OBVIOUS
  <2> HIDE DEF checks
  <2>2. QED BY <2>1 DEF Passed
<1>4. "intel_root" \in passed => b1 /\ b2 /\ b3 /\ b4 /\ b5
  <2> HIDE DEF b1, b2, b3, b4, b5
  <2>1. QED BY <1>2, AllPassed5
<1>5. binds /\ rooted /\ nonce
  <2> HIDE DEF passed, binds, rooted, nonce
  <2>1. QED BY <1>1, <1>2, <1>3, FlagMeans DEF TdxFlags
<1>6. q.data = Nonce(d)
  BY <1>5, GoogleShares
<1>7. b1 /\ b3 /\ b4
  BY <1>4, <1>5
<1>8. q.pck[1].key \in {G!PckKey, G!IntelRoot.key}
  <2>1. SelfContained(q.pck)
    BY <1>7 DEF SelfContained, G!SelfContained
  <2>2. QED BY <1>5, <2>1, PckChain
<1>9. q.qe.signer = G!PckKey
  BY <1>7, <1>8 DEF G!Quoted
<1>10. Digest(q.ak) = Digest(G!QuotingKey)
  BY <1>5, <1>9, GoogleShares DEF G!Quoted, G!QeBinds
<1> DEFINE S == STRING \cup {"AK"}
<1>11. q.ak \in Seq(S) /\ G!QuotingKey \in Seq(S)
  <2>1. q.ak \in Seq(STRING) /\ STRING \subseteq S /\ "AK" \in S
    BY DEF G!Quoted
  <2> HIDE DEF S
  <2>2. <<"AK">> \in Seq(S)
    BY <2>1
  <2>3. QED BY <2>1, <2>2, SeqMonotonic DEF G!QuotingKey
<1> HIDE DEF S
<1>12. q.ak = G!QuotingKey
  BY <1>10, <1>11, DigestInjective
<1>13. QED BY <1>6, <1>7, <1>12

\* A flag of a section of the row is one of the program's flags for the one file of that section.
LEMMA GcpSections ==
  ASSUME NEW d, LawfulDir("gcp_verify", d), NEW net, NEW flag
  PROVE  /\ \A rep \in d.report : <<"snp", flag>> \in G!GcpReads(d, net) => flag \in G!SnpReads(d, rep, net)
         /\ \A q \in d.quote : <<"tdx", flag>> \in G!GcpReads(d, net) => flag \in G!TdxReads(d, q, net)
         /\ \A ek \in d.ek : <<"ek", flag>> \in G!GcpReads(d, net) => flag \in G!EkReads(ek, net)
         /\ \A tok \in d.token : <<"token", flag>> \in G!GcpReads(d, net) => flag \in G!JwtReads(tok, net)
<1>1. ASSUME NEW section, <<section, flag>> \in G!GcpReads(d, net)
      PROVE  \/ section = "snp" /\ \E rep \in d.report : flag \in G!SnpReads(d, rep, net)
             \/ section = "tdx" /\ \E q \in d.quote : flag \in G!TdxReads(d, q, net)
             \/ section = "ek" /\ \E ek \in d.ek : flag \in G!EkReads(ek, net)
             \/ section = "token" /\ \E tok \in d.token : flag \in G!JwtReads(tok, net)
  BY <1>1 DEF G!GcpReads, G!Tagged
<1>2. AtMostOne(d.report) /\ AtMostOne(d.quote) /\ AtMostOne(d.ek) /\ AtMostOne(d.token)
  BY DEF LawfulDir
<1>3. QED BY <1>1, <1>2 DEF AtMostOne

\* Whoever serves a key, or an authority's certificate, under Google's URL is Google.
LEMMA PublishedByGoogle ==
  ASSUME NEW net
  PROVE  /\ \A ek : "issuer_sig_ok" \in G!EkReads(ek, net) /\ ek.aia = "google" => ek.issuer # Foreign
         /\ \A tok : "sig_ok" \in G!JwtReads(tok, net) /\ tok.iss = "google" => tok.signer # Foreign
<1>1. ASSUME NEW ek, "issuer_sig_ok" \in G!EkReads(ek, net), ek.aia = "google" PROVE ek.issuer # Foreign
  <2>1. ek.aia \in DOMAIN IssuerAt /\ ek.issuer = IssuerAt[ek.aia]
    BY <1>1 DEF G!EkReads, G!Flag
  <2>2. QED BY <1>1, <2>1, PublishersAssumption
<1>2. ASSUME NEW tok, "sig_ok" \in G!JwtReads(tok, net), tok.iss = "google" PROVE tok.signer # Foreign
  <2>1. G!TokenSigOk(tok, tok.iss, net)
    BY <1>2 DEF G!JwtReads, G!Flag
  <2>2. tok.iss \in DOMAIN KeysAt /\ tok.kid \in DOMAIN KeysAt[tok.iss] /\ tok.signer = KeysAt[tok.iss][tok.kid]
    BY <2>1 DEF G!TokenSigOk, G!PublishedKey, G!Reached
  <2>3. QED BY <1>2, <2>2, PublishersAssumption
<1>3. QED BY <1>1, <1>2

\* gcp_verify.py as a whole.
LEMMA GoogleGenuine ==
  ASSUME NEW d, LawfulDir("gcp_verify", d), NEW net, row = G!GcpReads(d, net)
  PROVE  GoogleTrue(d)
<1>1. ASSUME NEW rep \in d.report, Tags("snp", SnpFlags) \subseteq row
      PROVE  OfItsChip(rep) /\ rep.data = Nonce(d)
  <2>1. SnpFlags \subseteq G!SnpReads(d, rep, net)
    BY <1>1, GcpSections DEF Tags
  <2>2. QED BY <2>1, SnpGenuine
<1>2. ASSUME NEW q \in d.quote, Tags("tdx", TdxFlags) \subseteq row
      PROVE  q.signer = G!QuotingKey /\ q.data = Nonce(d)
  <2>1. TdxFlags \subseteq G!TdxReads(d, q, net)
    BY <1>2, GcpSections DEF Tags
  <2>2. G!Quoted(q)
    BY <1>2 DEF LawfulDir
  <2>3. QED BY <2>1, <2>2, TdxGenuine
<1>3. QED BY <1>1, <1>2, GcpSections, PublishedByGoogle DEF GoogleTrue

-----------------------------------------------------------------------------
(* bind_verify *)

\* The reports it compares.
Three == {"r0", "r-ek", "r-jwt"}

\* A flag tagged with the name of a report is one that this report has earned.
LEMMA BindSections ==
  ASSUME NEW d, NEW up, NEW i \in 1 .. 3, NEW flag, <<G!Names[i], flag>> \in G!BindReads(d, up)
  PROVE  flag \in G!BindReportReads(d, up, i)
<1>1. G!Names[1] = "r0" /\ G!Names[2] = "r-ek" /\ G!Names[3] = "r-jwt"
  BY DEF G!Names
<1>2. ASSUME NEW section, <<section, flag>> \in G!BindReads(d, up)
      PROVE  \/ section \in {"ek", "token"}
             \/ \E j \in 1 .. 3 : section = G!Names[j] /\ flag \in G!BindReportReads(d, up, j)
  BY <1>2 DEF G!BindReads, G!Tagged
<1>3. PICK j \in 1 .. 3 : G!Names[i] = G!Names[j] /\ flag \in G!BindReportReads(d, up, j)
  BY <1>1, <1>2
<1>4. i = j
  BY <1>1, <1>3
<1>5. QED BY <1>3, <1>4

\* The one report of this name is under a key whose certificate serves it.
LEMMA BindReport ==
  ASSUME NEW d, NEW up, NEW i \in 1 .. 3, NEW rep, d.reports[G!Names[i]] = {rep},
         BindFlags \subseteq G!BindReportReads(d, up, i)
  PROVE  /\ \E c \in G!VcekAt(d, up, i) : SigOk(rep, c)
         /\ \E c \in G!VcekAt(d, up, i) : HwidEquals(c, rep) = {TRUE}
<1>1. \A f \in G!BindReportReads(d, up, i) :
        \/ f = "signature_ok_with_kds_vcek" /\ \E c \in G!VcekAt(d, up, i) : G!SigOk(rep, c)
        \/ f = "vcek_chain_to_ark_ok"
        \/ f = "hwid_equals_chip_id" /\ \E c \in G!VcekAt(d, up, i) : G!HwidEquals(c, rep) = {TRUE}
        \/ f = "report_data_binding_ok"
  <2> DEFINE sig(r, c) == G!Flag(G!SigOk(r, c), "signature_ok_with_kds_vcek")
             linked(c) == G!Flag(\E ch \in G!Reached(up, "chain", G!KdsChain("vcek", "Milan")) : G!ChainOk(c, ch),
                                 "vcek_chain_to_ark_ok")
             hwid(r, c) == G!Flag(G!HwidEquals(c, r) = {TRUE}, "hwid_equals_chip_id")
             bound(r) == G!Flag({r.data} = G!Expected(d, G!Names[i]), "report_data_binding_ok")
             V == G!VcekAt(d, up, i)
  <2>1. \A f \in G!BindReportReads(d, up, i) :
          f \in UNION {(UNION {sig(r, c) \cup linked(c) \cup hwid(r, c) : c \in V}) \cup bound(r) :
                         r \in d.reports[G!Names[i]]}
    BY DEF G!BindReportReads
  <2>2. /\ \A c : \A f \in sig(rep, c) : f = "signature_ok_with_kds_vcek" /\ G!SigOk(rep, c)
        /\ \A c : \A f \in linked(c) : f = "vcek_chain_to_ark_ok"
        /\ \A c : \A f \in hwid(rep, c) : f = "hwid_equals_chip_id" /\ G!HwidEquals(c, rep) = {TRUE}
        /\ \A f \in bound(rep) : f = "report_data_binding_ok"
    BY DEF G!Flag
  <2> HIDE DEF sig, linked, hwid, bound
  <2>3. \A f \in G!BindReportReads(d, up, i) :
          f \in bound(rep) \/ \E c \in V : f \in sig(rep, c) \cup linked(c) \cup hwid(rep, c)
    BY <2>1
  <2>4. QED BY <2>2, <2>3
<1>2. /\ "signature_ok_with_kds_vcek" \in G!BindReportReads(d, up, i)
      /\ "hwid_equals_chip_id" \in G!BindReportReads(d, up, i)
  BY DEF BindFlags
<1>3. \E c \in G!VcekAt(d, up, i) : G!SigOk(rep, c)
  BY <1>1, <1>2
<1>4. \E c \in G!VcekAt(d, up, i) : G!HwidEquals(c, rep) = {TRUE}
  BY <1>1, <1>2
<1>5. QED BY <1>3, <1>4, GoogleShares

\* What serves the first report serves them all.
LEMMA FirstServesAll ==
  ASSUME NEW d, NEW up, NEW rep, d.reports["r0"] = {rep}, G!VcekAt(d, up, 1) # {}
  PROVE  \A i \in 1 .. 3 : G!VcekAt(d, up, i) = KdsVcek("Milan", rep)
<1> DEFINE asked(i) == {j \in 1 .. i : /\ G!Names[j] \in up
                                       /\ \E r \in d.reports[G!Names[j]] : G!KdsVcek("Milan", r) # {}}
<1>1. asked(1) # {}
  BY DEF G!VcekAt
<1>2. 1 \in asked(1)
  BY <1>1
<1>3. SUFFICES ASSUME NEW i \in 1 .. 3 PROVE G!VcekAt(d, up, i) = KdsVcek("Milan", rep)
  OBVIOUS
<1>4. 1 \in asked(i) /\ asked(i) \subseteq Nat \ {0}
  BY <1>2
<1>5. (CHOOSE k \in asked(i) : \A m \in asked(i) : k <= m) = 1
  <2> HIDE DEF asked
  <2>1. \A k \in asked(i) : (\A m \in asked(i) : k <= m) => k = 1
    BY <1>4
  <2>2. \A m \in asked(i) : 1 <= m
    BY <1>4
  <2>3. QED BY <1>4, <2>1, <2>2
<1>6. G!VcekAt(d, up, i) = UNION {G!KdsVcek("Milan", r) : r \in d.reports[G!Names[1]]}
  BY <1>4, <1>5 DEF G!VcekAt
<1>7. d.reports[G!Names[1]] = {rep}
  BY DEF G!Names
<1>8. QED BY <1>6, <1>7, GoogleShares

\* bind_verify.py as a whole: one certificate, of one chip, serves all three reports.
LEMMA BindGenuine ==
  ASSUME NEW d, LawfulDir("bind_verify", d), NEW up, row = G!BindReads(d, up)
  PROVE  BindTrue(d)
<1>1. SUFFICES ASSUME \A n \in Three : d.reports[n] # {} /\ Tags(n, BindFlags) \subseteq row
      PROVE  \E chip \in Chips : \A n \in Three : \A rep \in d.reports[n] :
               OfItsChip(rep) /\ rep.chip_id = chip
  BY DEF BindTrue, Three
<1>2. G!Names[1] = "r0" /\ G!Names[2] = "r-ek" /\ G!Names[3] = "r-jwt"
  BY DEF G!Names
<1>3. \A n \in Three : \E i \in 1 .. 3 : n = G!Names[i]
  BY <1>2 DEF Three
<1>4. \A i \in 1 .. 3 : G!Names[i] \in Three
  BY <1>2 DEF Three
<1>5. ASSUME NEW i \in 1 .. 3
      PROVE  \E rep : d.reports[G!Names[i]] = {rep} /\ Unforged(rep)
  <2>1. G!Names[i] \in Three /\ d.reports[G!Names[i]] # {}
    BY <1>1, <1>4
  <2>2. AtMostOne(d.reports[G!Names[i]]) /\ \A rep \in d.reports[G!Names[i]] : Unforged(rep)
    BY <2>1 DEF LawfulDir, Reports, Three
  <2>3. PICK rep : rep \in d.reports[G!Names[i]]
    BY <2>1
  <2>4. d.reports[G!Names[i]] = {rep}
    BY <2>2, <2>3 DEF AtMostOne
  <2>5. QED BY <2>2, <2>4
<1>6. ASSUME NEW i \in 1 .. 3, NEW rep, d.reports[G!Names[i]] = {rep}
      PROVE  /\ \E c \in G!VcekAt(d, up, i) : SigOk(rep, c)
             /\ \E c \in G!VcekAt(d, up, i) : HwidEquals(c, rep) = {TRUE}
  <2>1. BindFlags \subseteq G!BindReportReads(d, up, i)
    BY <1>1, <1>4, BindSections DEF Tags
  <2>2. i \in 1 .. 3
    OBVIOUS
  <2>3. QED BY <1>6, <2>1, <2>2, BindReport
<1>7. PICK r0 : d.reports[G!Names[1]] = {r0}
  BY <1>5
<1>8. G!VcekAt(d, up, 1) # {}
  <2>1. 1 \in 1 .. 3
    OBVIOUS
  <2>2. QED BY <1>6, <1>7, <2>1
<1>9. \A i \in 1 .. 3 : G!VcekAt(d, up, i) = KdsVcek("Milan", r0)
  BY <1>2, <1>7, <1>8, FirstServesAll
<1>10. r0.chip_id \in Chips /\ KdsVcek("Milan", r0) = {VcekCert(r0.chip_id, r0.tcb)}
  BY <1>8, <1>9, KdsAnswers
<1>11. ASSUME NEW i \in 1 .. 3, NEW rep \in d.reports[G!Names[i]]
       PROVE  OfItsChip(rep) /\ rep.chip_id = r0.chip_id
  <2>1. d.reports[G!Names[i]] = {rep} /\ Unforged(rep)
    BY <1>5, <1>11
  <2>2. /\ rep.signer = VcekCert(r0.chip_id, r0.tcb).key
        /\ HwidEquals(VcekCert(r0.chip_id, r0.tcb), rep) = {TRUE}
    <3>1. G!VcekAt(d, up, i) = {VcekCert(r0.chip_id, r0.tcb)}
      BY <1>9, <1>10
    <3>2. QED BY <1>6, <2>1, <3>1 DEF SigOk
  <2>3. rep.signer = VcekKey(r0.chip_id, r0.tcb)
    BY <2>2 DEF VcekCert, Cert
  <2>4. rep.tcb = r0.tcb
    BY <2>1, <2>3, GenuineNames
  <2>5. rep.chip_id = r0.chip_id
    BY <2>2 DEF HwidEquals, VcekCert, Cert
  <2>6. QED BY <2>3, <2>4, <2>5 DEF OfItsChip
<1>12. QED BY <1>3, <1>10, <1>11

-----------------------------------------------------------------------------
(* azure_verify *)

\* The Azure verifier's operators on reports and checks are those of Evidence.
LEMMA AzureShares ==
  /\ \A c : Z!Passed(c) = Passed(c)
  /\ \A b, f : Z!Flag(b, f) = Flag(b, f)
  /\ \A net, s, x : Z!Reached(net, s, x) = Reached(net, s, x)
  /\ \A d : Z!Nonce(d) = Nonce(d)
  /\ \A b : Z!Digest(b) = Digest(b)
  /\ \A p, r : Z!KdsVcek(p, r) = KdsVcek(p, r)
  /\ \A rep, c : Z!SigOk(rep, c) <=> SigOk(rep, c)
BY DEF Z!Passed, Passed, Z!Flag, Flag, Z!Reached, Reached, Z!Nonce, Nonce, Z!Digest, Digest,
   Z!KdsVcek, KdsVcek, Z!SigOk, SigOk,
   Z!VcekCert, VcekCert, Z!Cert, Cert, Z!VcekKey, VcekKey, Z!AskKey, AskKey

\* A flag is of the section it is written in.
LEMMA AzureSections ==
  ASSUME NEW d, LawfulDir("azure_verify", d), NEW net, NEW flag
  PROVE  /\ <<"snp", flag>> \in Z!AzureReads(d, net) =>
              d.report # {} /\ \A rep \in d.report : flag \in Z!SnpReads(d, rep, net)
         /\ <<"tpm_quote", flag>> \in Z!AzureReads(d, net) =>
              d.quote # {} /\ \A q \in d.quote : flag \in Z!QuoteReads(d, q)
<1>1. ASSUME NEW section, <<section, flag>> \in Z!AzureReads(d, net)
      PROVE  \/ section = "snp" /\ \E rep \in d.report : flag \in Z!SnpReads(d, rep, net)
             \/ section = "tpm_quote" /\ \E q \in d.quote : flag \in Z!QuoteReads(d, q)
             \/ section = "maa"
  BY <1>1 DEF Z!AzureReads
<1>2. AtMostOne(d.report) /\ AtMostOne(d.quote)
  BY DEF LawfulDir, Reports
<1>3. QED BY <1>1, <1>2 DEF AtMostOne

\* Where the machine's certificate is the one KDS has, the report is by the chip that it names.
LEMMA ThimGenuine ==
  ASSUME NEW d, NEW net, NEW rep, AzureFlags \subseteq Z!SnpReads(d, rep, net)
  PROVE  OfItsChip(rep) /\ rep.chip_id \in Chips /\ rep.data = Digest(Z!RuntimeData(d))
<1> DEFINE b1 == d.vcek # {} /\ d.chain # {}
           b2 == \A c \in d.vcek : Z!SigOk(rep, c)
           b3 == \A c \in d.vcek, ch \in d.chain : Z!ChainOk(c, ch)
           checks == << <<"thim", b1>>, <<"report_sig_ok_thim_vcek", b2>>, <<"thim_chain_ok", b3>> >>
           passed == Passed(checks)
           bound == rep.data = Z!Digest(Z!RuntimeData(d))
           hwid == "thim_chain_ok" \in passed /\ \A c \in d.vcek : Z!HwidEquals(c, rep) = {TRUE}
           same == "thim_chain_ok" \in passed /\ \A c \in d.vcek : Z!SameAsKds(rep, c, net)
<1>1. Z!SnpReads(d, rep, net) =
        passed \cup Flag(bound, "report_data_binds_runtime_json")
               \cup Flag(hwid, "thim_vcek_hwid_equals_chip_id")
               \cup Flag(same, "kds_vcek_identical_to_thim_vcek")
  <2>1. Z!Passed(checks) = passed
    <3> HIDE DEF checks
    <3>1. QED BY AzureShares
  <2>2. Z!SnpReads(d, rep, net) =
          Z!Passed(checks)
            \cup Z!Flag(bound, "report_data_binds_runtime_json")
            \cup Z!Flag("thim_chain_ok" \in Z!Passed(checks) /\ \A c \in d.vcek : Z!HwidEquals(c, rep) = {TRUE},
                        "thim_vcek_hwid_equals_chip_id")
            \cup Z!Flag("thim_chain_ok" \in Z!Passed(checks) /\ \A c \in d.vcek : Z!SameAsKds(rep, c, net),
                        "kds_vcek_identical_to_thim_vcek")
    BY DEF Z!SnpReads
  <2> HIDE DEF checks, passed, bound
  <2>3. /\ Z!Flag("thim_chain_ok" \in Z!Passed(checks) /\ \A c \in d.vcek : Z!HwidEquals(c, rep) = {TRUE},
                  "thim_vcek_hwid_equals_chip_id") = Flag(hwid, "thim_vcek_hwid_equals_chip_id")
        /\ Z!Flag("thim_chain_ok" \in Z!Passed(checks) /\ \A c \in d.vcek : Z!SameAsKds(rep, c, net),
                  "kds_vcek_identical_to_thim_vcek") = Flag(same, "kds_vcek_identical_to_thim_vcek")
    BY <2>1 DEF Z!Flag, Flag
  <2> HIDE DEF hwid, same
  <2>4. QED BY <2>1, <2>2, <2>3, AzureShares
<1>2. /\ b1 \in BOOLEAN /\ b2 \in BOOLEAN /\ b3 \in BOOLEAN
      /\ bound \in BOOLEAN /\ hwid \in BOOLEAN /\ same \in BOOLEAN
  OBVIOUS
<1> DEFINE others == {"report_data_binds_runtime_json", "thim_vcek_hwid_equals_chip_id", "kds_vcek_identical_to_thim_vcek"}
<1>3. \A f \in passed : f \notin others
  <2>1. DOMAIN checks = 1 .. 3 /\ \A i \in 1 .. 3 : checks[i][1] \notin others
    OBVIOUS
  <2> HIDE DEF checks, others
  <2>2. QED BY <2>1 DEF Passed
<1>4. "thim_chain_ok" \in passed => b1 /\ b2 /\ b3
  <2> HIDE DEF b1, b2, b3
  <2>1. QED BY <1>2, AllPassed3
<1>5. bound /\ same
  <2> HIDE DEF passed, bound, hwid, same
  <2>1. QED BY <1>1, <1>2, <1>3, FlagMeans DEF AzureFlags
<1>6. PICK c \in d.vcek : Z!SigOk(rep, c) /\ Z!SameAsKds(rep, c, net)
  BY <1>4, <1>5
<1>7. Reached(net, "kds", KdsVcek("Milan", rep)) = {c}
  BY <1>6, AzureShares DEF Z!SameAsKds
<1>8. rep.chip_id \in Chips /\ c = VcekCert(rep.chip_id, rep.tcb)
  BY <1>7, KdsAnswers DEF Reached
<1>9. rep.signer = VcekKey(rep.chip_id, rep.tcb)
  BY <1>6, <1>8, AzureShares DEF SigOk, VcekCert, Cert
<1>10. QED BY <1>5, <1>8, <1>9, AzureShares DEF OfItsChip

\* azure_verify.py as a whole: a chip has signed the runtime data, which name the key that signed the
\* quote.
LEMMA AzureGenuine ==
  ASSUME NEW d, LawfulDir("azure_verify", d), NEW net, row = Z!AzureReads(d, net)
  PROVE  AzureTrue(d)
<1>1. SUFFICES ASSUME Tags("snp", AzureFlags) \subseteq row,
                      Tags("tpm_quote", {"extra_data_is_our_nonce", "quote_sig_ok_with_HCLAkPub"}) \subseteq row
      PROVE  /\ \A rep \in d.report : OfItsChip(rep) /\ rep.data = Digest(d.hcl.runtime)
             /\ \A q \in d.quote : q.signer \in d.hcl.ak /\ q.extra = Nonce(d)
  BY DEF AzureTrue
<1>2. ASSUME NEW q \in d.quote PROVE q.signer \in Z!AkPub(d) /\ q.extra = Nonce(d)
  <2>1. "extra_data_is_our_nonce" \in Z!QuoteReads(d, q) /\ "quote_sig_ok_with_HCLAkPub" \in Z!QuoteReads(d, q)
    BY <1>1, AzureSections DEF Tags
  <2>2. q.extra = Z!Nonce(d) /\ \E ak \in Z!AkPub(d) : q.signer = ak
    BY <2>1 DEF Z!QuoteReads, Z!Flag
  <2>3. QED BY <2>2, AzureShares
<1>3. d.hcl.magic
  <2>1. <<"tpm_quote", "quote_sig_ok_with_HCLAkPub">> \in row
    BY <1>1 DEF Tags
  <2>2. PICK q : q \in d.quote
    BY <2>1, AzureSections
  <2>3. Z!AkPub(d) # {}
    BY <1>2, <2>2
  <2>4. QED BY <2>3 DEF Z!AkPub
<1>4. ASSUME NEW rep \in d.report PROVE OfItsChip(rep) /\ rep.data = Digest(d.hcl.runtime)
  <2>1. AzureFlags \subseteq Z!SnpReads(d, rep, net)
    BY <1>1, AzureSections DEF Tags
  <2>2. Z!RuntimeData(d) = d.hcl.runtime
    BY <1>3 DEF Z!RuntimeData
  <2>3. QED BY <2>1, <2>2, ThimGenuine
<1>5. ASSUME NEW q \in d.quote PROVE q.signer \in d.hcl.ak /\ q.extra = Nonce(d)
  BY <1>2, <1>5 DEF Z!AkPub
<1>6. QED BY <1>4, <1>5

-----------------------------------------------------------------------------
(* The AWS verifiers and the Credential Authority. *)

\* The AWS verifiers' operators on reports and checks are those of Evidence.
LEMMA AwsShares ==
  /\ \A b, f : A!Flag(b, f) = Flag(b, f)
  /\ \A net, s, x : A!Reached(net, s, x) = Reached(net, s, x)
  /\ \A d : A!Nonce(d) = Nonce(d)
  /\ \A b : A!Digest(b) = Digest(b)
  /\ \A p, k : A!KdsChain(p, k) = KdsChain(p, k)
  /\ \A c, ch : A!ChainOk(c, ch) <=> ChainOk(c, ch)
  /\ \A rep, c : A!SigOk(rep, c) <=> SigOk(rep, c)
BY DEF A!Passed, Passed, A!Flag, Flag, A!Reached, Reached, A!Nonce, Nonce, A!Digest, Digest,
   A!KdsChain, KdsChain, A!ChainOk, ChainOk, A!SigOk, SigOk, A!Cert, Cert, A!AskKey, AskKey, A!ArkKey, ArkKey

\* A certificate that leads to AMD's root through a chain of KDS is one that AMD has issued.
LEMMA Linked ==
  ASSUME NEW kind, NEW leaf, NEW ch \in KdsChain(kind, "Milan"), ChainOk(leaf, ch)
  PROVE  leaf.issuer = AskKey(kind, "Milan")
BY DEF KdsChain, ChainOk, Cert

\* The certificate of a provider's key that leads to AMD's root is AMD's for that provider.
LEMMA VlekLeaf ==
  ASSUME NEW leaf, Issued(leaf), NEW ch \in KdsChain("vlek", "Milan"), ChainOk(leaf, ch)
  PROVE  leaf = VlekCert(leaf.key[2]) /\ leaf.key[1] = "VLEK"
<1>1. leaf.issuer = AskKey("vlek", "Milan")
  BY Linked
<1>2. ASSUME NEW c \in Chips, leaf = VcekCert(c, leaf.key[3]) PROVE FALSE
  <2>1. leaf.issuer[2] = "vcek"
    BY <1>2 DEF VcekCert, Cert, AskKey
  <2>2. QED BY <1>1, <2>1 DEF AskKey
<1>3. QED BY <1>1, <1>2 DEF Issued, AskKey

\* The certificate of a chip's key that leads to AMD's root for Milan is that of a Milan chip.
LEMMA VcekLeaf ==
  ASSUME NEW leaf, Issued(leaf), NEW ch \in KdsChain("vcek", "Milan"), ChainOk(leaf, ch)
  PROVE  \E c \in Chips : leaf = VcekCert(c, leaf.key[3]) /\ ProductOf[c] = "Milan"
<1>1. leaf.issuer = AskKey("vcek", "Milan")
  BY Linked
<1>2. ~ (leaf = VlekCert(leaf.key[2]))
  <2>1. ASSUME leaf = VlekCert(leaf.key[2]) PROVE FALSE
    <3>1. leaf.issuer[2] = "vlek"
      BY <2>1 DEF VlekCert, Cert, AskKey
    <3>2. QED BY <1>1, <3>1 DEF AskKey
  <2>2. QED BY <2>1
<1>3. PICK c \in Chips : leaf = VcekCert(c, leaf.key[3])
  BY <1>1, <1>2 DEF Issued, AskKey
<1>4. AskKey("vcek", ProductOf[c]) = AskKey("vcek", "Milan")
  BY <1>1, <1>3 DEF VcekCert, Cert
<1>5. ProductOf[c] = "Milan"
  BY <1>4 DEF AskKey
<1>6. QED BY <1>3, <1>5

\* idbind_verify.py as a whole: the region in the certificate is that of the document.
LEMMA IdbindGenuine ==
  ASSUME NEW d, LawfulDir("idbind_verify", d), NEW net, row = A!IdbindReads(d, net),
         {"report_data_is_sha512_nonce_docdigest", "report_signature_ok", "chain_to_ark_ok",
          "csp_id_names_document_region"} \subseteq row
  PROVE  /\ \A rep \in d.report : rep.signer = VlekKey(d.doc.region)
         /\ "rsa2048" \in row => d.doc.rsa = A!RegionRsaKey(d.doc.region)
<1>1. /\ "report_signature_ok" \in A!IdbindReads(d, net)
      /\ "chain_to_ark_ok" \in A!IdbindReads(d, net) /\ "csp_id_names_document_region" \in A!IdbindReads(d, net)
  OBVIOUS
<1>2. AtMostOne(d.report) /\ AtMostOne(d.leaf) /\ \A leaf \in d.leaf : Issued(leaf)
  BY DEF LawfulDir, Reports, Certificates
<1>3. "rsa2048" \in row => d.doc.rsa = A!RegionRsaKey(d.doc.region)
  BY DEF A!IdbindReads, A!Flag
<1>4. ASSUME NEW rep \in d.report PROVE rep.signer = VlekKey(d.doc.region)
  <2>1. PICK leaf \in d.leaf : A!SigOk(rep, leaf)
    BY <1>1, <1>2, <1>4 DEF A!IdbindReads, A!Flag, AtMostOne
  <2>2. leaf.csp = d.doc.region
    BY <1>1, <1>2, <1>4, <2>1 DEF A!IdbindReads, A!Flag, AtMostOne
  <2>3. \E ch \in A!Reached(net, "kds", A!KdsChain("vlek", "Milan")) : A!ChainOk(leaf, ch)
    BY <1>1, <1>2, <1>4, <2>1 DEF A!IdbindReads, A!Flag, AtMostOne
  <2>4. \E ch \in KdsChain("vlek", "Milan") : ChainOk(leaf, ch)
    BY <2>3, AwsShares DEF Reached
  <2>5. leaf = VlekCert(leaf.key[2])
    BY <1>2, <2>4, VlekLeaf
  <2>6. PICK csp : csp = leaf.key[2]
    OBVIOUS
  <2>7. leaf.key = VlekKey(csp) /\ leaf.csp = csp
    BY <2>5, <2>6 DEF VlekCert, Cert
  <2>8. QED BY <2>1, <2>2, <2>7, AwsShares DEF SigOk
<1>5. QED BY <1>3, <1>4

\* nitrotpm_verify.py: the nonce is only looked at when the quote's signature holds.
LEMMA NitroTpmGenuine ==
  ASSUME NEW d, "quote_extra_data_is_sha256_sentence" \in A!NitroTpmReads(d)
  PROVE  d.quote.signer = d.ak
<1> DEFINE checks == << <<"quote_signature_ok", d.quote.signer = d.ak>> >>
           passed == A!Passed(checks)
<1>1. passed # {}
  <2>1. \A f \in passed : f # "quote_extra_data_is_sha256_sentence"
    BY DEF A!Passed
  <2>2. A!NitroTpmReads(d) = A!Flag(d.api_ek # {} /\ d.api_ek = {d.ek}, "api_ek_equals_guest_ek")
          \cup (passed \cup A!Flag(passed # {} /\ d.quote.extra = d.nonce256, "quote_extra_data_is_sha256_sentence"))
    BY DEF A!NitroTpmReads
  <2> HIDE DEF passed
  <2>3. QED BY <2>1, <2>2 DEF A!Flag
<1>2. PICK i \in DOMAIN checks : \A k \in 1 .. i : checks[k][2]
  BY <1>1 DEF A!Passed
<1>3. checks[1][2]
  BY <1>2
<1>4. QED BY <1>3

\* tacra_verify.py: no credential without a chip's report that binds the request to the nonce.
LEMMA CredentialGenuine ==
  ASSUME NEW d, LawfulDir("tacra_verify", d), NEW net, row = A!TacraReads(d, net)
  PROVE  CredentialTrue(d)
<1>1. SUFFICES ASSUME "ISSUE_CREDENTIAL" \in A!TacraReads(d, net), NEW rep \in d.report
      PROVE  /\ \E c \in Chips : rep.signer = VcekKey(c, rep.tcb)
             /\ rep.data = Digest(d.nonce \o d.csr.bytes) /\ d.csr.signer = d.csr.key
  BY DEF CredentialTrue
<1>2. /\ AtMostOne(d.report) /\ AtMostOne(d.leaf) /\ \A leaf \in d.leaf : Issued(leaf)
      /\ Unforged(rep)
  BY DEF LawfulDir, Reports, Certificates
<1> DEFINE binding == A!BindingOk(d, rep)
           sig == \E vcek \in d.leaf : A!SigOk(rep, vcek)
           linked == \E vcek \in d.leaf, ch \in A!Reached(net, "kds", A!KdsChain("vcek", "Milan")) : A!ChainOk(vcek, ch)
           hwid == \E vcek \in d.leaf : A!HwidEquals(vcek, rep) = {TRUE}
           pop == d.csr.signer = d.csr.key
           csk == d.csk_pub = {} \/ d.csk_pub = {d.csr.key}
           checks == A!Flag(binding, "binding") \cup A!Flag(sig, "report_signature_ok")
                       \cup A!Flag(linked, "chain_to_ARK_Milan") \cup A!Flag(hwid, "hwID==CHIP_ID")
                       \cup A!Flag(pop, "CSR_proof_of_possession") \cup A!Flag(csk, "CSKpub_matches")
<1>3. "ISSUE_CREDENTIAL" \in checks \cup A!Flag(A!IssueWhen \subseteq checks, "ISSUE_CREDENTIAL")
  <2> DEFINE Of(r) ==
        LET ch == A!Flag(A!BindingOk(d, r), "binding")
                    \cup A!Flag(\E vcek \in d.leaf : A!SigOk(r, vcek), "report_signature_ok")
                    \cup A!Flag(linked, "chain_to_ARK_Milan")
                    \cup A!Flag(\E vcek \in d.leaf : A!HwidEquals(vcek, r) = {TRUE}, "hwID==CHIP_ID")
                    \cup A!Flag(pop, "CSR_proof_of_possession") \cup A!Flag(csk, "CSKpub_matches")
        IN ch \cup A!Flag(A!IssueWhen \subseteq ch, "ISSUE_CREDENTIAL")
  <2>1. A!TacraReads(d, net) = UNION {Of(r) : r \in d.report}
    BY DEF A!TacraReads
  <2>2. Of(rep) = checks \cup A!Flag(A!IssueWhen \subseteq checks, "ISSUE_CREDENTIAL")
    OBVIOUS
  <2> HIDE DEF Of
  <2>3. PICK r \in d.report : "ISSUE_CREDENTIAL" \in Of(r)
    BY <1>1, <2>1
  <2>4. r = rep
    BY <1>2 DEF AtMostOne
  <2>5. QED BY <2>2, <2>3, <2>4
<1>4. \A f \in checks : \/ f = "binding" /\ binding
                        \/ f = "report_signature_ok" /\ sig
                        \/ f = "chain_to_ARK_Milan" /\ linked
                        \/ f = "hwID==CHIP_ID"
                        \/ f = "CSR_proof_of_possession" /\ pop
                        \/ f = "CSKpub_matches"
  <2> HIDE DEF binding, sig, linked, hwid, pop, csk
  <2>1. QED BY DEF A!Flag
<1>5. binding /\ sig /\ linked /\ pop
  <2> HIDE DEF binding, sig, linked, hwid, pop, csk, checks
  <2>1. A!IssueWhen \subseteq checks
    BY <1>3, <1>4 DEF A!Flag
  <2>2. QED BY <1>4, <2>1 DEF A!IssueWhen
<1>6. PICK vcek \in d.leaf : A!SigOk(rep, vcek)
  BY <1>5
<1>7. \E ch \in KdsChain("vcek", "Milan") : ChainOk(vcek, ch)
  BY <1>2, <1>5, AwsShares DEF Reached, AtMostOne
<1>8. PICK c \in Chips : vcek = VcekCert(c, vcek.key[3])
  BY <1>2, <1>7, VcekLeaf
<1>9. PICK tcb : tcb = vcek.key[3]
  OBVIOUS
<1>10. rep.signer = VcekKey(c, tcb)
  BY <1>6, <1>8, <1>9, AwsShares DEF SigOk, VcekCert, Cert
<1>11. rep.tcb = tcb
  BY <1>2, <1>10, GenuineNames
<1>12. QED BY <1>5, <1>10, <1>11, AwsShares DEF A!BindingOk

\* A certificate chain that ends with AWS's root starts with an authority's key or an enclave's.
LEMMA NitroChain ==
  ASSUME NEW doc, A!Enclosed(doc), A!NitroChainOk(doc.leaf, doc.bundle)
  PROVE  doc.leaf.key[1] \in A!NitroCA \cup {"enclave"}
<1> DEFINE n == Len(doc.bundle)
           rev == [i \in DOMAIN doc.bundle |-> doc.bundle[n + 1 - i]]
           chain == <<doc.leaf>> \o rev \o <<A!NitroRoot>>
           Certs == {doc.leaf} \cup {doc.bundle[i] : i \in DOMAIN doc.bundle}
           S == Certs \cup {A!NitroRoot}
           N == n + 2
           Keys == A!NitroCA \cup {"enclave"}
           T == {i \in 1 .. N : chain[i].key[1] \notin Keys}
<1>1. n \in Nat /\ DOMAIN doc.bundle = 1 .. n
  BY DEF A!Enclosed
<1>2. rev \in Seq(S) /\ Len(rev) = n
  <2>1. \A i \in 1 .. n : n + 1 - i \in 1 .. n /\ doc.bundle[n + 1 - i] \in S
    BY <1>1
  <2>2. rev = [i \in 1 .. n |-> doc.bundle[n + 1 - i]]
    BY <1>1
  <2> HIDE DEF S
  <2>3. rev \in [1 .. n -> S]
    BY <2>1, <2>2
  <2>4. QED BY <1>1, <2>3
<1>3. <<doc.leaf>> \in Seq(S) /\ <<A!NitroRoot>> \in Seq(S)
  <2>1. doc.leaf \in S /\ A!NitroRoot \in S
    OBVIOUS
  <2> HIDE DEF S
  <2>2. QED BY <2>1
<1>4. /\ Len(chain) = N /\ chain[1] = doc.leaf /\ chain[N] = A!NitroRoot
      /\ \A i \in 2 .. n + 1 : chain[i] \in Certs
  <2>1. PICK head : head = <<doc.leaf>> \o rev
    OBVIOUS
  <2> HIDE DEF S
  <2>2. /\ head \in Seq(S) /\ Len(head) = n + 1
        /\ \A i \in 1 .. n + 1 : head[i] = IF i <= 1 THEN doc.leaf ELSE rev[i - 1]
    BY <1>1, <1>2, <1>3, <2>1, ConcatProperties
  <2>3. /\ Len(chain) = n + 2
        /\ \A i \in 1 .. n + 2 : chain[i] = IF i <= n + 1 THEN head[i] ELSE A!NitroRoot
    <3>1. Len(<<A!NitroRoot>>) = 1 /\ <<A!NitroRoot>>[1] = A!NitroRoot
      OBVIOUS
    <3>2. \A i \in 1 .. n + 2 : ~(i <= n + 1) => i - Len(head) = 1
      BY <1>1, <2>2
    <3>3. QED BY <1>1, <1>3, <2>1, <2>2, <3>1, <3>2, ConcatProperties
  <2>4. \A i \in 2 .. n + 1 : rev[i - 1] \in Certs
    <3>1. ASSUME NEW i \in 2 .. n + 1 PROVE rev[i - 1] \in Certs
      <4>1. i - 1 \in DOMAIN doc.bundle /\ n + 1 - (i - 1) \in DOMAIN doc.bundle
        BY <1>1
      <4>2. QED BY <4>1
    <3>2. QED BY <3>1
  <2> HIDE DEF chain, rev, Certs
  <2>5. QED BY <1>1, <2>2, <2>3, <2>4
<1>5. /\ \A i \in 1 .. N - 1 : chain[i].issuer = chain[i + 1].key
  BY <1>4 DEF A!NitroChainOk
<1>6. A!NitroRoot.key[1] \in Keys
  BY DEF A!NitroRoot, A!NitroCA, A!Cert
<1>7. \A cert \in Certs : /\ cert.issuer[1] # "enclave"
                          /\ cert.issuer[1] \in A!NitroCA => cert.key[1] \in Keys
  BY DEF A!Enclosed
<1> HIDE DEF chain, Certs, Keys
<1>8. SUFFICES ASSUME 1 \in T PROVE FALSE
  BY <1>1, <1>4 DEF Keys
<1>9. PICK i \in T : \A j \in T : j <= i
  <2>1. T \in SUBSET (1 .. N) /\ T # {} /\ N \in Nat
    BY <1>1, <1>8
  <2> HIDE DEF T
  <2>2. QED BY <2>1, LastExists
<1>10. i \in 1 .. N - 1 /\ chain[i] \in Certs
  <2>1. i # N
    BY <1>4, <1>6
  <2>2. i \in 1 .. n + 1
    BY <1>1, <2>1
  <2>3. doc.leaf \in Certs
    BY DEF Certs
  <2>4. QED BY <1>1, <1>4, <2>2, <2>3
<1>11. chain[i + 1].key[1] \in Keys
  BY <1>1, <1>9, <1>10
<1>12. chain[i].issuer[1] \in Keys
  BY <1>5, <1>10, <1>11
<1>13. chain[i].key[1] \in Keys
  BY <1>7, <1>10, <1>12 DEF Keys
<1>14. QED BY <1>13

\* nitro_verify.py as a whole.
LEMMA NitroGenuine ==
  ASSUME NEW d, LawfulDir("nitro_verify", d), row = A!NitroReads(d),
         {"signature_ok", "chain_to_aws_root_ok", "nonce_is_sha512_sentence"} \subseteq row,
         NEW doc \in d.doc
  PROVE  doc.signer[1] = "enclave" /\ doc.nonce = Nonce(d)
<1>1. /\ "signature_ok" \in A!NitroReads(d) /\ "chain_to_aws_root_ok" \in A!NitroReads(d)
      /\ "nonce_is_sha512_sentence" \in A!NitroReads(d)
  OBVIOUS
<1>2. AtMostOne(d.doc) /\ A!Enclosed(doc)
  BY DEF LawfulDir
<1>3. \A f \in A!NitroReads(d) :
        \/ f = "signature_ok" /\ doc.signer = doc.leaf.key
        \/ f = "chain_to_aws_root_ok" /\ A!NitroChainOk(doc.leaf, doc.bundle)
        \/ f = "nonce_is_sha512_sentence" /\ doc.nonce = A!Nonce(d)
        \/ f \in {"public_key_is_enclave_spki", "ephemeral_sig_over_nonce_ok"}
  BY <1>2 DEF A!NitroReads, A!Flag, AtMostOne
<1>4. doc.signer = doc.leaf.key /\ A!NitroChainOk(doc.leaf, doc.bundle) /\ doc.nonce = A!Nonce(d)
  BY <1>1, <1>3
<1>5. doc.leaf.key[1] \in A!NitroCA \cup {"enclave"}
  BY <1>2, <1>4, NitroChain
<1>6. doc.signer[1] \notin A!NitroCA
  BY <1>2 DEF A!Enclosed
<1>7. QED BY <1>4, <1>5, <1>6, AwsShares

-----------------------------------------------------------------------------
(* All verifiers. *)

\* The program has a directory of its own, and what is written is what it reads there.
AppraisalInv ==
  /\ dir # {} => program \in DOMAIN Directories /\ dir \subseteq Directories[program]
  /\ AtMostOne(dir)
  /\ pc = "written" => \A d \in dir : \E net : row = Reads(program, d, net)

\* The invariant of the appraisals, in every state.
LEMMA AppraisalAlways == Spec => []AppraisalInv
<1>1. Init => AppraisalInv
  BY DEF Init, AppraisalInv, AtMostOne
<1>2. AppraisalInv /\ [Next]_vars => AppraisalInv'
  <2> SUFFICES ASSUME AppraisalInv, [Next]_vars PROVE AppraisalInv'
    OBVIOUS
  <2>1. CASE UNCHANGED appraisalVars
    BY <2>1 DEF AppraisalInv, appraisalVars, AtMostOne
  <2>2. CASE Appraise
    <3>1. program' = program /\ dir' = dir
      BY <2>2 DEF Appraise
    <3>2. PICK d \in dir, net \in SUBSET Services[program] :
            IF Aborts(program, d, net) THEN pc' = "aborted" /\ UNCHANGED row
            ELSE pc' = "written" /\ row' = Reads(program, d, net)
      BY <2>2 DEF Appraise
    <3>3. QED BY <3>1, <3>2 DEF AppraisalInv, AtMostOne
  <2>3. QED BY <2>1, <2>2 DEF Next, vars
<1>3. QED BY <1>1, <1>2, PTL DEF Spec

(* No verifier reads well what nobody genuine has made: for any run        *)
(* directory that a verifier can be given, and whatever services answer.   *)
THEOREM GenuineOnly == Spec => []AppraisedGenuine
<1>1. AppraisalInv => AppraisedGenuine
  <2>1. SUFFICES ASSUME AppraisalInv, NEW d \in dir, NEW net, row = Reads(program, d, net)
        PROVE  CASE program = "gcp_verify" -> GoogleTrue(d)
                 [] program = "bind_verify" -> BindTrue(d)
                 [] program = "azure_verify" -> AzureTrue(d)
                 [] program = "tacra_verify" -> CredentialTrue(d)
                 [] program \in {"verify_run", "vlek_verify"} -> TRUE
                 [] OTHER -> AwsTrue(d)
    BY DEF AppraisedGenuine, AppraisalInv
  <2>2. LawfulDir(program, d)
    BY <2>1, DirectoriesAssumption DEF AppraisalInv
  <2>3. CASE program = "gcp_verify"
    <3>1. row = G!GcpReads(d, net) /\ LawfulDir("gcp_verify", d)
      BY <2>1, <2>2, <2>3 DEF Reads
    <3>2. QED BY <2>3, <3>1, GoogleGenuine
  <2>4. CASE program = "bind_verify"
    <3>1. row = G!BindReads(d, net) /\ LawfulDir("bind_verify", d)
      BY <2>1, <2>2, <2>4 DEF Reads
    <3>2. QED BY <2>4, <3>1, BindGenuine
  <2>5. CASE program = "azure_verify"
    <3>1. row = Z!AzureReads(d, net) /\ LawfulDir("azure_verify", d)
      BY <2>1, <2>2, <2>5 DEF Reads
    <3>2. QED BY <2>5, <3>1, AzureGenuine
  <2>6. CASE program = "tacra_verify"
    <3>1. row = A!TacraReads(d, net) /\ LawfulDir("tacra_verify", d)
      BY <2>1, <2>2, <2>6 DEF Reads
    <3>2. QED BY <2>6, <3>1, CredentialGenuine
  <2>7. CASE program \notin {"gcp_verify", "bind_verify", "azure_verify", "tacra_verify", "verify_run", "vlek_verify"}
    <3>1. program = "idbind_verify" => row = A!IdbindReads(d, net) /\ LawfulDir("idbind_verify", d)
      BY <2>1, <2>2 DEF Reads
    <3>2. program = "nitro_verify" => row = A!NitroReads(d) /\ LawfulDir("nitro_verify", d)
      BY <2>1, <2>2 DEF Reads
    <3>3. program = "nitrotpm_verify" => row = A!NitroTpmReads(d)
      BY <2>1 DEF Reads
    <3>4. AwsTrue(d)
      <4>1. ASSUME program = "idbind_verify",
                   {"report_data_is_sha512_nonce_docdigest", "report_signature_ok", "chain_to_ark_ok",
                    "csp_id_names_document_region"} \subseteq row
            PROVE  /\ \A rep \in d.report : rep.signer = VlekKey(d.doc.region)
                   /\ "rsa2048" \in row => d.doc.rsa = A!RegionRsaKey(d.doc.region)
        BY <3>1, <4>1, IdbindGenuine
      <4>2. ASSUME program = "nitro_verify",
                   {"signature_ok", "chain_to_aws_root_ok", "nonce_is_sha512_sentence"} \subseteq row, NEW doc \in d.doc
            PROVE  doc.signer[1] = "enclave" /\ doc.nonce = Nonce(d)
        BY <3>2, <4>2, NitroGenuine
      <4>3. ASSUME program = "nitrotpm_verify", "quote_extra_data_is_sha256_sentence" \in row
            PROVE  d.quote.signer = d.ak
        BY <3>3, <4>3, NitroTpmGenuine
      <4>4. QED BY <4>1, <4>2, <4>3 DEF AwsTrue
    <3>5. QED BY <2>7, <3>4
  <2>8. CASE program \in {"verify_run", "vlek_verify"}
    BY <2>8
  <2>9. QED BY <2>3, <2>4, <2>5, <2>6, <2>7, <2>8
<1>2. QED BY <1>1, AppraisalAlways, PTL

-----------------------------------------------------------------------------
(* The binder: from the report data of an accepted report the transcript   *)
(* can be read off, which starts at a fixed place and ends before the      *)
(* first closing bracket.                                                  *)

\* The early verifier's operators on reports are those of AmdReports.
LEMMA EarlyShares ==
  /\ \A b, f : Y!Flag(b, f) = Flag(b, f)
  /\ \A net, s, x : Y!Reached(net, s, x) = Reached(net, s, x)
  /\ \A p, r : Y!KdsVcek(p, r) = KdsVcek(p, r)
  /\ \A p, k : Y!KdsChain(p, k) = KdsChain(p, k)
  /\ \A c, ch : Y!ChainOk(c, ch) <=> ChainOk(c, ch)
  /\ \A rep, c : Y!SigOk(rep, c) <=> SigOk(rep, c)
BY DEF Y!Flag, Flag, Y!Reached, Reached, Y!KdsVcek, KdsVcek, Y!KdsChain, KdsChain, Y!ChainOk, ChainOk,
   Y!SigOk, SigOk, Y!VcekCert, VcekCert, Y!Cert, Cert, Y!VcekKey, VcekKey, Y!AskKey, AskKey, Y!ArkKey, ArkKey

\* Where the parts of a concatenation are.
LEMMA Placed ==
  ASSUME NEW S, NEW s \in Seq(S), NEW t \in Seq(S)
  PROVE  /\ s \o t \in Seq(S) /\ Len(s) \in Nat /\ Len(t) \in Nat /\ Len(s \o t) = Len(s) + Len(t)
         /\ \A i \in 1 .. Len(s) : (s \o t)[i] = s[i]
         /\ \A i \in 1 .. Len(t) : (s \o t)[Len(s) + i] = t[i]
<1>1. Len(s) \in Nat /\ Len(t) \in Nat
  BY LenProperties
<1>2. \A i \in 1 .. Len(t) : ~(Len(s) + i <= Len(s)) /\ Len(s) + i - Len(s) = i /\ Len(s) + i \in 1 .. Len(s) + Len(t)
  BY <1>1
<1>3. QED BY <1>1, <1>2, ConcatProperties

\* Where the bytes of a digest are.
LEMMA DigestPlaced ==
  ASSUME NEW S, {"digest(", ")"} \subseteq S, NEW b \in Seq(S)
  PROVE  /\ Y!Digest(b) \in Seq(S) /\ Len(b) \in Nat /\ Len(Y!Digest(b)) = Len(b) + 2
         /\ \A i \in 1 .. Len(b) : Y!Digest(b)[1 + i] = b[i]
         /\ Y!Digest(b)[Len(b) + 2] = ")"
<1>1. <<"digest(">> \in Seq(S) /\ Len(<<"digest(">>) = 1 /\ <<")">> \in Seq(S) /\ Len(<<")">>) = 1 /\ <<")">>[1] = ")"
  OBVIOUS
<1>2. PICK s : s = <<"digest(">> \o b
  OBVIOUS
<1>3. /\ s \in Seq(S) /\ Len(b) \in Nat /\ Len(s) = Len(b) + 1
      /\ \A i \in 1 .. Len(b) : s[1 + i] = b[i]
  BY <1>1, <1>2, Placed
<1>4. /\ s \o <<")">> \in Seq(S) /\ Len(s \o <<")">>) = Len(b) + 2
      /\ \A i \in 1 .. Len(b) + 1 : (s \o <<")">>)[i] = s[i]
      /\ (s \o <<")">>)[Len(b) + 2] = ")"
  <2>1. /\ s \o <<")">> \in Seq(S) /\ Len(s \o <<")">>) = Len(s) + 1
        /\ \A i \in 1 .. Len(s) : (s \o <<")">>)[i] = s[i]
        /\ (s \o <<")">>)[Len(s) + 1] = ")"
    BY <1>1, <1>3, Placed
  <2>2. Len(s) + 1 = Len(b) + 2
    BY <1>3
  <2>3. QED BY <1>3, <2>1, <2>2
<1>5. Y!Digest(b) = s \o <<")">>
  BY <1>2 DEF Y!Digest
<1>6. QED BY <1>3, <1>4, <1>5

\* Where the transcript is in the report data that the guest asks for: from the tenth place, up to
\* a closing bracket.
LEMMA BinderPlaced ==
  ASSUME NEW S, NEW h, {"digest(", ")", "attestation", Y!BaseLabel, Y!ZERO, h} \subseteq S,
         NEW tr \in Seq(S), NEW spki \in Seq(S)
  PROVE  /\ Len(tr) \in Nat
         /\ \A i \in 1 .. Len(tr) : Y!IntoReportData(Y!ServerBinder(tr, spki, h))[9 + i] = tr[i]
         /\ Y!IntoReportData(Y!ServerBinder(tr, spki, h))[10 + Len(tr)] = ")"
<1>1. /\ <<h>> \in Seq(S) /\ Len(<<h>>) = 1
      /\ <<h, Y!BaseLabel>> \in Seq(S) /\ Len(<<h, Y!BaseLabel>>) = 2
      /\ <<h, "attestation">> \in Seq(S) /\ Len(<<h, "attestation">>) = 2
      /\ <<Y!ZERO>> \in Seq(S) /\ Len(<<Y!ZERO>>) = 1
  OBVIOUS
<1>2. PICK n \in Nat : n = Len(tr)
  BY LenProperties
<1>3. PICK inner : inner = Y!Digest(<<h>> \o tr)
  OBVIOUS
<1>4. /\ inner \in Seq(S) /\ Len(inner) = n + 3 /\ inner[n + 3] = ")"
      /\ \A i \in 1 .. n : inner[2 + i] = tr[i]
  <2>1. PICK s : s = <<h>> \o tr
    OBVIOUS
  <2>2. s \in Seq(S) /\ Len(s) = n + 1 /\ \A i \in 1 .. n : s[1 + i] = tr[i]
    BY <1>1, <1>2, <2>1, Placed
  <2>3. /\ inner \in Seq(S) /\ Len(inner) = Len(s) + 2 /\ inner[Len(s) + 2] = ")"
        /\ \A i \in 1 .. Len(s) : inner[1 + i] = s[i]
    BY <1>3, <2>1, <2>2, DigestPlaced
  <2>4. \A i \in 1 .. n : inner[1 + (1 + i)] = s[1 + i]
    BY <2>2, <2>3
  <2>5. \A i \in 1 .. n : 1 + (1 + i) = 2 + i
    OBVIOUS
  <2>6. QED BY <2>2, <2>3, <2>4, <2>5
<1>5. PICK base : base = Y!AttestBase(tr, h)
  OBVIOUS
<1>6. /\ base \in Seq(S) /\ Len(base) = n + 8 /\ base[n + 7] = ")"
      /\ \A i \in 1 .. n : base[6 + i] = tr[i]
  <2>1. PICK p : p = <<h, Y!BaseLabel>> \o <<Y!ZERO>>
    OBVIOUS
  <2>2. p \in Seq(S) /\ Len(p) = 3
    BY <1>1, <2>1, Placed
  <2>3. PICK s : s = p \o inner
    OBVIOUS
  <2>4. s \in Seq(S) /\ Len(s) = n + 6 /\ \A i \in 1 .. n + 3 : s[3 + i] = inner[i]
    <3>1. p \in Seq(S) /\ inner \in Seq(S)
      BY <1>4, <2>2
    <3>2. /\ p \o inner \in Seq(S) /\ Len(p \o inner) = Len(p) + Len(inner)
          /\ \A i \in 1 .. Len(inner) : (p \o inner)[Len(p) + i] = inner[i]
      BY <3>1, Placed
    <3>3. s \in Seq(S) /\ Len(s) = Len(p) + Len(inner) /\ \A i \in 1 .. Len(inner) : s[Len(p) + i] = inner[i]
      BY <2>3, <3>2
    <3>4. Len(p) = 3 /\ Len(inner) = n + 3 /\ 3 + (n + 3) = n + 6
      BY <1>4, <2>2
    <3>5. QED BY <3>3, <3>4
  <2>5. base = Y!Digest(s)
    BY <1>3, <1>5, <2>1, <2>3 DEF Y!AttestBase, Y!ExpandLabel
  <2>6. base \in Seq(S) /\ Len(base) = Len(s) + 2 /\ \A i \in 1 .. Len(s) : base[1 + i] = s[i]
    BY <2>4, <2>5, DigestPlaced
  <2>7. \A i \in 1 .. n + 3 : base[1 + (3 + i)] = inner[i]
    BY <2>4, <2>6
  <2>8. \A i \in 1 .. n + 3 : base[4 + i] = inner[i]
    <3>1. \A i \in 1 .. n + 3 : 1 + (3 + i) = 4 + i
      OBVIOUS
    <3>2. QED BY <2>7, <3>1
  <2>9. base[4 + (n + 3)] = ")" /\ \A i \in 1 .. n : base[4 + (2 + i)] = tr[i]
    BY <1>4, <2>8
  <2>10. 4 + (n + 3) = n + 7 /\ \A i \in 1 .. n : 4 + (2 + i) = 6 + i
    OBVIOUS
  <2>11. QED BY <2>4, <2>6, <2>9, <2>10
<1>7. PICK binder : binder = Y!ServerBinder(tr, spki, h)
  OBVIOUS
<1>8. /\ binder \in Seq(S) /\ Len(binder) \in Nat /\ Len(binder) >= n + 10 /\ binder[n + 10] = ")"
      /\ \A i \in 1 .. n : binder[9 + i] = tr[i]
  <2>1. PICK context : context = Y!Digest(<<h>> \o spki)
    OBVIOUS
  <2>2. context \in Seq(S) /\ Len(context) \in Nat
    BY <1>1, <2>1, Placed, DigestPlaced
  <2>3. PICK p : p = <<h, "attestation">> \o base
    OBVIOUS
  <2>4. p \in Seq(S) /\ Len(p) = n + 10 /\ \A i \in 1 .. n + 8 : p[2 + i] = base[i]
    BY <1>1, <1>6, <2>3, Placed
  <2>5. PICK s : s = p \o context
    OBVIOUS
  <2>6. /\ s \in Seq(S) /\ Len(s) = n + 10 + Len(context) /\ Len(s) \in Nat
        /\ \A i \in 1 .. n + 10 : s[i] = p[i]
    <3>1. s \in Seq(S) /\ Len(s) = Len(p) + Len(context) /\ \A i \in 1 .. Len(p) : s[i] = p[i]
      BY <2>2, <2>4, <2>5, Placed
    <3>2. QED BY <2>2, <2>4, <3>1
  <2>7. binder = Y!Digest(s)
    BY <1>5, <1>7, <2>1, <2>3, <2>5 DEF Y!ServerBinder, Y!ExpandLabel
  <2>8. binder \in Seq(S) /\ Len(binder) = Len(s) + 2 /\ \A i \in 1 .. Len(s) : binder[1 + i] = s[i]
    BY <2>6, <2>7, DigestPlaced
  <2>9. \A i \in 1 .. n + 8 : binder[1 + (2 + i)] = base[i]
    BY <2>2, <2>4, <2>6, <2>8
  <2>10. \A i \in 1 .. n + 8 : binder[3 + i] = base[i]
    <3>1. \A i \in 1 .. n + 8 : 1 + (2 + i) = 3 + i
      OBVIOUS
    <3>2. QED BY <2>9, <3>1
  <2>11. binder[3 + (n + 7)] = ")" /\ \A i \in 1 .. n : binder[3 + (6 + i)] = tr[i]
    BY <1>6, <2>10
  <2>12. 3 + (n + 7) = n + 10 /\ \A i \in 1 .. n : 3 + (6 + i) = 9 + i
    OBVIOUS
  <2>13. QED BY <2>2, <2>6, <2>8, <2>11, <2>12
<1>9. \A i \in 1 .. n + 10 : (binder \o <<Y!ZERO>>)[i] = binder[i]
  BY <1>1, <1>8, Placed
<1>10. Y!IntoReportData(binder) = binder \o <<Y!ZERO>>
  BY DEF Y!IntoReportData
<1>11. 10 + n = n + 10 /\ n + 10 \in 1 .. n + 10 /\ \A i \in 1 .. n : 9 + i \in 1 .. n + 10
  OBVIOUS
<1>12. QED BY <1>2, <1>7, <1>8, <1>9, <1>10, <1>11

\* A binder belongs to one transcript.
LEMMA OneTranscript ==
  ASSUME NEW S, {"digest(", ")", "attestation", Y!BaseLabel, Y!ZERO} \subseteq S,
         NEW T \in SUBSET S, ")" \notin T,
         NEW tr1 \in Seq(T), NEW tr2 \in Seq(T), NEW k1 \in Seq(S), NEW k2 \in Seq(S), NEW h1 \in S, NEW h2 \in S,
         Y!IntoReportData(Y!ServerBinder(tr1, k1, h1)) = Y!IntoReportData(Y!ServerBinder(tr2, k2, h2))
  PROVE  tr1 = tr2
<1> DEFINE b == Y!IntoReportData(Y!ServerBinder(tr1, k1, h1))
           c == Y!IntoReportData(Y!ServerBinder(tr2, k2, h2))
<1>1. tr1 \in Seq(S) /\ tr2 \in Seq(S)
  BY SeqMonotonic
<1>2. /\ {"digest(", ")", "attestation", Y!BaseLabel, Y!ZERO, h1} \subseteq S
      /\ {"digest(", ")", "attestation", Y!BaseLabel, Y!ZERO, h2} \subseteq S
  OBVIOUS
<1>3. /\ Len(tr1) \in Nat /\ b[10 + Len(tr1)] = ")"
      /\ \A i \in 1 .. Len(tr1) : b[9 + i] = tr1[i]
  BY <1>1, <1>2, BinderPlaced
<1>4. /\ Len(tr2) \in Nat /\ c[10 + Len(tr2)] = ")"
      /\ \A i \in 1 .. Len(tr2) : c[9 + i] = tr2[i]
  BY <1>1, <1>2, BinderPlaced
<1>5. b = c
  OBVIOUS
<1> HIDE DEF b, c
<1>6. /\ \A i \in 1 .. Len(tr1) : tr1[i] # ")"
      /\ \A i \in 1 .. Len(tr2) : tr2[i] # ")"
  BY ElementOfSeq
<1>7. ~ (Len(tr1) < Len(tr2))
  <2>1. ASSUME Len(tr1) < Len(tr2) PROVE FALSE
    <3>1. Len(tr1) + 1 \in 1 .. Len(tr2) /\ 9 + (Len(tr1) + 1) = 10 + Len(tr1)
      BY <1>3, <1>4, <2>1
    <3>2. tr2[Len(tr1) + 1] = ")"
      BY <1>3, <1>4, <1>5, <3>1
    <3>3. QED BY <1>6, <3>1, <3>2
  <2>2. QED BY <2>1
<1>8. ~ (Len(tr2) < Len(tr1))
  <2>1. ASSUME Len(tr2) < Len(tr1) PROVE FALSE
    <3>1. Len(tr2) + 1 \in 1 .. Len(tr1) /\ 9 + (Len(tr2) + 1) = 10 + Len(tr2)
      BY <1>3, <1>4, <2>1
    <3>2. tr1[Len(tr2) + 1] = ")"
      BY <1>3, <1>4, <1>5, <3>1
    <3>3. QED BY <1>6, <3>1, <3>2
  <2>2. QED BY <2>1
<1>9. Len(tr1) = Len(tr2)
  BY <1>3, <1>4, <1>7, <1>8
<1>10. \A i \in 1 .. Len(tr1) : tr1[i] = tr2[i]
  BY <1>3, <1>4, <1>5, <1>9
<1>11. QED BY <1>1, <1>9, <1>10, SeqEqual

\* Report data that match the binder of a session were made for sessions of its transcript only.
LEMMA ItsSession ==
  ASSUME NEW g, LawfulGuest(g), NEW rep, NEW ses \in Sessions, Y!MadeFor(rep, ses),
         NEW tr \in Y!Transcript(g.session), NEW h,
         rep.data = Y!IntoReportData(Y!ServerBinder(tr, g.session.spki, h))
  PROVE  Y!Transcript(ses) = Y!Transcript(g.session)
<1>1. PICK T : T = STRING \ {")"}
  OBVIOUS
<1>2. PICK tr2 \in Y!Transcript(ses) :
        rep.data = Y!IntoReportData(Y!ServerBinder(tr2, ses.spki, Y!SuiteHash(ses.suite)))
  BY DEF Y!MadeFor
<1>3. PICK h2 : h2 = Y!SuiteHash(ses.suite)
  OBVIOUS
<1>4. g.session \in Sessions
  BY DEF LawfulGuest
<1>5. PICK S : S = STRING \cup {"digest(", ")", "attestation", Y!BaseLabel, Y!ZERO, h, h2}
  OBVIOUS
<1>6. tr \in Seq(T) /\ tr2 \in Seq(T) /\ g.session.spki \in Seq(STRING) /\ ses.spki \in Seq(STRING)
  BY <1>1, <1>2, <1>4, SessionsAssumption
<1>7. g.session.spki \in Seq(S) /\ ses.spki \in Seq(S)
  <2>1. STRING \subseteq S
    BY <1>5
  <2>2. QED BY <1>6, <2>1, SeqMonotonic
<1>8. /\ {"digest(", ")", "attestation", Y!BaseLabel, Y!ZERO} \subseteq S /\ h \in S /\ h2 \in S
      /\ T \subseteq S /\ ")" \notin T
  BY <1>1, <1>5
<1>9. tr = tr2
  <2>1. Y!IntoReportData(Y!ServerBinder(tr, g.session.spki, h)) = Y!IntoReportData(Y!ServerBinder(tr2, ses.spki, h2))
    BY <1>2, <1>3
  <2>2. T \in SUBSET S
    BY <1>8
  <2>3. \A k1, k2 \in Seq(S) :
          Y!IntoReportData(Y!ServerBinder(tr, k1, h)) = Y!IntoReportData(Y!ServerBinder(tr2, k2, h2)) => tr = tr2
    <3>1. tr \in Seq(T) /\ tr2 \in Seq(T)
      BY <1>6
    <3>2. {"digest(", ")", "attestation", Y!BaseLabel, Y!ZERO} \subseteq S /\ h \in S /\ h2 \in S /\ ")" \notin T
      BY <1>8
    <3>3. SUFFICES ASSUME NEW k1 \in Seq(S), NEW k2 \in Seq(S),
                          Y!IntoReportData(Y!ServerBinder(tr, k1, h)) = Y!IntoReportData(Y!ServerBinder(tr2, k2, h2))
                   PROVE  tr = tr2
      OBVIOUS
    <3>4. QED BY <2>2, <3>1, <3>2, <3>3, OneTranscript
  <2>4. QED BY <1>7, <2>1, <2>3
<1>10. \A s : \A x, y \in Y!Transcript(s) : x = y
  <2>1. \A flight, want : \A x, y \in Y!FirstHsMsg(flight, want) : x = y
    BY DEF Y!FirstHsMsg
  <2>2. SUFFICES ASSUME NEW s PROVE \A x, y \in Y!Transcript(s) : x = y
    OBVIOUS
  <2>3. PICK C : C = Y!FirstHsMsg(s.client_flight, Y!ClientHello)
    OBVIOUS
  <2>4. PICK E : E = Y!FirstHsMsg(s.server_flight, Y!ServerHello)
    OBVIOUS
  <2>5. Y!Transcript(s) = {ch \o sh : ch \in C, sh \in E}
    BY <2>3, <2>4 DEF Y!Transcript
  <2>6. CASE C = {} \/ E = {}
    <3>1. {ch \o sh : ch \in C, sh \in E} = {}
      BY <2>6
    <3>2. QED BY <2>5, <3>1
  <2>7. CASE C # {} /\ E # {}
    <3>0. PICK c \in C, e \in E : TRUE
      BY <2>7
    <3>1. C = {c} /\ E = {e}
      BY <2>1, <2>3, <2>4, <3>0
    <3>2. {ch \o sh : ch \in {c}, sh \in {e}} = {c \o e}
      OBVIOUS
    <3>3. QED BY <2>5, <3>1, <3>2
  <2>8. QED BY <2>6, <2>7
<1>11. QED BY <1>2, <1>4, <1>9, <1>10

\* What "accept" in the section of a guest means.
LEMMA AcceptMeans ==
  ASSUME NEW g, LawfulGuest(g), NEW net, "accept" \in Y!One(g, net), NEW rep \in g.report
  PROVE  /\ \E tr \in Y!Transcript(g.session), vcek \in Y!Leaf(g, rep, net) :
              Y!Accepts(tr, g.session.spki, rep, vcek, Y!HashOf(g))
         /\ \E vcek \in Y!Leaf(g, rep, net), ch \in Y!Reached(net, "chain", Y!KdsChain("vcek", "Milan")) :
              Y!ChainOk(vcek, ch)
<1> DEFINE match(r) == \E tr \in Y!Transcript(g.session) :
                         r.data = Y!IntoReportData(Y!ServerBinder(tr, g.session.spki, Y!HashOf(g)))
           sig(r) == \E vcek \in Y!Leaf(g, r, net) : Y!SigOk(r, vcek)
           linked(r) == \E vcek \in Y!Leaf(g, r, net), ch \in Y!Reached(net, "chain", Y!KdsChain("vcek", "Milan")) :
                          Y!ChainOk(vcek, ch)
           hwid(r) == \E vcek \in Y!Leaf(g, r, net) : Y!HwidEquals(vcek, r) = {TRUE}
           acc(r) == \E tr \in Y!Transcript(g.session), vcek \in Y!Leaf(g, r, net) :
                       Y!Accepts(tr, g.session.spki, r, vcek, Y!HashOf(g))
           Of(r) == Y!Flag(match(r), "binder_match") \cup Y!Flag(sig(r), "report_signature_ok")
                      \cup Y!Flag(linked(r), "chain_to_ARK_Milan") \cup Y!Flag(hwid(r), "hwid_equals_chip_id")
                      \cup Y!Flag(acc(r) /\ linked(r), "accept")
<1>1. Y!One(g, net) = UNION {Of(r) : r \in g.report}
  BY DEF Y!One
<1>2. \A r : "accept" \in Of(r) => acc(r) /\ linked(r)
  <2> HIDE DEF match, sig, linked, hwid, acc
  <2>1. QED BY DEF Y!Flag
<1>3. AtMostOne(g.report)
  BY DEF LawfulGuest, Reports
<1>4. "accept" \in Of(rep)
  <2> HIDE DEF Of
  <2>1. PICK r \in g.report : "accept" \in Of(r)
    BY <1>1
  <2>2. r = rep
    BY <1>3 DEF AtMostOne
  <2>3. QED BY <2>1, <2>2
<1>5. acc(rep) /\ linked(rep)
  BY <1>2, <1>4
<1>6. QED BY <1>5

\* Accepted evidence is a genuine report of a Milan chip, made for the session and no other.
LEMMA GuestAccepted ==
  ASSUME NEW g, LawfulGuest(g), NEW net, "accept" \in Y!One(g, net), NEW rep \in g.report
  PROVE  /\ \E c \in Chips : rep.signer = VcekKey(c, rep.tcb) /\ ProductOf[c] = "Milan"
         /\ \A ses \in Sessions : Y!MadeFor(rep, ses) => Y!Transcript(ses) = Y!Transcript(g.session)
<1>1. PICK tr \in Y!Transcript(g.session), vcek \in Y!Leaf(g, rep, net) :
        Y!Accepts(tr, g.session.spki, rep, vcek, Y!HashOf(g))
  BY AcceptMeans
<1>2. PICK leaf \in Y!Leaf(g, rep, net), ch \in Y!Reached(net, "chain", Y!KdsChain("vcek", "Milan")) : Y!ChainOk(leaf, ch)
  BY AcceptMeans
<1>3. Unforged(rep) /\ AtMostOne(g.vcek) /\ (\A cert \in g.vcek : Issued(cert))
  BY DEF LawfulGuest, Reports, Certificates
<1>4. leaf = vcek /\ Issued(vcek)
  <2>1. CASE g.vcek # {}
    <3>1. leaf \in g.vcek /\ vcek \in g.vcek
      BY <1>1, <1>2, <2>1 DEF Y!Leaf
    <3>2. QED BY <1>3, <3>1 DEF AtMostOne
  <2>2. CASE g.vcek = {}
    <3>1. leaf \in KdsVcek("Milan", rep) /\ vcek \in KdsVcek("Milan", rep)
      BY <1>1, <1>2, <2>2, EarlyShares DEF Y!Leaf, Reached
    <3>2. /\ leaf = VcekCert(rep.chip_id, rep.tcb) /\ vcek = VcekCert(rep.chip_id, rep.tcb)
          /\ rep.chip_id \in Chips
      BY <3>1 DEF KdsVcek
    <3>3. Issued(vcek)
      BY <3>2, KdsIssued
    <3>4. QED BY <3>2, <3>3
  <2>3. QED BY <2>1, <2>2
<1>5. ch \in KdsChain("vcek", "Milan") /\ ChainOk(vcek, ch)
  BY <1>2, <1>4, EarlyShares DEF Reached
<1>6. PICK c \in Chips : vcek = VcekCert(c, vcek.key[3]) /\ ProductOf[c] = "Milan"
  BY <1>4, <1>5, VcekLeaf
<1>7. PICK tcb : tcb = vcek.key[3]
  OBVIOUS
<1>8. /\ rep.data = Y!IntoReportData(Y!ServerBinder(tr, g.session.spki, Y!HashOf(g)))
      /\ SigOk(rep, vcek)
  BY <1>1, EarlyShares DEF Y!Accepts
<1>9. rep.signer = VcekKey(c, tcb)
  BY <1>6, <1>7, <1>8 DEF SigOk, VcekCert, Cert
<1>10. rep.tcb = tcb
  BY <1>3, <1>9, GenuineNames
<1>11. \A ses \in Sessions : Y!MadeFor(rep, ses) => Y!Transcript(ses) = Y!Transcript(g.session)
  BY <1>8, ItsSession
<1>12. QED BY <1>6, <1>9, <1>10, <1>11

\* A report that matches the session of a guest was made for it and no other.
LEMMA MatchedIsItsOwn ==
  ASSUME NEW from, NEW to, LawfulGuest(from), LawfulGuest(to), Y!InSessionOf(from, to),
         NEW rep \in from.report, NEW ses \in Sessions, Y!MadeFor(rep, ses)
  PROVE  Y!Transcript(ses) = Y!Transcript(to.session)
<1>1. PICK r \in from.report, tr \in Y!Transcript(to.session) :
        r.data = Y!IntoReportData(Y!ServerBinder(tr, to.session.spki, Y!HashOf(to)))
  BY DEF Y!InSessionOf
<1>2. AtMostOne(from.report)
  BY DEF LawfulGuest, Reports
<1>3. rep.data = Y!IntoReportData(Y!ServerBinder(tr, to.session.spki, Y!HashOf(to)))
  BY <1>1, <1>2 DEF AtMostOne
<1>4. QED BY <1>1, <1>3, ItsSession

\* A flag of early-attestation's summary is of the section it is written in.
LEMMA EarlySections ==
  ASSUME NEW d, NEW net
  PROVE  /\ <<"server", "accept">> \in Y!EarlyReads(d, net) => "accept" \in Y!One(d.server, net)
         /\ <<"attacker", "accept">> \in Y!EarlyReads(d, net) => "accept" \in Y!One(d.attacker, net)
         /\ <<"naive_relay", "server_report_in_attacker_session">> \in Y!EarlyReads(d, net) =>
              Y!InSessionOf(d.server, d.attacker)
         /\ <<"naive_relay", "attacker_report_in_server_session">> \in Y!EarlyReads(d, net) =>
              Y!InSessionOf(d.attacker, d.server)
<1>1. ASSUME NEW section, NEW flag, <<section, flag>> \in Y!EarlyReads(d, net)
      PROVE  \/ section = "server" /\ flag \in Y!One(d.server, net)
             \/ section = "attacker" /\ flag \in Y!One(d.attacker, net)
             \/ /\ section = "naive_relay"
                /\ \/ flag = "server_report_in_attacker_session" /\ Y!InSessionOf(d.server, d.attacker)
                   \/ flag = "attacker_report_in_server_session" /\ Y!InSessionOf(d.attacker, d.server)
  BY <1>1 DEF Y!EarlyReads, Y!Flag
<1>2. QED BY <1>1

(* Accepted evidence is a genuine chip's, made for this session and no    *)
(* other, and the controls are: for any two guests, sessions and services, *)
(* whoever has whose key.                                                  *)
THEOREM AcceptedInSession == Spec => []AcceptedInItsSession
<1>1. AppraisalInv => AcceptedInItsSession
  <2>1. SUFFICES ASSUME AppraisalInv, program = "verify_run", NEW d \in dir, NEW net, row = Reads(program, d, net),
                        NEW ses \in Sessions
        PROVE  /\ \A role \in {"server", "attacker"} : <<role, "accept">> \in row =>
                    \A rep \in d[role].report :
                      /\ \E c \in Chips : rep.signer = VcekKey(c, rep.tcb) /\ ProductOf[c] = "Milan"
                      /\ Y!MadeFor(rep, ses) => Y!Transcript(ses) = Y!Transcript(d[role].session)
               /\ \A rep \in d.server.report :
                    <<"naive_relay", "server_report_in_attacker_session">> \in row /\ Y!MadeFor(rep, ses) =>
                      Y!Transcript(ses) = Y!Transcript(d.attacker.session)
               /\ \A rep \in d.attacker.report :
                    <<"naive_relay", "attacker_report_in_server_session">> \in row /\ Y!MadeFor(rep, ses) =>
                      Y!Transcript(ses) = Y!Transcript(d.server.session)
    BY DEF AcceptedInItsSession, AppraisalInv
  <2>2. row = Y!EarlyReads(d, net)
    BY <2>1 DEF Reads
  <2>3. LawfulGuest(d.server) /\ LawfulGuest(d.attacker)
    <3>1. LawfulDir("verify_run", d)
      BY <2>1, DirectoriesAssumption DEF AppraisalInv
    <3>2. QED BY <3>1 DEF LawfulDir
  <2>4. ASSUME <<"server", "accept">> \in row, NEW rep \in d.server.report
        PROVE  /\ \E c \in Chips : rep.signer = VcekKey(c, rep.tcb) /\ ProductOf[c] = "Milan"
               /\ Y!MadeFor(rep, ses) => Y!Transcript(ses) = Y!Transcript(d.server.session)
    <3>1. "accept" \in Y!One(d.server, net)
      BY <2>2, <2>4, EarlySections
    <3>2. QED BY <2>3, <2>4, <3>1, GuestAccepted
  <2>5. ASSUME <<"attacker", "accept">> \in row, NEW rep \in d.attacker.report
        PROVE  /\ \E c \in Chips : rep.signer = VcekKey(c, rep.tcb) /\ ProductOf[c] = "Milan"
               /\ Y!MadeFor(rep, ses) => Y!Transcript(ses) = Y!Transcript(d.attacker.session)
    <3>1. "accept" \in Y!One(d.attacker, net)
      BY <2>2, <2>5, EarlySections
    <3>2. QED BY <2>3, <2>5, <3>1, GuestAccepted
  <2>6. ASSUME NEW rep \in d.server.report, Y!MadeFor(rep, ses),
               <<"naive_relay", "server_report_in_attacker_session">> \in row
        PROVE  Y!Transcript(ses) = Y!Transcript(d.attacker.session)
    <3>1. Y!InSessionOf(d.server, d.attacker)
      BY <2>2, <2>6, EarlySections
    <3>2. QED BY <2>3, <2>6, <3>1, MatchedIsItsOwn
  <2>7. ASSUME NEW rep \in d.attacker.report, Y!MadeFor(rep, ses),
               <<"naive_relay", "attacker_report_in_server_session">> \in row
        PROVE  Y!Transcript(ses) = Y!Transcript(d.server.session)
    <3>1. Y!InSessionOf(d.attacker, d.server)
      BY <2>2, <2>7, EarlySections
    <3>2. QED BY <2>3, <2>7, <3>1, MatchedIsItsOwn
  <2>8. QED BY <2>4, <2>5, <2>6, <2>7
<1>2. QED BY <1>1, AppraisalAlways, PTL
=============================================================================
