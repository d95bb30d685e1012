# TLA+ models of geoar-verifier

This directory holds a specification of the parts of geoar-verifier that make decisions over
time or over evidence: what travels from a probe to the operator, what is deleted when, what a
verifier concludes from a run directory, what a result that reaches a relying party rests on, and
what a client learns from a report about the session it is in. The modules are written from the code; each
definition names its idea, and `PROJECT.json` says which lines it stands for.

## The system

Probes run inside confidential VMs (AMD SEV-SNP, Intel TDX, AWS Nitro) at four providers and on
own hardware. A probe asks the firmware for attestation reports over a public nonce, packs what it
got, and writes the archive to the **serial console**, the only channel it has. On the operator's
machine a **collector** per provider polls the consoles of the machines in `launched.txt`, runs the
**decoder** over each capture, and deletes a machine whose archive it has. **Verifiers** then check
the archives offline: report signatures, certificate chains from the AMD KDS, bindings in
REPORT_DATA. Other programs use the results: the **ledger** of machines seen, the **re-attestation**
orchestration, the **evidence chain** (Verifier A, Verifier B, Relying Party), the **session-binding**
client, server and relay, the **early-attestation** binder, the **credential authority** check.

| component | state it keeps | operations | talks to | what is hard | what makes it correct |
|---|---|---|---|---|---|
| console decoder, `tools/decode_console.py` | none (pure) | `decode_one`, `decode`, `main` | called by every collector on a capture | damage anywhere in any copy; several boots in one capture | never extracts what no probe wrote; extracts what a capture can still yield; exit 0 only when every stamp was extracted |
| probe transport, `probe-*.sh` tails | position in the script, boot stamp | write header, lines, END, three times | the serial device, shared with cloud-init, journald and the kernel | interleaved writers, stop and restart half way | any capture is damage of this script, nothing else |
| collectors, `*/collect.sh` | done list, pending count, deadline; `runs/` on disk | fetch, decode, delete, ask for status, give up, wait | provider CLI, decoder | calls that fail, machines that stop meanwhile, stale captures, several runs over the same directory | no deletion before a verified extraction; nobody forgotten; stops |
| re-attestation, `gcp-cvm/reattest.sh`, `probe-reattest.sh` | archives on disk, which wait it is in | wait, stop, start, wait, delete | provider CLI, decoder | leftovers of an aborted run; moves between samples | both boots' archives on disk before the deletion |
| evidence chain, `trip_chain.py` | store of results by claim-uuid, trust anchors | `verifier_A`, `verifier_B`, `rp` | signed results | recursion over references, window boundaries | an accepted result rests on evidence or an endorsement of a trusted signer |
| session binding, `probe-exporter.sh`, `tools/exporter_client.py` | TLS sessions, nonce, session list | accept, exchange, `client`, `relay` | sockets | one blocking server, two spliced sessions | the exporter binder accepts only within one session |
| early attestation, `early-attestation/` | transcript of a handshake | `do_handshake_capture`, `server_binder`, `verify` | an in-memory pump | limit on rounds, transcript of the right session | accept iff report and transcript belong together |
| ledger, `tools/fingerprint_ledger.py`; offline verifiers `dual_verify.py`, `vlek_verify.py`, `idbind_verify.py`, `gcp_verify.py`, `bind_verify.py`, `azure_verify.py`, `nitro_verify.py`, `nitrotpm_verify.py` | KDS cache, rows | fetch, verify, group | AMD KDS | a failed fetch cached, one certificate for several reports, partial results | a row says OK only of what was checked; a machine is called the same only on checked reports |
| credential authority, `tacra/tacra_verify.py` | none | one decision | KDS | a check that could not run | issues only if every condition held |
| own hardware, `baremetal/` | MASK_CHIP_ID of the platform, guest runs | configure, launch, reset | /dev/sev, QEMU | a run that dies before the reset | each run sees the configuration it set |
| launchers, measuring probes, CDDL files | none that others read but `launched.txt` | provider and firmware calls in a row | | | |

## Modules

| module | models | state | actions |
|---|---|---|---|
| `ConsoleDecode` | `tools/decode_console.py` | none: operators over a capture | |
| `SerialConsole` | the probes' output and the other writers of the console | `vm`, `boot`, `pos`, `spoiled`, `console` | `PrintIntact`, `PrintSpoiled`, `Stop`, `Restart` |
| `PollLoop` | what the three collectors share | `pc`, `todo`, `done`, `givenUp`, `pending`, `expired`, `runs` (the script), `file`, `got` (the disk) | `SkipDone`, `EndPass`, `DeadlinePasses`, `RunAgain`; parts of actions `FetchOk`, `FetchFails`, `Extract`, `Delete`, `SetDone`, `GiveUp`, `SetPending` |
| `GcpCollect` | `gcp-cvm/collect.sh` | + `keep` | `Fetch`, `DecodeVerified`, `DecodeIncomplete`, `NoEnd`, `DeleteVM`, `KeepVM`, `Describe` |
| `AwsCollect` | `aws-vlek/collect.sh` = `aws-nitro/collect.sh` | + `state` | `DescribeInstances`, `Fetch`, `DecodeVerified`, `DecodeIncomplete`, `Terminate`, `EndedWithout`, `Waiting` |
| `AzureCollect` | `azure-cvm/collect.sh` | | `Fetch`, `SshFallback`, `Unpack`, `DeleteVM`, `NoEnd`, `InstanceView` |
| `Reattest` | `gcp-cvm/reattest.sh` on one machine, with the PROBE DONE line of `probe-reattest.sh` | `pc`, `expected`, `tries`, `capture`, `heard`, `got` (the script), `told`, `signalled` (the probe) | `Fetch`, `Arrived`, `Sleep`, `StopMachine`, `StartMachine`, `DeleteMachine`; `ProbeDone`, `PlatformRestart` |
| `AmdReports` | SEV-SNP reports, certificates and AMD's Key Distribution Service, as all verifiers use them (`parse`, `product`, `sig_ok`, `chain_ok`, the cache of `dual_verify.py`) | none: operators | |
| `Ledger` | `tools/fingerprint_ledger.py` | `runs` (the directories), `place`, `rows`, `kds_cache` | `NoReports`, `VcekRow`, `HostRow` |
| `DualVerify` | `aws-vlek/dual_verify.py` over the same directories | `at`, `verdicts`, `vceks`, `chains` | `NoneNamed`, `ByHost`, `Masked`, `ByKds` |
| `Evidence` | what the per-cloud verifiers share: try blocks that stop at the first failure, tokens, services | none: operators | |
| `GoogleEvidence` | `gcp_verify.py`, `bind_verify.py` | none: operators | |
| `AzureEvidence` | `azure_verify.py` | none: operators | |
| `AwsEvidence` | `vlek_verify.py`, `idbind_verify.py`, `nitro_verify.py`, `nitrotpm_verify.py`, `tacra_verify.py` | none: operators | |
| `EarlyEvidence` | `early-attestation/`: `binder.py`, `handshake.py` = `handshake_stdlib.py`, `verify.py`, `verify_run.py` | none: operators | |
| `Verification` | the operator's machine: ledger and report verifier interleaved, or one of the other verifiers | + `program`, `dir`, `row`, `pc` | `LedgerStep`, `DualStep`, `Appraise` |
| `RelyingParty` | `trip_chain.py`, the verifier of `trip_example.py` | `published`, `store`; `asked`, `policy`, `at`, `depth`, `verdict` (a call of `rp`) | `PublishExample`, `PublishA`, `PublishB`, `Import`, `Forge`, `Ask`, `Accept`, `Reject`, `Follow` |
| `SessionBinding` | the server of `probe-exporter.sh`, client and relay of `exporter_client.py` | `server`, `late`, `backlog`, `serving`, `log` (the guest); `relay`, `relay_key`, `relayed`; `plan`, `nonce`, `client`, `verdict` (the clients); `tls`, `line`, `blob` (the wire) | `Loop`, `Accept`, `Handshake`, `Answer`, `AnswerFails`, `Record`, `SilentLeaves`, `Deadline`, `RelayShake`, `RelayDial`, `RelayLine`, `RelaySend`, `Connect`, `Ask`, `Conclude` |
| `ArchiveCollection` | the promise in the head comment of every collector | `archived`, `released` | `Archive`, `Release` |
| `ConsoleProofs`, `LoopProofs`, `GcpCollectProofs`, `AwsCollectProofs`, `ReattestProofs`, `RelyingPartyProofs`, `SessionBindingProofs`, `VerificationProofs` | lemmas and theorems, see Proofs; `LoopProofs` holds those of `AzureCollect` too | | |
| `MC…` | values for TLC | | |

How they fit together: `SerialConsole` EXTENDS `ConsoleDecode` (its `Script` writes the tokens the
decoder reads), `PollLoop` EXTENDS `SerialConsole` (the machines print on while the script works),
each collector EXTENDS `PollLoop` and adds the body of its loop. `PollLoop` instantiates
`ArchiveCollection` with `archived` = machines with something in `got`, `released` = machines whose
`vm` is deleted. `Reattest` EXTENDS `SerialConsole`: here the machine is stopped and started by the
script, so its boots are the script's doing. `Ledger` and `Evidence` EXTEND `AmdReports`,
`DualVerify` EXTENDS `Ledger` (the two programs read the same directories, each with files, a cache and
an order of its own: a directory has `reports` and `table` for the one, `named` and `certs` for the other), and `Verification` EXTENDS `DualVerify` and `Evidence` and instantiates the modules of the
clouds. `RelyingParty` and `SessionBinding` stand alone: what they take from a report is its
REPORT_DATA and who made it.

### What is abstracted

* A capture is a sequence of **tokens**: header, indexed line, single-line payload, END, noise.
  Another writer hits one token at a time; a token it hits is lost (`Noise`), or, for a header, cut
  before or after `size=` or given a stamp of its own, or, for a line or a payload, replaced by other
  characters of the same number. Characters are not modelled: a line carries the boot whose archive
  it was cut from, or `Wrong` (tar cannot open the result) or `Slip` (tar does not notice).
* SHA-256 is injective: a header announces a boot's archive, and the check of
  `decode_console.py:31` is equality with it.
* The clock is one event, `DeadlinePasses`; `sleep` takes no step.
* A provider call is one step and takes effect at once; it may fail if it is in `Faults`. A shell
  command and the next one are separate steps, so probes, the platform and the clock run in between.
* `launched.txt` is the constant `Launched`. It does not grow during a run; the name filter of
  `gcp-cvm/collect.sh:10` amounts to a shorter list.
* **Cryptography is symbolic.** A key is a name, a signature is its maker's key, a digest is the
  sequence it is taken of between two marks. AMD's, Intel's, AWS's and Google's keys sign what those
  parties sign; the key `Foreign` signs whatever its owner likes, its own certificates included. HKDF
  (`ExpandLabel`) is a digest of all its inputs.
* The bytes of reports, quotes, certificates, CBOR, COSE and TLS records are records with the fields the
  programs look at. A TLS session has one exporter value, the connection itself. Both ends of an
  early-attestation handshake run in one process (`capture`), so there is no HelloRetryRequest.
* A verifier's row is the set of its flags that read True; False, None and absent are the same to the
  properties. A service answers or not, once per program run (`Services`, `net`); AMD's, in the two
  programs with a cache, once per request. A retry (`gcp_verify.get`) that succeeds is an answer.
* `Evidences` are windows of breadcrumbs, `supplied` or the synthetic walk; geometry is the table of the country a
  cell lies in wholly (`Whole`, 10m borders, `trip_chain.py`) and the one of its centre (`Centroid`, 50m borders,
  `trip_example.py`). Nothing relates the two tables.
* `Imports` stands for the results of `geoar-run-27-two-claims.json`. `trip_chain.py` keeps neither them nor the
  forged result in its store; the model lets it, so that the walk of `rp` meets loops, dead ends, long chains and
  untrusted results.
* A run directory of the ledger and the report verifier has the sequence of reports that each program reads, which
  need not have a report in common. A file too short for `parse`, a missing `metadata.txt` or
  `nonce-sentence.txt`, which end `dual_verify.py`, are left out.
* What tar leaves of a payload it cannot read to the end (`Untarred`) is a leading part of its entries, or nothing.
* In `SessionBinding`, exceptions after the answer is sent (a full disk) are left out, a silent client is
  one of the server's, and the relay's backlog is as long as it needs to be.
* Names, timestamps of EC2 and progress messages are left out. "given up" is the message
  "without archive; console kept" (Google, Azure) or "without a probe archive" (AWS).

## Runs

Bounds, all CONSTANTS of the cfg files: `NL` lines per archive, `Copies`, `MaxBoots`, `MaxSpoiled`
(tokens damaged in total), `Spoilings` (kinds of damage), `MaxRuns`, `Faults`, `Unsteady` (machines
the platform may stop), `Legacy` (machines whose probe prints one line). Two lines, two copies and
one or two damaged tokens are enough for every mixture of copies the decoder distinguishes: a line
missing in one copy, present in another; a header lost, its lines still there; two boots on one
console. The safety runs of the collectors print one copy per boot, two boots, so that a second run
of the script stays affordable; `transport` has both copies and boots. Two
machines are enough for the loop, which treats each on its own and shares only `pending`, `done` and
the reading of `launched.txt`. Deadlock is not checked, because the probes end and the script exits.

| run | shows |
|---|---|
| `transport` | a capture from which a reassembly "from any copy, by index" could rebuild every archive is one the decoder exits 0 on (`SurvivesInterleaving`), for lost tokens and cut headers; what one capture yields is yielded by every later one (`StaysExtractable`): re-reading never loses an archive |
| `gcp_safety` | only archives the machine wrote are extracted (`ArchivesAuthentic`); a deleted machine has one on disk (`DeletedOnlyVerified`); a machine that booted twice is not deleted while the capture announces an archive that is not on disk (`NoAnnouncedBootLost`); any damage, every call may fail, the machine may stop and boot again, the script is run twice |
| `gcp_loop` | two machines, one of each probe format: a run that ends before its deadline has settled both (`FinishedSettled`); the collector implements `ArchiveCollection` (`KeepsPromise`); the archive of a steady machine is collected unless the deadline passes (`EventuallyCollected`), and the deadline ends the run (`StopsAfterDeadline`) |
| `aws_loop` | the same of the AWS script, run twice (without the deadline, whose code it shares; the single-line machine is the one that may stop), that a terminated instance has an archive on disk (`DeletedOnlyVerified`; the Google run and the theorem `DeletionSafe` have more damage and several boots), and that who is given up had nothing to give (`GivenUpHadNothing`), with describe and terminate failing now and then. `NoAnnouncedBootLost` would not hold of it: the console of a terminated instance can still be read, and a second run finds there the header of a boot that began while the first run was deleting |
| `azure_ssh` | two machines, the SSH fallback with short reads, one lost token, two runs of the script: a machine that no other writer hit and whose capture was read off the console is deleted only with its whole archive on disk, however its printing, the captures and failing calls interleave (`UndisturbedNotLost`), and the deadline ends the run. Nothing more holds: the script compares neither a length nor a hash, so a damaged payload, or an SSH read of a file that is still being written, is unpacked as far as tar gets |
| `reattest` | with a fresh directory: the machine is deleted only with the archives of two of its boots on disk (`BothArchivesVerified`), the script takes no boot down before its archive arrived (`TakenDownAfterArchive`: as long as the platform has brought the machine up no more often than the script meant to), a machine that booted only once is never deleted (`NoDeletionWithoutRestart`), and the script ends (`Ends`); any of its four calls may fail, the platform may stop and restart the machine by itself up to a third boot, the wait has three turns instead of forty (enough for an early, a late and a missing archive); one line and one copy per boot |
| `verification` | every sequence of three run directories out of those of `MCVerification`, some with files that only one of the two programs reads, every request of either program failing or not: a ledger row that reads OK is about one key holder and one chip (`RowsSound`), a row without a key or with False has its reason in a request that failed for this very CHIP_ID and TCB, or in a report of another origin (`GapsExplained`), a report that reads `chain_ok` was made by an AMD key of its kind (`ReadsGenuine`), and the two programs never contradict each other about the reports that both have read (`ProgramsAgree`). And of every directory out of the mixtures of `MCVerification`, for every choice of services that answer: flags that hold together only hold of evidence by the makers they name (`AppraisedGenuine`), and accepted early-attestation evidence was made for this session and no other by some genuine Milan chip (`AcceptedInItsSession`); by which guest is not told, see below |
| `relying_party` | up to four results, published in any order by A, B, the example, from elsewhere or forged, and one appraisal: the strict verdict is ACCEPT exactly when a chain of trusted EU results bottoms out in evidence or endorsement (`StrictVerdictExact`); what is accepted along A's and B's results is what a device has signed, N moments and each at least STEP after the one before (`AcceptedIsObserved`); a claim-uuid names one country and window among signed results, and another one in the unsigned result of `trip_example.py` only where the two maps differ in every cell (`UuidNamesOneClaim`); the walk ends in spite of loops (`WalkEnds`) |
| `sessions` | three clients, each direct, relayed or silent, with one sentence or two, a relay with the guest's key or another: the exporter binder accepts exactly the clients whose session ends at the guest (`ExporterMeansDirect`), the key binder whoever holds the key, and whatever is accepted answers this client's nonce (`KeyBinderMeansKey`); a client that connects is answered or told off unless a silent one stays for good (`TalkersServed`) |

Why these bounds. Three directories: two of one chip and one between them, the least for a cached
failure to be met again and for two caches to differ. One directory of the other verifiers: they
keep nothing from one directory to the next but certificates fetched once, which `net` fixes for the
run. Each part of a directory is genuine, made up under `Foreign`, borrowed from another chip or
guest, or over another nonce, and the parts are combined freely. `MaxDepth = 1` instead of 4: two
references instead of five, so that one imported chain is too long and a loop is walked more than once;
windows of three breadcrumbs instead of 64, spaced exactly, two of them too close though the whole span is long enough, and one too few; two silent clients beside a third
cover a held server, and three a relay that two clients ask for.

Runs that end in a violation, each a disagreement between the code and what the repository says
of it (`PROJECT.json`, findings):

| run | the disagreement |
|---|---|
| `azure_unchecked` | the machine is deleted whatever became of the archive (`azure-cvm/collect.sh:32`); in the trace SSH brings half of it, which is longer than 1000 characters and so taken (line 17) |
| `reattest_leftover` | the waits count directories that an earlier run has left under the same name (`reattest.sh:12`); names repeat (`launch.sh:12`) |
| `ledger_seen_again` | the ledger groups rows by CHIP_ID whatever became of their signatures (`fingerprint_ledger.py:49-51`), and prints that the certificate "verifies both runs' reports" (line 60) |

Met while modelling, visible with other constants, and why the runs above choose theirs:

* `SurvivesInterleaving` fails with `"same_length"` in `Spoilings` and two copies: the first candidate of
  the right length wins (`decode_console.py:26`), and a wrong one masks the intact copies after it in
  every later reading, although lines 9-11 promise a line "from any copy".
* `FinishedSettled` fails for `AzureCollect` with two machines and the SSH fallback: ssh, inside the loop,
  reads the rest of `launched.txt` (`azure-cvm/collect.sh:16`), and the script ends with a machine that it
  never visited.
* `GivenUpHadNothing` fails for the Google script: the console is read (line 11) before the status
  (line 21), and an archive printed in between by a machine that then stops is reported as missing.
* `EventuallyCollected` fails for the Google script with `"describe"` in `Faults`: one failed call is
  taken for `GONE` (line 21) and ends the polling of a running machine. Hence `gcp_loop` lets fetch
  and delete fail only, and `aws_loop`, whose script keeps such a machine pending, also describe.
* `GivenUpHadNothing` fails for the AWS script with `"fetch"` in `Faults`: a stopped instance whose
  console cannot be read once is given up for good in that run. It fails with `MaxBoots = 2` as well: an
  instance that is started again after it was given up prints an archive that nobody waits for. Hence `aws_loop`
  has describe and terminate fail and one boot; the other theorems about the script allow all three, and any number of boots.
* What is extracted from a `Legacy` machine's console need not be an archive of it when damage keeps the length
  (`decode_console.py:34` compares lengths, as line 12 says); hence `ArchivesAuthentic` and `DeletedOnlyVerified`
  speak of indexed consoles. The default probe of `gcp-cvm/launch.sh` is a legacy one.
* `reattest.sh` counts archives, not boots. A machine that the platform restarts during the first wait
  (`launch.sh:18` leaves the automatic restart on) may be stopped in its second boot, with the first one's archive only:
  `TakenDownAfterArchive` without its premise `boot[NAME] <= expected` fails.
* `idbind_verify.py:46` calls `openssl smime -verify` with `-noverify` and without `-nointern`: a signer's
  certificate that comes inside the PKCS#7 is used, whoever issued it. Lines 4-5 say "against the certificates AWS
  publishes"; that holds of the detached signature (`rsa2048`, line 51). `AppraisedGenuine` takes only the
  latter for a word of AWS.
* `vlek_verify.py` takes leaf and chain from the run directory and compares neither with AMD's, and
  `azure_verify.py` does not look at the report's VMPL, so that a guest's own report over runtime data of its own making
  reads like a paravisor's. `AppraisedGenuine` claims nothing of the first, and of the second only that the chip signed this runtime data.
* The ledger reads every `*.bin` of 1184 bytes and version 2 to 5 in any directory of a run
  (`fingerprint_ledger.py:24-26`), the report verifier only `report-*.bin` at the top, of any size and version
  (`dual_verify.py:59`, 71). A ledger row may read False because of a file that the other never opens; hence the two
  premises of `ProgramsAgree`.
* The two programs of the evidence chain derive one claim-uuid from the same breadcrumbs by different maps
  (`trip_chain.py:12`, 71 and 86; `trip_example.py:15`, 52 and 69). Where these differ in every cell of a window, the name
  stands for two countries; the second is in a file that is neither signed nor in any store.
* The Credential Authority issues without the hwID that its head comment lists (`tacra_verify.py:10`, 69):
  a VCEK that verifies the report and chains to AMD is of the chip anyway, unless the CHIP_ID is masked.
* `handshake.py:9-10` names SHA-384 for CHACHA20_POLY1305, `SUITE_HASH` has SHA-256 (which is TLS's).
  Both ends use the same table, so no binder differs.
* `nitrotpm_verify.py:57` compares the quote's extraData with a file of the run directory, not, as line 8
  says, with the public sentence; `AppraisedGenuine` therefore says of it only who signed the quote. The AK itself
  is bound to nothing in that program.
* One token of three parts that is no JSON ends `gcp_verify.py` (line 167, before the try) and
  `azure_verify.py` (line 97) without a summary for any run; so does a page out of reach in
  `idbind_verify.py` (line 40) and `nitro_verify.py` (line 38), and, in `verify_run.py`, a missing `cap-hs.json`,
  for which line 39 has a default and line 80 has not.
* The early-attestation binder is not tied to the guest: the firmware signs any REPORT_DATA (`poc_mock.py:5-8`), and
  `early-attestation/README.md:4` says what follows once the TLS key has leaked. The model excludes no such report, and
  `AcceptedInItsSession` claims the session, not the guest. The controls of `verify_run.py` (lines 83-84) compare
  REPORT_DATA only, so a control that reads True says that the report was made for the other session's transcript.
* `server.py` promises fifteen minutes (`probe-exporter.sh:2-3`); a client that connects and says nothing
  holds it beyond them. `TalkersServed` has this as its assumption.
* `rp` compares no country along the chain: a result for BE that rests on one for NL is accepted, as
  long as both lie in the EU (`StrictVerdictExact` says exactly this).
* A fetch that fails truncates `runs/<name>.console`, so "console kept" may be said of an empty file.

### Fairness

* `WF_vars(Collector)`: the script is one process in a loop; nothing but its own exits ends it.
* `WF_vars(ProbePrints(v))`: a probe that runs prints its script to the end.
* `SF_vars(FetchSucceeds(v))`: a provider call that fails now and then does not fail for ever.
  Strong, because a pass that fails to fetch leaves the state in which it could have succeeded.
* `WF_vars(Orchestrator)` in `Reattest`, for the same reason as `WF_vars(Collector)`; `Ends` needs
  nothing from the machine.
* `WF_vars(rp)` in `RelyingParty`: a function call that has begun goes on. Publishing and asking are
  not fair.
* `WF_vars(Guest)`, `WF_vars(Relay)` and `WF_vars(Ask(c) \/ Conclude(c))` in `SessionBinding`: each process goes on
  when its socket lets it. `Connect`, `Deadline` and `SilentLeaves` are not fair: no client has to come, time
  need not run out, a silent client may stay.
* None for the platform (`Stop`, `Restart`), the other writers, the deadline, the operator.

`EventuallyCollected` is therefore stated for steady machines, with "or the deadline passed", and for
the indexed format: a single line that is hit is never repeated.

## Proofs

Eight modules hold theorems. TLC checks an instance of the same specifications; the theorems hold for every
value of the constants that the named assumptions (and, where the table says so, a hypothesis) allow: any
number of machines, lines, copies, boots, damaged tokens, runs, directories, reports, chips, results and
clients. Every invariant that a run checks has its theorem.

| module | theorem | states | hypothesis |
|---|---|---|---|
| `ConsoleProofs` | `ConsoleTypeCorrect` | `ConsoleSpec => []ConsoleTypeOK` | |
| | `RereadingKeeps` | `ConsoleSpec => StaysExtractable` | |
| | `Survives` | `ConsoleSpec => []SurvivesInterleaving` | `"same_length" \notin Spoilings` |
| `GcpCollectProofs` | `TypeCorrect`, `Authentic`, `DeletionSafe`, `Settles` | `[]TypeOK`, `[]ArchivesAuthentic`, `[]DeletedOnlyVerified`, `[]FinishedSettled` | |
| | `BootsKept` | `Spec => []NoAnnouncedBootLost` | |
| | `Implements` | `Spec => KeepsPromise`: it implements `ArchiveCollection` | |
| `AwsCollectProofs` | `TypeCorrect`, `Authentic`, `DeletionSafe`, `Settles`, `Implements` | as for Google | |
| | `GivenUpRightly` | `Spec => []GivenUpHadNothing` | `"fetch" \notin Faults`, `MaxBoots = 1` |
| `LoopProofs` | `AzureTypeCorrect` | `Azure!Spec => []LoopTypeOK` (`Azure` is the instance of `AzureCollect`) | |
| | `AzureKeepsUndisturbed` | `Azure!Spec => UndisturbedNotLost`, an action property | `Legacy = VMs` |
| `ReattestProofs` | `TypeCorrect` | `Spec => []TypeOK` | |
| | `DeletionAfterBoth`, `DeletionAfterRestart` | `[]BothArchivesVerified`, `[]NoDeletionWithoutRestart` | `Leftover = 0` |
| | `TakenDownArchived` | `Spec => TakenDownAfterArchive`, an action property | `Leftover = 0` |
| `RelyingPartyProofs` | `TypeCorrect`, `OneClaimPerName`, `StrictExact`, `Observed` | `[]TypeOK`, `[]UuidNamesOneClaim`, `[]StrictVerdictExact`, `[]AcceptedIsObserved` | |
| `SessionBindingProofs` | `TypeCorrect`, `ExporterBinds`, `KeyBinds` | `[]TypeOK`, `[]ExporterMeansDirect`, `[]KeyBinderMeansKey` | |
| `VerificationProofs` | `OneKeyHolder`, `EveryGapOwned` | `[]RowsSound`, `[]GapsExplained` (the ledger) | |
| | `ChainMeansAmd`, `NoContradiction` | `[]ReadsGenuine`, `[]ProgramsAgree` (`dual_verify.py`, and both) | |
| | `GenuineOnly` | `Spec => []AppraisedGenuine` (the per-cloud verifiers and the Credential Authority) | |
| | `AcceptedInSession` | `Spec => []AcceptedInItsSession` (early attestation) | |

### The hypotheses

Each but `Legacy = VMs` is necessary, and a run or a note above shows what happens without it.

* `"same_length" \notin Spoilings`: no writer replaces a line by other characters of the same number.
  `transport` runs under it; under damage of equal length the property fails ("Met while
  modelling"). `RereadingKeeps` and everything about the Google and the AWS collector do without it.
* `Legacy = VMs`: every probe on Azure prints the single-line format. It is `AzureAssumption` of `AzureCollect`, written out as
  a hypothesis because `LoopProofs` takes that module as an instance.
* `Leftover = 0`: a fresh output directory. `reattest_leftover` is the counterexample without it.
* `"fetch" \notin Faults`, `MaxBoots = 1`: with a read that fails once, or with an instance that is started
  again after it was given up and then prints its archive, a given-up instance did have something to give.

### The assumptions

Sizes are naturals and sets of names are sets of names (`NLAssumption`, `ConsoleAssumption`, `LoopAssumption`,
`AzureAssumption`, `ReattestAssumption`, `ReportsAssumption`, `RelyingAssumption`, `SessionAssumption`). Those that say more:

* `EvidenceAssumption`: a breadcrumb lies in a cell of the table of cells. `verifier_A` looks every cell up.
* `ImportsAssumption`: results made elsewhere refer to results made elsewhere: their publisher does not know
  this repository's, as in the file they stand for.
* `RunsAssumption`, `DirectoriesAssumption`: nobody signs with a key that is not theirs, which is what a signature is
  for: a report with a VCEK's signature has the contents the firmware writes (`Unforged`), a certificate under an AMD
  key is one AMD issues (`Issued`), and likewise for quotes (`Quoted`) and enclave documents (`Enclosed`). What these
  definitions say of REPORT_DATA is nothing: the firmware signs what a guest asks for, for whatever session or
  nonce. Reports, certificates and documents under `Foreign` may say anything; a directory has at most one file of a kind
  (`AtMostOne`), and its parts need not fit together in any way.
* `SessionsAssumption`: no byte of a transcript is a bracket of a digest (the symbolic form of "a hash
  is not its own input"). Who ends a session, and who has its key, is not assumed.
* `PublishersAssumption`: the keys at Google's addresses are not `Foreign`.

### The arguments

*Consoles.* `GenuineConsoles` (every header announces an archive of a boot the machine has had, and an indexed
console holds no single-line payload) makes whatever the decoder returns an archive of the machine
(`ExtractedGenuine`), for any damage. `RereadingKeeps`: the candidates in a capture are the first ones in
any continuation of it (`AppendCandidates`), and the hash that has matched matches again.
`Survives` needs the order of a console, `Chronicles`: tokens are of one boot after the other, and a damaged header has the
stamp of its boot or one that nobody else prints. Then the first candidate for a line of boot b is b's own
(`FirstCandidateIsOwn`), so what can be rebuilt from any copy is what the decoder rebuilds.

*The loop.* `ArchivesAuthentic` is not inductive: it speaks of what was extracted, not of what can be. `LoopInv`
adds `Provenance` (`GenuineConsoles`, of the captures too). `DeletedOnlyVerified` needs two more: between
the decoder's exit 0 and the deletion the archive is on disk (`VerifiedHasArchive`, from
`ExitZeroExtracts`), and it stays there (`DeletedHasArchive`). `ConsoleStepInv`, `BookkeepingInv`, `FetchInv`, `ExtractInv` and
`DeleteInv` show that the parts of the loop keep `LoopInv`; the collectors' modules show that every step of the
script is one of them. Three properties have an invariant of their own beside it, kept by the same parts:

* `SettledInv`, for `FinishedSettled`, says what a pass has achieved so far: unless something is pending, a machine
  that is not done is still ahead, and a done machine was archived or given up.
* `KeptInv`, for `NoAnnouncedBootLost`: exit 0 means that every stamp of the capture was extracted
  (`ExitZeroTakesAll`), and `Stamps` that two boots never share one, so every full header's archive is on disk
  from then on. After the deletion a later run can only fail to read the console, which empties the capture.
* `GivenUpInv`, for `GivenUpHadNothing`: what describe-instances said stays true, and the console read after it is
  all there will ever be.

For `Implements`, `PromiseStutter`, `ConsolePromise`, `ExtractPromise` and `DeletePromise` map each part to a
step of `ArchiveCollection` or a stutter. `azure-cvm/collect.sh` shares the loop but not the decoder, so `LoopProofs` takes it
as an instance: `AzureMachines` and `AzureSteps` identify its definitions with those of the loop. `AzureInv` is the
type invariant with `AsPrinted` (a machine that nobody disturbed has printed its one script as far as its probe has come) and
`Unpacked` (between tar and the deletion the capture has its END, and if it is the whole range, the archive is on disk). A capture
read off such a console that has its END is the whole range (`UndisturbedWhole`), and the deletion follows no other step
(`AzureDeletes`).

*Re-attestation.* `ScriptInv` ties the place in the script to what is on disk: an archive is there from the end of the first wait on (`FirstArchived`), those of two boots from
the end of the second (`BothArchived`), and nothing happens after the deletion (`DeletedLast`). The step that matters is the count of
line 12: in a directory that holds archives of own boots only (`OwnArchives`), two archives are of two boots (`EnoughMeans`), whichever
they are and in whatever order they came. If the machine has not booted more often than expected, they are all of its boots,
which is `TakenDownAfterArchive`.

*Relying Party.* `PublishedInv` says of every result which of four origins it has, so that `UuidNamesOneClaim` becomes a
comparison of the origins, two by two; a signed result and the example's share a name only as results over the same
synthetic window (`ClaimUuid`), and then a cell on which the maps agree gives both the same country. `StrictVerdictExact` compares a walk with a recursive function, `Upstream`. `OnChain` says that after
`depth` references the walk is at `Upstream[depth]` and had to go on from every result before; `ChainEnds` that the chain
has nothing beyond a result that is grounded or refers to none. `OneClaim` carries country and window back to
the result that was asked about, until the walk enters results made elsewhere.

*Session binding.* `BindingInv` follows a nonce from the client's line to the guest and the answer back: a line
carries the nonce of the client it comes from (`LinesTold`), an answer is over its own connection's line and exporter, and
the relay has no answer but the guest's (`BlobsMade`); the relay takes one client (`OneRelayed`) and no connection
is served twice (`ServedOnce`), on which the record in the session list rests (`Recorded`).

*Ledger and report verifier.* `LedgerInv` and `DualInv` say of each cache that it holds the certificate asked for or a
failure that an earlier row owns up to, and of each row which certificate it is about; `NoneSkipped` that the report
verifier has left none out when it is done. `NoContradiction` then needs no step of its own: it follows from the two
invariants and the two theorems about the ledger.

*The other verifiers.* One step writes the row, so the invariant (`AppraisalInv`) is small, and the work is in one lemma per
program (`SnpGenuine`, `TdxGenuine`, `GoogleGenuine`, `BindGenuine`, `AzureGenuine`, `IdbindGenuine`,
`NitroGenuine`, `NitroTpmGenuine`, `CredentialGenuine`). They rest on what a try block leaves behind: a flag that reads True
passed its check and every check before it came to an end (`FlagMeans`, `LastPassed`); and, for
Intel's and Nitro's chains, on an argument from the root down to the leaf (`PckChain`, `NitroChain`). For early
attestation, `BinderPlaced` says at which position of REPORT_DATA each byte of the transcript lands, and `OneTranscript`
that two binders that are equal have the same transcript.

*Induction.* No library theorem with an operator parameter can be used. Where a proof goes by induction it takes the
least element of a set of counterexamples (`LeastExists`, from the well-foundedness of finite sets under strict inclusion),
or the last (`LastExists`): the first candidate of a line, the existence of the function that defines the chain of references (`ChainExists`) and its end, the
last certificate of a chain that is not its root's.

### Only model-checked

What is under fairness: `EventuallyCollected`, `StopsAfterDeadline`, `Ends`, `WalkEnds`, `TalkersServed`; the prover
does not handle ENABLED, on which WF and SF rest. The three violation runs are counterexamples, which TLC finds.

## Not modelled

* Key selection on own hardware (`baremetal/`, `aws-vlek/probe-keysel.sh`): one operator starts one guest
  after another by `RUNBOOK.md`; the only state is the host's mask setting, which the scripts set and
  reset and never read back for a decision. A run that dies before the reset leaves the mask on, and
  nothing in the code would notice.
* The measuring probes and launchers: straight-line scripts of firmware and provider calls. Their
  transport is `SerialConsole`, what they measure is the input of the verifiers, `launched.txt` is
  `Launched`. The enclave's socket loop in `probe-nitro.sh` has one parent and one enclave of the same script.
* `dual_verify.py:95-108` (chained pair, channel binding, firmware results) and the IMDS document of
  `azure_verify.py:107-119`: equalities that are printed, and nothing else looks at them.
* Place names and PCRs: printed, not compared.
* `cbor_diag.py`, the CDDL files and the CDDL validation of the vectors: formats.
* The key-value tables and Markdown that the programs print.

## Plan

Every module of the first plan exists, except `KeySelection` (see above), and every invariant that a run checks
has a theorem. What is left, in this order:

1. Termination without ENABLED: a measure that every step of `rp` (`MaxDepth` and `depth`) and every step of the
   orchestrator (`tries`, the two waits) makes smaller, as an action property, which is the part of `WalkEnds` and `Ends` that the code
   itself has to get right.
2. `Reattest` as an implementation of `ArchiveCollection`, with both archives in place of one.

Out of the prover's reach and left to TLC: liveness, ENABLED, and what a recursive definition computes for
every input where no set of counterexamples with a least element expresses it.

## Running

    tlc -workers 2 -config gcp_safety.cfg MCGcpCollect
    tlc -workers 2 -config verification.cfg MCVerification
    for m in Console Loop GcpCollect AwsCollect Reattest RelyingParty SessionBinding Verification; do
      tlapm ${m}Proofs.tla
    done

The module of each run is named in `PROJECT.json`. Definitions called `Mut…` are seeded faults: the
same definition with one plausible error. No specification uses them; with one of them in place of
the definition it is named after, the property listed for it in `PROJECT.json` fails.
