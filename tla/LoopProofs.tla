----------------------------- MODULE LoopProofs -----------------------------
(***************************************************************************)
(* What is proved of the loop the collectors share, for any set of         *)
(* machines, any number of lines, copies, boots, spoiled tokens and runs,  *)
(* any set of failing calls, from what ConsoleProofs says of consoles and  *)
(* decoder.  The proof modules of the Google and AWS collectors add what   *)
(* their bodies do with one machine; azure-cvm/collect.sh, which trusts    *)
(* what it unpacks, is at the end of this one.                             *)
(***************************************************************************)
EXTENDS PollLoop, ConsoleProofs

-----------------------------------------------------------------------------
(* The inductive invariant. *)

\* Consoles and captures carry what the machine's own probes announced.
Provenance ==
  \A v \in VMs : /\ GenuineText(console[v], boot[v], v \in Legacy)
                 /\ GenuineText(file[v], boot[v], v \in Legacy)

\* Between the decoder's exit 0 and the deletion the archive is on disk ...
VerifiedHasArchive == pc = "verified" => got[Head(todo)] # {}

\* ... and it stays there.
DeletedHasArchive == \A v \in VMs : vm[v] = "deleted" => got[v] # {}

\* The inductive invariant.
LoopInv ==
  /\ LoopTypeOK
  /\ Provenance
  /\ ArchivesAuthentic
  /\ VerifiedHasArchive
  /\ DeletedHasArchive

(* The invariant at the start. *)
LEMMA LoopInvInit == ConsoleInit /\ LoopInit => LoopInv
<1> SUFFICES ASSUME ConsoleInit, LoopInit PROVE LoopInv
  OBVIOUS
<1> USE DEF ConsoleInit, LoopInit
<1>1. ConsoleTypeOK
  BY ConsoleInitType
<1>2. LoopTypeOK
  <2>1. file \in [VMs -> Seq(Token)] /\ got \in [VMs -> SUBSET [Lines -> Int]]
    OBVIOUS
  <2>2. pc \in Labels /\ (pc \notin {"visit", "finished"} => todo # <<>>)
    BY DEF Labels
  <2>3. done \subseteq VMs /\ givenUp \subseteq done /\ expired \in BOOLEAN
    OBVIOUS
  <2>4. todo \in Seq(VMs) /\ pending \in Nat /\ runs \in 1 .. MaxRuns
    BY LoopAssumption
  <2>5. QED BY <1>1, <2>1, <2>2, <2>3, <2>4 DEF LoopTypeOK
<1>3. Provenance
  BY DEF Provenance, GenuineText
<1>4. ArchivesAuthentic /\ VerifiedHasArchive /\ DeletedHasArchive
  BY DEF ArchivesAuthentic, VerifiedHasArchive, DeletedHasArchive
<1>5. QED BY <1>2, <1>3, <1>4 DEF LoopInv

(* A probe prints a token. *)
LEMMA EmitInv ==
  ASSUME LoopInv, NEW v \in VMs, NEW t \in Token, GenuineText(<<t>>, boot[v], v \in Legacy),
         Emit(v, t), spoiled' \in 0 .. MaxSpoiled, UNCHANGED <<loopVars, diskVars>>
  PROVE  LoopInv'
<1> USE DEF LoopInv, Emit, loopVars, diskVars
<1>1. /\ ConsoleTypeOK'
      /\ console'[v] = Append(console[v], t)
      /\ \A w \in VMs : w # v => console'[w] = console[w]
  BY EmitType DEF LoopTypeOK
<1>2. LoopTypeOK'
  BY <1>1 DEF LoopTypeOK
<1>3. Provenance'
  <2>1. console[v] \in Seq(Token) /\ GenuineText(console[v], boot[v], v \in Legacy)
    BY DEF LoopTypeOK, ConsoleTypeOK, Provenance
  <2>2. GenuineText(Append(console[v], t), boot[v], v \in Legacy)
    BY <2>1, AppendGenuine
  <2>3. QED BY <1>1, <2>2 DEF Provenance
<1>4. (ArchivesAuthentic /\ VerifiedHasArchive /\ DeletedHasArchive)'
  BY DEF ArchivesAuthentic, VerifiedHasArchive, DeletedHasArchive
<1>5. QED BY <1>2, <1>3, <1>4

(* Any step of the machines and their probes. *)
LEMMA ConsoleStepInv ==
  ASSUME LoopInv, ConsoleNext, UNCHANGED <<loopVars, diskVars>>
  PROVE  LoopInv'
<1>1. PICK v \in VMs : PrintIntact(v) \/ PrintSpoiled(v) \/ Stop(v) \/ Restart(v)
  BY DEF ConsoleNext
<1>2. ConsoleTypeOK
  BY DEF LoopInv, LoopTypeOK
<1>3. CASE PrintIntact(v) \/ PrintSpoiled(v)
  BY <1>2, <1>3, PrintStep, EmitInv
<1>4. CASE Stop(v)
  <2> USE <1>4 DEF Stop, LoopInv, loopVars, diskVars
  <2>1. LoopTypeOK'
    BY StopType DEF LoopTypeOK
  <2>2. (Provenance /\ ArchivesAuthentic /\ VerifiedHasArchive)'
    BY DEF Provenance, ArchivesAuthentic, VerifiedHasArchive
  <2>3. DeletedHasArchive'
    BY DEF DeletedHasArchive, LoopTypeOK, ConsoleTypeOK
  <2>4. QED BY <2>1, <2>2, <2>3
<1>5. CASE Restart(v)
  <2> USE <1>5 DEF Restart, LoopInv, loopVars, diskVars
  <2>1. /\ ConsoleTypeOK'
        /\ boot'[v] = boot[v] + 1
        /\ \A w \in VMs : w # v => boot'[w] = boot[w]
    BY <1>2, RestartType
  <2>2. boot[v] \in Nat
    BY <1>2 DEF ConsoleTypeOK, Boots
  <2>3. LoopTypeOK'
    BY <2>1 DEF LoopTypeOK
  <2>4. Provenance'
    BY <2>1, <2>2, MoreBootsGenuine DEF Provenance
  <2>5. ArchivesAuthentic'
    BY <1>2, <2>1 DEF ArchivesAuthentic, ConsoleTypeOK, Boots
  <2>6. VerifiedHasArchive' /\ DeletedHasArchive'
    BY <1>2 DEF VerifiedHasArchive, DeletedHasArchive, ConsoleTypeOK
  <2>7. QED BY <2>3, <2>4, <2>5, <2>6
<1>6. QED BY <1>1, <1>3, <1>4, <1>5

(* The loop moves on without touching machines or disk: to the next line,  *)
(* to another label short of "verified", to another pass, to another run.  *)
LEMMA LoopMoveInv ==
  ASSUME LoopInv, UNCHANGED <<consoleVars, diskVars>>,
         pc' \in Labels \ {"verified"}, todo' \in Seq(VMs), pending' \in Nat,
         done' \subseteq VMs, givenUp' \subseteq done', expired' \in BOOLEAN,
         runs' \in 1 .. MaxRuns,
         pc' \notin {"visit", "finished"} => todo' # <<>>
  PROVE  LoopInv'
<1> USE DEF LoopInv, consoleVars, diskVars
<1>1. ConsoleTypeOK'
  BY DEF LoopTypeOK, ConsoleTypeOK
<1>2. LoopTypeOK'
  BY <1>1 DEF LoopTypeOK
<1>3. (Provenance /\ ArchivesAuthentic /\ VerifiedHasArchive /\ DeletedHasArchive)'
  BY DEF Provenance, ArchivesAuthentic, VerifiedHasArchive, DeletedHasArchive
<1>4. QED BY <1>2, <1>3

\* Where the exits of the loop's body lead.
LEMMA ExitsTyped ==
  ASSUME LoopTypeOK, NEW v \in VMs, NEW label, At(label, v)
  PROVE  /\ SetDone(v) \/ GiveUp(v) \/ SetPending(v) \/ SkipDone(v) =>
              /\ pc' = "visit" /\ todo' \in Seq(VMs) /\ pending' \in Nat
              /\ done' \subseteq VMs /\ givenUp' \subseteq done'
              /\ expired' \in BOOLEAN /\ runs' \in 1 .. MaxRuns
         /\ \A to \in Labels : Goto(to) =>
              /\ pc' = to /\ todo' = todo /\ todo' \in Seq(VMs) /\ todo' # <<>>
              /\ pending' \in Nat /\ done' \subseteq VMs /\ givenUp' \subseteq done'
              /\ expired' \in BOOLEAN /\ runs' \in 1 .. MaxRuns
<1> USE DEF LoopTypeOK, At
<1>1. todo # <<>> /\ todo \in Seq(VMs) /\ Tail(todo) \in Seq(VMs)
  OBVIOUS
<1>2. expired \in BOOLEAN /\ pending \in Nat /\ pending + 1 \in Nat /\ runs \in 1 .. MaxRuns
  OBVIOUS
<1>3. done \subseteq VMs /\ givenUp \subseteq done
  OBVIOUS
<1>4. SetDone(v) \/ GiveUp(v) \/ SetPending(v) \/ SkipDone(v) =>
        /\ pc' = "visit" /\ todo' \in Seq(VMs) /\ pending' \in Nat
        /\ done' \subseteq VMs /\ givenUp' \subseteq done'
        /\ expired' = expired /\ runs' \in 1 .. MaxRuns
  BY <1>1, <1>2, <1>3 DEF SetDone, GiveUp, SetPending, SkipDone, NextLine
<1>5. ASSUME NEW to \in Labels, Goto(to)
      PROVE  /\ pc' = to /\ todo' = todo /\ todo' \in Seq(VMs) /\ todo' # <<>>
             /\ pending' \in Nat /\ done' \subseteq VMs /\ givenUp' \subseteq done'
             /\ expired' = expired /\ runs' \in 1 .. MaxRuns
  BY <1>1, <1>2, <1>3, <1>5 DEF Goto
<1>6. QED BY <1>2, <1>4, <1>5

\* The same from the invariant.
LEMMA ExitTypes ==
  ASSUME LoopInv, NEW v \in VMs, NEW label, At(label, v)
  PROVE  /\ SetDone(v) \/ GiveUp(v) \/ SetPending(v) \/ SkipDone(v) =>
              /\ pc' = "visit" /\ todo' \in Seq(VMs) /\ pending' \in Nat
              /\ done' \subseteq VMs /\ givenUp' \subseteq done'
              /\ expired' \in BOOLEAN /\ runs' \in 1 .. MaxRuns
         /\ \A to \in Labels : Goto(to) =>
              /\ pc' = to /\ todo' = todo /\ todo' \in Seq(VMs) /\ todo' # <<>>
              /\ pending' \in Nat /\ done' \subseteq VMs /\ givenUp' \subseteq done'
              /\ expired' \in BOOLEAN /\ runs' \in 1 .. MaxRuns
BY ExitsTyped DEF LoopInv

(* The loop's own bookkeeping: the steps that are the same in every collector. *)
LEMMA BookkeepingInv ==
  ASSUME LoopInv, (\E v \in VMs : SkipDone(v)) \/ EndPass \/ DeadlinePasses \/ RunAgain
  PROVE  LoopInv'
<1> USE DEF LoopInv, LoopTypeOK, Labels
<1>1. CASE \E v \in VMs : SkipDone(v)
  <2>1. PICK v \in VMs : SkipDone(v)
    BY <1>1
  <2>2. At("visit", v) /\ UNCHANGED <<consoleVars, diskVars>>
    BY <2>1 DEF SkipDone
  <2>3. QED BY <2>1, <2>2, ExitTypes, LoopMoveInv
<1>2. CASE EndPass
  <2>1. pc' \in {"visit", "finished"} /\ todo' \in Seq(VMs) /\ pending' \in Nat
    <3>1. \/ pc' = "finished" /\ todo' = todo /\ pending' = pending
          \/ pc' = "visit" /\ todo' = Launched /\ pending' = 0
      BY <1>2, Zenon DEF EndPass
    <3>2. todo \in Seq(VMs) /\ pending \in Nat
      OBVIOUS
    <3>3. QED BY <3>1, <3>2, LoopAssumption
  <2>2. /\ done' \subseteq VMs /\ givenUp' \subseteq done' /\ expired' \in BOOLEAN
        /\ runs' \in 1 .. MaxRuns /\ UNCHANGED <<consoleVars, diskVars>>
    BY <1>2 DEF EndPass
  <2>3. QED BY <2>1, <2>2, LoopMoveInv
<1>3. CASE DeadlinePasses
  <2> USE <1>3 DEF DeadlinePasses
  <2>1. LoopTypeOK'
    BY DEF ConsoleTypeOK, consoleVars, diskVars
  <2>2. Provenance' /\ ArchivesAuthentic' /\ VerifiedHasArchive' /\ DeletedHasArchive'
    BY DEF Provenance, ArchivesAuthentic, VerifiedHasArchive, DeletedHasArchive,
           consoleVars, diskVars
  <2>3. QED BY <2>1, <2>2
<1>4. CASE RunAgain
  <2>1. runs' \in 1 .. MaxRuns
    <3>1. runs \in 1 .. MaxRuns /\ runs < MaxRuns /\ runs' = runs + 1
      BY <1>4 DEF RunAgain
    <3>2. QED BY <3>1, LoopAssumption
  <2>2. /\ pc' = "visit" /\ todo' \in Seq(VMs) /\ pending' \in Nat /\ expired' \in BOOLEAN
        /\ done' \subseteq VMs /\ givenUp' \subseteq done'
        /\ UNCHANGED <<consoleVars, diskVars>>
    BY <1>4, LoopAssumption DEF RunAgain
  <2>3. QED BY <2>1, <2>2, LoopMoveInv
<1>5. QED BY <1>1, <1>2, <1>3, <1>4

(* A capture is replaced: by what the provider holds, or by nothing. *)
LEMMA FetchInv ==
  ASSUME LoopInv, NEW v \in VMs, NEW here, NEW label \in Labels \ {"verified"},
         At(here, v), FetchOk(v, label) \/ FetchFails(v, label)
  PROVE  LoopInv'
<1>1. file' = [file EXCEPT ![v] = console[v]] \/ file' = [file EXCEPT ![v] = <<>>]
  BY DEF FetchOk, FetchFails
<1>2. Goto(label) /\ UNCHANGED <<consoleVars, got>>
  BY DEF FetchOk, FetchFails
<1>3. /\ pc' = label /\ todo' \in Seq(VMs) /\ todo' # <<>>
      /\ pending' \in Nat /\ done' \subseteq VMs /\ givenUp' \subseteq done'
      /\ expired' \in BOOLEAN /\ runs' \in 1 .. MaxRuns
  BY <1>2, ExitTypes
<1>4. LoopTypeOK'
  <2>1. ConsoleTypeOK'
    BY <1>2 DEF LoopInv, LoopTypeOK, ConsoleTypeOK, consoleVars
  <2>2. file' \in [VMs -> Seq(Token)]
    <3>1. file \in [VMs -> Seq(Token)] /\ console[v] \in Seq(Token)
      BY DEF LoopInv, LoopTypeOK, ConsoleTypeOK
    <3>2. <<>> \in Seq(Token)
      OBVIOUS
    <3>3. QED BY <1>1, <3>1, <3>2
  <2>3. QED BY <1>2, <1>3, <2>1, <2>2 DEF LoopInv, LoopTypeOK
<1>5. Provenance'
  <2>1. GenuineText(<<>>, boot[v], v \in Legacy)
    BY DEF GenuineText
  <2>2. GenuineText(file'[v], boot[v], v \in Legacy)
    BY <1>1, <2>1 DEF LoopInv, LoopTypeOK, Provenance
  <2>3. \A w \in VMs : w # v => file'[w] = file[w]
    BY <1>1 DEF LoopInv, LoopTypeOK
  <2>4. QED BY <1>2, <2>2, <2>3 DEF LoopInv, Provenance, consoleVars
<1>6. ArchivesAuthentic' /\ VerifiedHasArchive' /\ DeletedHasArchive'
  BY <1>2, <1>3 DEF LoopInv, ArchivesAuthentic, VerifiedHasArchive, DeletedHasArchive,
                    consoleVars
<1>7. QED BY <1>4, <1>5, <1>6 DEF LoopInv

(* The decoder runs over a capture; what it extracts stays. *)
LEMMA ExtractInv ==
  ASSUME LoopInv, NEW v \in VMs, At("fetched", v), Extract(v),
         (ExitZero(file[v]) /\ Goto("verified")) \/ SetPending(v)
  PROVE  LoopInv' /\ \A w \in VMs : got[w] \subseteq got'[w]
<1>1. /\ got' = [got EXCEPT ![v] = @ \cup Extracted(file[v])]
      /\ UNCHANGED <<consoleVars, file>>
  BY DEF Extract
<1>2. /\ file[v] \in Seq(Token) /\ got \in [VMs -> SUBSET [Lines -> Int]]
      /\ GenuineText(file[v], boot[v], v \in Legacy) /\ boot[v] \in Nat
  BY DEF LoopInv, LoopTypeOK, ConsoleTypeOK, Provenance, Boots
<1>3. /\ got'[v] = got[v] \cup Extracted(file[v])
      /\ \A w \in VMs : w # v => got'[w] = got[w]
  BY <1>1, <1>2
<1>4. LoopTypeOK'
  <2>1. ConsoleTypeOK'
    BY <1>1 DEF LoopInv, LoopTypeOK, ConsoleTypeOK, consoleVars
  <2>2. got' \in [VMs -> SUBSET [Lines -> Int]]
    <3>1. Extracted(file[v]) \in SUBSET [Lines -> Int]
      BY <1>2, ExtractedType
    <3>2. QED BY <1>1, <1>2, <3>1
  <2>3. /\ pc' \in Labels /\ todo' \in Seq(VMs) /\ pending' \in Nat
        /\ done' \subseteq VMs /\ givenUp' \subseteq done'
        /\ expired' \in BOOLEAN /\ runs' \in 1 .. MaxRuns
        /\ (pc' \notin {"visit", "finished"} => todo' # <<>>)
    BY ExitTypes DEF Labels
  <2>4. QED BY <1>1, <2>1, <2>2, <2>3 DEF LoopInv, LoopTypeOK
<1>5. Provenance'
  BY <1>1 DEF LoopInv, Provenance, consoleVars
<1>6. ArchivesAuthentic'
  <2>1. ASSUME v \notin Legacy
        PROVE  Extracted(file[v]) \subseteq {Payload(b) : b \in 1 .. boot[v]}
    <3>1. GenuineText(file[v], boot[v], FALSE)
      BY <1>2, <2>1 DEF GenuineText
    <3>2. QED BY <1>2, <3>1, ExtractedGenuine
  <2>2. QED BY <1>1, <1>3, <2>1 DEF LoopInv, ArchivesAuthentic, consoleVars
<1>7. VerifiedHasArchive'
  <2>1. CASE ExitZero(file[v]) /\ Goto("verified")
    <3>1. todo' = todo /\ Head(todo) = v
      BY <2>1 DEF Goto, At
    <3>2. Extracted(file[v]) # {}
      BY <2>1, ExitZeroExtracts
    <3>3. QED BY <3>1, <3>2, <1>3 DEF VerifiedHasArchive
  <2>2. CASE SetPending(v)
    BY <2>2 DEF SetPending, NextLine, VerifiedHasArchive
  <2>3. QED BY <2>1, <2>2
<1>8. DeletedHasArchive'
  BY <1>1, <1>3 DEF LoopInv, DeletedHasArchive, consoleVars
<1>9. \A w \in VMs : got[w] \subseteq got'[w]
  BY <1>3
<1>10. QED BY <1>4, <1>5, <1>6, <1>7, <1>8, <1>9 DEF LoopInv

(* A machine is deleted right after a verified extraction. *)
LEMMA DeleteInv ==
  ASSUME LoopInv, NEW v \in VMs, At("verified", v), Delete(v), SetDone(v)
  PROVE  LoopInv'
<1>1. got[v] # {}
  BY DEF LoopInv, VerifiedHasArchive, At
<1>2. /\ vm' = [vm EXCEPT ![v] = "deleted"] \/ vm' = vm
      /\ UNCHANGED <<boot, pos, spoiled, console, diskVars>>
  BY DEF Delete
<1>3. /\ vm' \in [VMs -> VmStatus]
      /\ \A w \in VMs : w # v => vm'[w] = vm[w]
  BY <1>2 DEF LoopInv, LoopTypeOK, ConsoleTypeOK, VmStatus
<1>4. LoopTypeOK'
  <2>1. ConsoleTypeOK'
    BY <1>2, <1>3 DEF LoopInv, LoopTypeOK, ConsoleTypeOK
  <2>2. /\ pc' = "visit" /\ todo' \in Seq(VMs) /\ pending' \in Nat
        /\ done' \subseteq VMs /\ givenUp' \subseteq done'
        /\ expired' \in BOOLEAN /\ runs' \in 1 .. MaxRuns
    BY ExitTypes
  <2>3. QED BY <1>2, <2>1, <2>2 DEF LoopInv, LoopTypeOK, diskVars, Labels
<1>5. Provenance' /\ ArchivesAuthentic'
  BY <1>2 DEF LoopInv, Provenance, ArchivesAuthentic, diskVars
<1>6. VerifiedHasArchive'
  BY DEF SetDone, NextLine, VerifiedHasArchive
<1>7. DeletedHasArchive'
  BY <1>1, <1>2, <1>3 DEF LoopInv, DeletedHasArchive, diskVars
<1>8. QED BY <1>4, <1>5, <1>6, <1>7 DEF LoopInv

-----------------------------------------------------------------------------
(* A run that ends before its deadline has settled every machine. *)

\* A machine on the done list has an archive or was given up; while nothing is pending, who
\* is not done is still ahead in this pass; the loop ends at the end of a pass.
SettledInv ==
  /\ \A v \in done : got[v] # {} \/ v \in givenUp
  /\ pending > 0 \/ \A i \in DOMAIN Launched :
                      Launched[i] \in done \/ \E j \in DOMAIN todo : todo[j] = Launched[i]
  /\ pc = "finished" => todo = <<>> /\ (pending = 0 \/ expired)

LEMMA SettledInit == LoopInit => SettledInv
BY DEF LoopInit, SettledInv

LEMMA SettledFinish == LoopInv /\ SettledInv => FinishedSettled
<1> SUFFICES ASSUME LoopInv, SettledInv, pc = "finished", ~expired, NEW i \in DOMAIN Launched
             PROVE  got[Launched[i]] # {} \/ Launched[i] \in givenUp
  BY DEF FinishedSettled
<1>1. todo = <<>> /\ pending = 0
  BY DEF SettledInv
<1>2. Launched[i] \in done
  BY <1>1 DEF SettledInv
<1>3. QED BY <1>2 DEF SettledInv

\* The archives on disk are never fewer.
Growing == \A v \in VMs : got[v] # {} => got'[v] # {}

\* A step that leaves the line and the lists alone.
LEMMA SettledStay ==
  ASSUME LoopInv, SettledInv, Growing, UNCHANGED <<todo, done, givenUp, pending>>,
         pc' = pc \/ pc' # "finished", expired => expired'
  PROVE  SettledInv'
<1>1. done \subseteq VMs
  BY DEF LoopInv, LoopTypeOK
<1>2. QED BY <1>1 DEF SettledInv, Growing

\* The body is left for the next line: the machine is done, given up or counted.
LEMMA SettledNextLine ==
  ASSUME LoopInv, SettledInv, Growing, NEW v \in VMs, NEW label, At(label, v),
         \/ SetDone(v) /\ got[v] # {}
         \/ GiveUp(v) \/ SetPending(v) \/ SkipDone(v)
  PROVE  SettledInv'
<1>1. done \subseteq VMs /\ pending \in Nat /\ todo \in Seq(VMs) /\ todo # <<>> /\ v = Head(todo)
  BY DEF LoopInv, LoopTypeOK, At
<1>2. pc' = "visit" /\ todo' = Tail(todo)
  BY DEF SetDone, GiveUp, SetPending, SkipDone, NextLine
<1>3. \A w \in done' : got'[w] # {} \/ w \in givenUp'
  BY <1>1 DEF SetDone, GiveUp, SetPending, SkipDone, SettledInv, Growing
<1>4. \/ pending' > 0
      \/ v \in done' /\ done \subseteq done' /\ pending' = pending
  BY <1>1 DEF SetDone, GiveUp, SetPending, SkipDone, At
<1>5. ASSUME NEW w, NEW j \in DOMAIN todo, todo[j] = w, w # v
      PROVE  \E k \in DOMAIN Tail(todo) : Tail(todo)[k] = w
  <2>1. j \in 1 .. Len(todo) /\ j # 1
    BY <1>1, <1>5
  <2>2. j - 1 \in DOMAIN Tail(todo) /\ Tail(todo)[j - 1] = todo[j]
    BY <1>1, <2>1
  <2>3. QED BY <1>5, <2>2
<1>6. pending' > 0 \/ \A i \in DOMAIN Launched :
                        Launched[i] \in done' \/ \E j \in DOMAIN todo' : todo'[j] = Launched[i]
  BY <1>2, <1>4, <1>5 DEF SettledInv
<1>7. QED BY <1>2, <1>3, <1>6 DEF SettledInv

\* The end of a pass, the deadline, a new run.
LEMMA SettledBookkeeping ==
  ASSUME LoopInv, SettledInv, EndPass \/ DeadlinePasses \/ RunAgain
  PROVE  SettledInv'
<1>1. CASE EndPass
  <2>1. UNCHANGED <<done, givenUp, expired, got>> /\ todo = <<>>
    BY <1>1 DEF EndPass, diskVars
  <2>2. CASE pending = 0 \/ expired
    <3>1. UNCHANGED <<todo, pending>>
      BY <1>1, <2>2 DEF EndPass
    <3>2. QED BY <2>1, <2>2, <3>1 DEF SettledInv
  <2>3. CASE ~(pending = 0 \/ expired)
    <3>1. pc' = "visit" /\ todo' = Launched /\ pending' = 0
      BY <1>1, <2>3 DEF EndPass
    <3>2. QED BY <2>1, <3>1 DEF SettledInv
  <2>4. QED BY <2>2, <2>3
<1>2. CASE DeadlinePasses
  BY <1>2 DEF DeadlinePasses, SettledInv, diskVars
<1>3. CASE RunAgain
  BY <1>3 DEF RunAgain, SettledInv
<1>4. QED BY <1>1, <1>2, <1>3

-----------------------------------------------------------------------------
(* The boots that a capture announces. *)

\* The archive of every full header in the capture is on disk.
AllKept(v) ==
  \A p \in DOMAIN file[v] :
    file[v][p].kind = "begin" /\ file[v][p].form = "full" => Payload(file[v][p].sha) \in got[v]

\* Before the deletion and after it; what the decoder promised rests on the stamps.
KeptInv ==
  /\ Stamps
  /\ \A v \in VMs : Stamped(file[v], v \in Legacy)
  /\ pc = "verified" => AllKept(Head(todo))
  /\ \A v \in VMs : vm[v] = "deleted" => AllKept(v)

LEMMA KeptInit == ConsoleInit /\ LoopInit => KeptInv
BY DEF ConsoleInit, LoopInit, KeptInv, Stamps, Stamped

LEMMA KeptMeansNotLost == KeptInv => NoAnnouncedBootLost
BY DEF KeptInv, AllKept, NoAnnouncedBootLost

\* The machines go on while the script waits.
LEMMA ConsoleStepKept ==
  ASSUME LoopInv, KeptInv, ConsoleNext, UNCHANGED <<loopVars, diskVars>>
  PROVE  KeptInv'
<1>1. ConsoleTypeOK /\ vm \in [VMs -> VmStatus]
  BY DEF LoopInv, LoopTypeOK, ConsoleTypeOK
<1>2. Stamps'
  BY <1>1, StampsStep DEF KeptInv
<1>3. PICK v \in VMs : PrintIntact(v) \/ PrintSpoiled(v) \/ Stop(v) \/ Restart(v)
  BY DEF ConsoleNext
<1>4. \/ vm' = vm
      \/ vm' = [vm EXCEPT ![v] = "stopped"]
      \/ vm' = [vm EXCEPT ![v] = "running"]
  BY <1>3 DEF PrintIntact, PrintSpoiled, Emit, Stop, Restart
<1>5. \A w \in VMs : vm'[w] = "deleted" => vm[w] = "deleted"
  BY <1>1, <1>4
<1>6. UNCHANGED <<pc, todo, file, got>>
  BY DEF loopVars, diskVars
<1>7. QED BY <1>2, <1>5, <1>6 DEF KeptInv, AllKept

\* The script goes on without touching machines or disk.
LEMMA MoveKept ==
  ASSUME KeptInv, UNCHANGED <<consoleVars, diskVars>>,
         pc' # "verified" \/ UNCHANGED <<pc, todo>>
  PROVE  KeptInv'
BY DEF KeptInv, AllKept, Stamps, consoleVars, diskVars

\* The console of a machine that is still there is read, or a call fails.
LEMMA FetchKept ==
  ASSUME LoopInv, KeptInv, NEW v \in VMs, NEW label \in Labels \ {"verified"},
         (vm[v] # "deleted" /\ FetchOk(v, label)) \/ FetchFails(v, label)
  PROVE  KeptInv'
<1>1. /\ UNCHANGED <<consoleVars, got>> /\ pc' = label
      /\ \/ vm[v] # "deleted" /\ file' = [file EXCEPT ![v] = console[v]]
         \/ file' = [file EXCEPT ![v] = <<>>]
  BY DEF FetchOk, FetchFails, Goto
<1>2. file \in [VMs -> Seq(Token)]
  BY DEF LoopInv, LoopTypeOK
<1>3. \A w \in VMs : w # v => file'[w] = file[w]
  BY <1>1, <1>2
<1>4. (vm[v] # "deleted" /\ file'[v] = console[v]) \/ file'[v] = <<>>
  BY <1>1, <1>2
<1>5. Stamped(file'[v], v \in Legacy)
  BY <1>4 DEF KeptInv, Stamps, Stamped
<1>6. vm[v] = "deleted" => AllKept(v)'
  BY <1>4 DEF AllKept
<1>7. QED BY <1>1, <1>3, <1>5, <1>6 DEF KeptInv, AllKept, Stamps, consoleVars

\* The decoder exits 0 only with all of them.
LEMMA ExtractKept ==
  ASSUME LoopInv, KeptInv, NEW v \in VMs, At("fetched", v), Extract(v),
         (ExitZero(file[v]) /\ Goto("verified")) \/ SetPending(v)
  PROVE  KeptInv'
<1>1. /\ UNCHANGED <<consoleVars, file>>
      /\ got' = [got EXCEPT ![v] = @ \cup Extracted(file[v])]
      /\ got \in [VMs -> SUBSET [Lines -> Int]]
  BY DEF Extract, LoopInv, LoopTypeOK
<1>2. /\ got'[v] = got[v] \cup Extracted(file[v])
      /\ \A w \in VMs : w # v => got'[w] = got[w]
  BY <1>1
<1>3. \A w \in VMs : AllKept(w) => AllKept(w)'
  BY <1>1, <1>2 DEF AllKept
<1>4. CASE ExitZero(file[v]) /\ Goto("verified")
  <2>1. /\ file[v] \in Seq(Token) /\ boot[v] \in Nat
        /\ GenuineText(file[v], boot[v], v \in Legacy) /\ Stamped(file[v], v \in Legacy)
    BY DEF LoopInv, LoopTypeOK, ConsoleTypeOK, Provenance, Boots, KeptInv
  <2>2. AllKept(v)'
    BY <1>1, <1>2, <1>4, <2>1, ExitZeroTakesAll DEF AllKept
  <2>3. todo' = todo /\ Head(todo) = v
    BY <1>4 DEF Goto, At
  <2>4. QED BY <1>1, <1>3, <2>2, <2>3 DEF KeptInv, AllKept, Stamps, consoleVars
<1>5. CASE SetPending(v)
  BY <1>1, <1>3, <1>5 DEF SetPending, NextLine, KeptInv, Stamps, consoleVars
<1>6. QED BY <1>4, <1>5

LEMMA DeleteKept ==
  ASSUME LoopInv, KeptInv, NEW v \in VMs, At("verified", v), Delete(v), SetDone(v)
  PROVE  KeptInv'
<1>1. /\ UNCHANGED <<console, file, got>> /\ vm \in [VMs -> VmStatus]
      /\ vm' = vm \/ vm' = [vm EXCEPT ![v] = "deleted"]
  BY DEF Delete, diskVars, LoopInv, LoopTypeOK, ConsoleTypeOK
<1>2. AllKept(v)
  BY DEF KeptInv, At
<1>3. \A w \in VMs : vm'[w] = "deleted" => w = v \/ vm[w] = "deleted"
  BY <1>1
<1>4. pc' = "visit"
  BY DEF SetDone, NextLine
<1>5. QED BY <1>1, <1>2, <1>3, <1>4 DEF KeptInv, AllKept, Stamps

-----------------------------------------------------------------------------
(* The steps of the loop as steps of the abstract ArchiveCollection. *)

\* The variables of ArchiveCollection, in terms of the loop.
Archived == {v \in VMs : got[v] # {}}
Released == {v \in VMs : vm[v] = "deleted"}

\* A step of ArchiveCollection, or none.
PromiseStep == [Promise!Next]_<<Archived, Released>>

\* What neither extracts nor deletes is a stutter.
LEMMA PromiseStutter ==
  ASSUME \A v \in VMs : got'[v] = got[v] /\ (vm'[v] = "deleted" <=> vm[v] = "deleted")
  PROVE  PromiseStep
BY DEF PromiseStep, Archived, Released

LEMMA ConsolePromise ==
  ASSUME LoopInv, ConsoleNext, UNCHANGED diskVars
  PROVE  PromiseStep
<1>1. PICK v \in VMs : PrintIntact(v) \/ PrintSpoiled(v) \/ Stop(v) \/ Restart(v)
  BY DEF ConsoleNext
<1>2. vm \in [VMs -> VmStatus]
  BY DEF LoopInv, LoopTypeOK, ConsoleTypeOK
<1>3. \/ vm' = vm
      \/ vm[v] = "running" /\ vm' = [vm EXCEPT ![v] = "stopped"]
      \/ vm[v] = "stopped" /\ vm' = [vm EXCEPT ![v] = "running"]
  BY <1>1 DEF PrintIntact, PrintSpoiled, Emit, Stop, Restart
<1>4. \A w \in VMs : vm'[w] = "deleted" <=> vm[w] = "deleted"
  BY <1>2, <1>3
<1>5. \A w \in VMs : got'[w] = got[w]
  BY DEF diskVars
<1>6. QED BY <1>4, <1>5, PromiseStutter

\* The decoder archives the machine, again or for the first time, or finds nothing.
LEMMA ExtractPromise ==
  ASSUME LoopInv, NEW v \in VMs, Extract(v)
  PROVE  PromiseStep
<1>1. /\ got \in [VMs -> SUBSET [Lines -> Int]] /\ vm' = vm
      /\ got' = [got EXCEPT ![v] = @ \cup Extracted(file[v])]
  BY DEF LoopInv, LoopTypeOK, Extract, consoleVars
<1>2. /\ got'[v] = got[v] \cup Extracted(file[v])
      /\ \A w \in VMs : w # v => got'[w] = got[w]
  BY <1>1
<1>3. Released' = Released
  BY <1>1 DEF Released
<1>4. Archived' = Archived \/ Archived' = Archived \cup {v}
  BY <1>2 DEF Archived
<1>5. CASE Archived' = Archived
  BY <1>3, <1>5 DEF PromiseStep
<1>6. CASE Archived' = Archived \cup {v}
  BY <1>3, <1>6 DEF PromiseStep, Promise!Next, Promise!Archive, Archived, Released
<1>7. QED BY <1>4, <1>5, <1>6

\* Only an archived machine is deleted.
LEMMA DeletePromise ==
  ASSUME LoopInv, NEW v \in VMs, At("verified", v), Delete(v)
  PROVE  PromiseStep
<1>1. v \in Archived
  BY DEF LoopInv, VerifiedHasArchive, At, Archived
<1>2. /\ vm \in [VMs -> VmStatus] /\ got' = got
      /\ vm' = vm \/ vm' = [vm EXCEPT ![v] = "deleted"]
  BY DEF LoopInv, LoopTypeOK, ConsoleTypeOK, Delete, diskVars
<1>3. Archived' = Archived
  BY <1>2 DEF Archived
<1>4. Released' = Released \/ Released' = Released \cup {v}
  BY <1>2 DEF Released
<1>5. CASE Released' = Released
  BY <1>3, <1>5 DEF PromiseStep
<1>6. CASE Released' = Released \cup {v}
  BY <1>1, <1>3, <1>6 DEF PromiseStep, Promise!Next, Promise!Release, Archived, Released
<1>7. QED BY <1>4, <1>5, <1>6
-----------------------------------------------------------------------------
(* azure-cvm/collect.sh, the collector without a decoder: what is proved   *)
(* of it needs the loop's lemmas about types only, since it has no         *)
(* verified extraction to rely on.                                         *)

CONSTANT SshKey       \* SSH_KEY is set: azure-cvm/collect.sh has its fallback
Azure == INSTANCE AzureCollect

\* The machines of the instance are those of the loop, and so are the steps of its body.
LEMMA AzureMachines ==
  /\ Azure!ConsoleInit <=> ConsoleInit
  /\ Azure!ConsoleNext <=> ConsoleNext
  /\ Azure!consoleVars = consoleVars /\ Azure!loopVars = loopVars /\ Azure!diskVars = diskVars
<1>1. /\ Azure!ConsoleInit <=> ConsoleInit
      /\ Azure!consoleVars = consoleVars /\ Azure!loopVars = loopVars /\ Azure!diskVars = diskVars
  BY DEF Azure!ConsoleInit, ConsoleInit, Azure!consoleVars, consoleVars, Azure!loopVars, loopVars,
         Azure!diskVars, diskVars
<1>2. \A v, b, n : Azure!Script(v, b, n) = Script(v, b, n)
  BY DEF Azure!Script, Script, Azure!BlockLen, BlockLen, Azure!Begin, Begin, Azure!End, End, Azure!Single, Single,
         Azure!Payload, Payload, Azure!Lines, Lines, Azure!Line, Line
<1>3. \A t, n : Azure!Spoil(t, n) = Spoil(t, n)
  BY DEF Azure!Spoil, Spoil, Azure!Noise, Noise, Azure!Begin, Begin, Azure!Line, Line, Azure!Single, Single,
         Azure!Lines, Lines, Azure!Wrong, Wrong, Azure!Slip, Slip
<1>4. \A v, t : Azure!Emit(v, t) <=> Emit(v, t)
  BY DEF Azure!Emit, Emit, Azure!ScriptLen, ScriptLen, Azure!BlockLen, BlockLen
<1>5. \A v : /\ Azure!PrintIntact(v) <=> PrintIntact(v)
             /\ Azure!PrintSpoiled(v) <=> PrintSpoiled(v)
             /\ Azure!Stop(v) <=> Stop(v)
             /\ Azure!Restart(v) <=> Restart(v)
  BY <1>2, <1>3, <1>4 DEF Azure!PrintIntact, PrintIntact, Azure!PrintSpoiled, PrintSpoiled,
     Azure!Stop, Stop, Azure!Restart, Restart
<1>6. QED BY <1>1, <1>5 DEF Azure!ConsoleNext, ConsoleNext

\* And so are the parts of the loop that the script is made of.
LEMMA AzureSteps ==
  /\ Azure!LoopInit <=> LoopInit
  /\ Azure!EndPass <=> EndPass
  /\ Azure!DeadlinePasses <=> DeadlinePasses
  /\ Azure!RunAgain <=> RunAgain
  /\ \A l, v : Azure!At(l, v) <=> At(l, v)
  /\ \A l : Azure!Goto(l) <=> Goto(l)
  /\ \A v : /\ Azure!SkipDone(v) <=> SkipDone(v)
            /\ Azure!SetDone(v) <=> SetDone(v)
            /\ Azure!GiveUp(v) <=> GiveUp(v)
            /\ Azure!SetPending(v) <=> SetPending(v)
            /\ Azure!Delete(v) <=> Delete(v)
            /\ \A l : Azure!FetchOk(v, l) <=> FetchOk(v, l)
            /\ \A l : Azure!FetchFails(v, l) <=> FetchFails(v, l)
<1> USE DEF Azure!NextLine, NextLine, Azure!At, At, Azure!Goto, Goto, Azure!consoleVars, consoleVars, Azure!diskVars, diskVars
<1>1. /\ Azure!LoopInit <=> LoopInit
      /\ Azure!EndPass <=> EndPass
      /\ Azure!DeadlinePasses <=> DeadlinePasses
      /\ Azure!RunAgain <=> RunAgain
  BY DEF Azure!LoopInit, LoopInit, Azure!EndPass, EndPass, Azure!DeadlinePasses, DeadlinePasses, Azure!RunAgain, RunAgain
<1>2. \A v : /\ Azure!SkipDone(v) <=> SkipDone(v)
             /\ Azure!SetDone(v) <=> SetDone(v)
             /\ Azure!GiveUp(v) <=> GiveUp(v)
             /\ Azure!SetPending(v) <=> SetPending(v)
             /\ Azure!Delete(v) <=> Delete(v)
  BY DEF Azure!SkipDone, SkipDone, Azure!SetDone, SetDone, Azure!GiveUp, GiveUp, Azure!SetPending, SetPending,
     Azure!Delete, Delete
<1>3. \A v, l : /\ Azure!FetchOk(v, l) <=> FetchOk(v, l)
                /\ Azure!FetchFails(v, l) <=> FetchFails(v, l)
  BY DEF Azure!FetchOk, FetchOk, Azure!FetchFails, FetchFails
<1>4. \A l, v : Azure!At(l, v) <=> At(l, v)
  OBVIOUS
<1>5. \A l : Azure!Goto(l) <=> Goto(l)
  OBVIOUS
<1>6. QED BY <1>1, <1>2, <1>3, <1>4, <1>5

\* The one range that an undisturbed probe prints.
WholeRange == <<Begin(1, "sized", 1), Single(Payload(1)), End>>

\* A machine that nobody disturbed has printed its script as far as its probe has come.
AsPrinted ==
  \A v \in VMs :
    spoiled = 0 /\ boot[v] = 1 =>
      Len(console[v]) = pos[v] /\ \A p \in DOMAIN console[v] : console[v][p] = Script(v, 1, p - 1)

\* Between unpacking and deletion: the capture has its END, and a whole one has been unpacked.
Unpacked(v) == HasEnd(file[v]) /\ (file[v] = WholeRange => Payload(1) \in got[v])

\* The inductive invariant of azure-cvm/collect.sh.
AzureInv ==
  /\ LoopTypeOK
  /\ AsPrinted
  /\ pc = "verified" => Unpacked(Head(todo))

\* What tar makes of a capture are archives or parts of archives.
LEMMA FirstRangeType ==
  ASSUME NEW con \in Seq(Token), NEW n \in Nat
  PROVE  \A left \in Azure!FirstRange(con, n) : left \subseteq [Lines -> Int]
<1>1. Azure!Lines = Lines /\ Azure!Wrong \in Int
  BY DEF Azure!Lines, Lines, Azure!Wrong
<1>2. \A d \in [Lines -> Int] : \A k : Azure!Leading(d, k) \in [Lines -> Int]
  BY <1>1 DEF Azure!Leading
<1>3. \A b \in 1 .. n : Azure!Payload(b) \in [Lines -> Int]
  BY <1>1 DEF Azure!Payload
<1>4. \A d \in [Lines -> Int] : \A left \in Azure!Untarred(d) : left \subseteq [Lines -> Int]
  BY <1>2 DEF Azure!Untarred
<1>5. \A t : t \in Token /\ t.kind = "single" => t.data \in [Lines -> Int]
  BY DEF Token
<1>6. ASSUME NEW t \in Token, NEW left \in Azure!LeftBy(t, n)
      PROVE  left \subseteq [Lines -> Int]
  <2>1. CASE t.kind = "single"
    BY <1>4, <1>5, <1>6, <2>1 DEF Azure!LeftBy
  <2>2. CASE t.kind = "noise"
    BY <1>2, <1>3, <1>6, <2>2 DEF Azure!LeftBy
  <2>3. CASE t.kind # "single" /\ t.kind # "noise"
    BY <1>6, <2>3 DEF Azure!LeftBy
  <2>4. QED BY <2>1, <2>2, <2>3
<1>7. ASSUME NEW p, Azure!Block(con, p) # {}
      PROVE  con[Azure!Min(Azure!Block(con, p))] \in Token
  <2>1. PICK range : range = Azure!Block(con, p)
    OBVIOUS
  <2>2. range \subseteq DOMAIN con /\ DOMAIN con = 1 .. Len(con)
    BY <2>1 DEF Azure!Block
  <2>3. Azure!Min(range) = Min(range)
    BY DEF Azure!Min, Min
  <2>4. range \in SUBSET Nat /\ range # {}
    BY <1>7, <2>1, <2>2
  <2>5. Min(range) \in range
    BY <2>4, MinIsLeast
  <2>6. con[Min(range)] \in Token
    BY <2>2, <2>5
  <2>7. QED BY <2>1, <2>3, <2>6
<1>8. QED BY <1>6, <1>7 DEF Azure!FirstRange

\* A whole range is unpacked whole.
LEMMA WholeRangeUnpacks ==
  ASSUME NEW n
  PROVE  Azure!FirstRange(WholeRange, n) = {{Payload(1)}}
<1> DEFINE begins == {p \in DOMAIN WholeRange : WholeRange[p].kind = "begin"}
<1>1. /\ DOMAIN WholeRange = 1 .. 3 /\ WholeRange[1].kind = "begin"
      /\ WholeRange[2].kind = "single" /\ WholeRange[2].data = Payload(1) /\ WholeRange[3].kind = "end"
  BY DEF WholeRange, Begin, Single, End
<1>2. begins = {1}
  BY <1>1
<1>3. Azure!Min(begins) = 1 /\ Azure!Min({2}) = 2
  <2>1. Min({1}) = 1 /\ Min({2}) = 2
    BY MinUnique
  <2>2. \A S : Azure!Min(S) = Min(S)
    BY DEF Azure!Min, Min
  <2>3. QED BY <1>2, <2>1, <2>2
<1>4. Azure!Block(WholeRange, 1) = {2}
  BY <1>1 DEF Azure!Block
<1>5. Azure!LeftBy(WholeRange[2], n) = Azure!Untarred(Payload(1))
  BY <1>1 DEF Azure!LeftBy
<1>6. Azure!Readable(Payload(1))
  BY DEF Azure!Readable, Azure!Lines, Azure!Wrong, Payload, Lines
<1>7. Azure!Untarred(Payload(1)) = {{Payload(1)}}
  BY <1>6 DEF Azure!Untarred
<1>8. QED BY <1>2, <1>3, <1>4, <1>5, <1>7 DEF Azure!FirstRange

\* What has its END and was read off the console of an undisturbed machine is the whole range.
LEMMA UndisturbedWhole ==
  ASSUME LoopTypeOK, AsPrinted, NEW v \in VMs, v \in Legacy, Undisturbed(v), HasEnd(file[v])
  PROVE  file[v] = WholeRange
<1>1. /\ spoiled = 0 /\ boot[v] = 1 /\ console[v] \in Seq(Token) /\ pos[v] \in Nat /\ pos[v] <= 3
      /\ Len(console[v]) = pos[v]
      /\ \A p \in DOMAIN console[v] : console[v][p] = Script(v, 1, p - 1)
  BY DEF Undisturbed, AsPrinted, LoopTypeOK, ConsoleTypeOK, ScriptLen, BlockLen
<1>2. PICK n \in 0 .. Len(console[v]) : file[v] = SubSeq(console[v], 1, n)
  BY DEF Undisturbed
<1>3. /\ file[v] \in Seq(Token) /\ Len(file[v]) = n /\ DOMAIN file[v] = 1 .. n /\ n <= 3 /\ n \in Nat
      /\ \A p \in 1 .. n : file[v][p] = Script(v, 1, p - 1)
  BY <1>1, <1>2
<1>4. /\ Script(v, 1, 0) = Begin(1, "sized", 1)
      /\ Script(v, 1, 1) = Single(Payload(1))
      /\ Script(v, 1, 2) = End
  BY DEF Script, BlockLen
<1>5. PICK p \in 1 .. n : file[v][p].kind = "end"
  BY <1>3 DEF HasEnd
<1>6. p = 3
  BY <1>3, <1>4, <1>5 DEF Begin, Single
<1>7. n = 3
  BY <1>3, <1>6
<1>8. /\ Len(file[v]) = 3 /\ file[v][1] = Begin(1, "sized", 1) /\ file[v][2] = Single(Payload(1))
      /\ file[v][3] = End
  BY <1>3, <1>4, <1>7
<1>9. QED BY <1>3, <1>8 DEF WholeRange

\* A step of the machines.
LEMMA AzureConsole ==
  ASSUME AzureInv, ConsoleNext, UNCHANGED <<loopVars, diskVars>>
  PROVE  AzureInv'
<1> USE DEF loopVars, diskVars
<1>0. ConsoleTypeOK /\ (\A v \in VMs : boot[v] \in 1 .. MaxBoots) /\ spoiled \in Nat
  BY DEF AzureInv, LoopTypeOK, ConsoleTypeOK, Boots
<1>1. PICK v \in VMs : PrintIntact(v) \/ PrintSpoiled(v) \/ Stop(v) \/ Restart(v)
  BY DEF ConsoleNext
<1>2. LoopTypeOK' /\ (pc = "verified" => Unpacked(Head(todo)))'
  BY <1>0, ConsoleStepType DEF AzureInv, LoopTypeOK, Unpacked
<1> SUFFICES AsPrinted'
  BY <1>2 DEF AzureInv
<1>3. CASE PrintIntact(v)
  <2>1. PICK t : t = Script(v, boot[v], pos[v])
    OBVIOUS
  <2>2. /\ boot' = boot /\ spoiled' = spoiled
        /\ console' = [console EXCEPT ![v] = Append(@, t)] /\ pos' = [pos EXCEPT ![v] = @ + 1]
    BY <1>3, <2>1 DEF PrintIntact, Emit
  <2>3. /\ console[v] \in Seq(Token) /\ pos[v] \in Nat
        /\ console \in [VMs -> Seq(Token)] /\ pos \in [VMs -> Nat]
    BY <1>0 DEF ConsoleTypeOK
  <2>4. /\ console'[v] = Append(console[v], t) /\ pos'[v] = pos[v] + 1
        /\ \A w \in VMs : w # v => console'[w] = console[w] /\ pos'[w] = pos[w]
    BY <2>2, <2>3
  <2>5. ASSUME spoiled = 0, boot[v] = 1
        PROVE  /\ Len(console'[v]) = pos'[v]
               /\ \A p \in DOMAIN console'[v] : console'[v][p] = Script(v, 1, p - 1)
    <3>1. /\ Len(console[v]) = pos[v]
          /\ \A p \in DOMAIN console[v] : console[v][p] = Script(v, 1, p - 1)
      BY <2>5 DEF AzureInv, AsPrinted
    <3>2. /\ DOMAIN console[v] = 1 .. pos[v] /\ DOMAIN console'[v] = 1 .. pos[v] + 1
          /\ Len(console'[v]) = pos[v] + 1
          /\ \A p \in 1 .. pos[v] : console'[v][p] = console[v][p]
          /\ console'[v][pos[v] + 1] = t
      <4>1. PICK c : c = console'[v]
        OBVIOUS
      <4>2. t \in Token
        BY <1>0, <2>1, ScriptToken
      <4>3. /\ DOMAIN c = 1 .. pos[v] + 1 /\ Len(c) = pos[v] + 1
            /\ \A p \in 1 .. pos[v] : c[p] = console[v][p]
            /\ c[pos[v] + 1] = t
        BY <2>3, <2>4, <3>1, <4>1, <4>2
      <4>4. QED BY <2>3, <3>1, <4>1, <4>3
    <3>3. t = Script(v, 1, (pos[v] + 1) - 1)
      BY <2>1, <2>3, <2>5
    <3>4. QED BY <2>3, <2>4, <3>1, <3>2, <3>3
  <2>6. QED BY <2>2, <2>4, <2>5 DEF AzureInv, AsPrinted
<1>4. CASE PrintSpoiled(v)
  <2>1. spoiled' # 0
    BY <1>0, <1>4 DEF PrintSpoiled
  <2>2. QED BY <2>1 DEF AsPrinted
<1>5. CASE Stop(v)
  BY <1>5 DEF Stop, AzureInv, AsPrinted
<1>6. CASE Restart(v)
  <2>1. /\ UNCHANGED <<spoiled, console>> /\ boot'[v] = boot[v] + 1
        /\ \A w \in VMs : w # v => boot'[w] = boot[w]
    BY <1>0, <1>6, RestartType DEF Restart
  <2>2. \A w \in VMs : w # v => pos'[w] = pos[w]
    BY <1>0, <1>6 DEF Restart, ConsoleTypeOK
  <2>3. boot'[v] # 1
    BY <1>0, <2>1
  <2>4. QED BY <2>1, <2>2, <2>3 DEF AzureInv, AsPrinted
<1>7. QED BY <1>1, <1>3, <1>4, <1>5, <1>6

\* A step of the script that does not lead to a deletion.
LEMMA AzureMove ==
  ASSUME AzureInv, UNCHANGED <<boot, pos, spoiled, console>>, ConsoleTypeOK',
         file' \in [VMs -> Seq(Token)], got' \in [VMs -> SUBSET [Lines -> Int]],
         pc' \in Labels, todo' \in Seq(VMs), pending' \in Nat,
         done' \subseteq VMs, givenUp' \subseteq done', expired' \in BOOLEAN,
         runs' \in 1 .. MaxRuns, pc' \notin {"visit", "finished"} => todo' # <<>>,
         pc' = "verified" => Unpacked(Head(todo))'
  PROVE  AzureInv'
BY DEF AzureInv, LoopTypeOK, AsPrinted

\* The same when only the place in the loop changes.
LEMMA AzureTurn ==
  ASSUME AzureInv, UNCHANGED <<boot, pos, spoiled, console, diskVars>>, ConsoleTypeOK',
         pc' \in Labels, todo' \in Seq(VMs), pending' \in Nat,
         done' \subseteq VMs, givenUp' \subseteq done', expired' \in BOOLEAN,
         runs' \in 1 .. MaxRuns, pc' \notin {"visit", "finished"} => todo' # <<>>,
         pc' # "verified" \/ UNCHANGED <<pc, todo>>
  PROVE  AzureInv'
<1>1. file' \in [VMs -> Seq(Token)] /\ got' \in [VMs -> SUBSET [Lines -> Int]]
  BY DEF AzureInv, LoopTypeOK, diskVars
<1>2. pc' = "verified" => Unpacked(Head(todo))'
  BY DEF AzureInv, Unpacked, diskVars
<1>3. QED BY <1>1, <1>2, AzureMove

\* The bookkeeping of the loop.
LEMMA AzureBookkeeping ==
  ASSUME AzureInv, EndPass \/ DeadlinePasses \/ RunAgain \/ UNCHANGED collectVars
  PROVE  AzureInv'
<1>1. /\ pc \in Labels /\ todo \in Seq(VMs) /\ pending \in Nat /\ done \subseteq VMs /\ givenUp \subseteq done
      /\ expired \in BOOLEAN /\ runs \in 1 .. MaxRuns /\ (pc \notin {"visit", "finished"} => todo # <<>>)
      /\ ConsoleTypeOK
  BY DEF AzureInv, LoopTypeOK
<1>2. UNCHANGED <<consoleVars, diskVars>>
  BY DEF EndPass, DeadlinePasses, RunAgain, collectVars
<1>3. UNCHANGED <<boot, pos, spoiled, console, diskVars>> /\ ConsoleTypeOK'
  BY <1>1, <1>2 DEF consoleVars, ConsoleTypeOK
<1>4. /\ pc' \in Labels /\ todo' \in Seq(VMs) /\ pending' \in Nat
      /\ (pc' \notin {"visit", "finished"} => todo' # <<>>)
      /\ pc' # "verified" \/ UNCHANGED <<pc, todo>>
  <2>1. CASE EndPass
    <3>1. \/ pc' = "finished" /\ todo' = todo /\ pending' = pending
          \/ pc' = "visit" /\ todo' = Launched /\ pending' = 0
      BY <2>1, Zenon DEF EndPass
    <3>2. QED BY <1>1, <3>1, LoopAssumption DEF Labels
  <2>2. CASE DeadlinePasses \/ UNCHANGED collectVars
    BY <1>1, <2>2 DEF DeadlinePasses, collectVars, loopVars
  <2>3. CASE RunAgain
    BY <2>3, LoopAssumption DEF RunAgain, Labels
  <2>4. QED BY <2>1, <2>2, <2>3
<1>5. done' \subseteq VMs /\ givenUp' \subseteq done' /\ expired' \in BOOLEAN
  BY <1>1 DEF EndPass, DeadlinePasses, RunAgain, collectVars, loopVars
<1>6. runs' \in 1 .. MaxRuns
  <2>1. CASE RunAgain
    <3>1. runs < MaxRuns /\ runs' = runs + 1
      BY <2>1 DEF RunAgain
    <3>2. QED BY <1>1, <3>1, LoopAssumption
  <2>2. CASE EndPass \/ DeadlinePasses \/ UNCHANGED collectVars
    BY <1>1, <2>2 DEF EndPass, DeadlinePasses, collectVars, loopVars
  <2>3. QED BY <2>1, <2>2
<1>7. QED BY <1>3, <1>4, <1>5, <1>6, AzureTurn

\* What the fallback writes instead of the capture.
LEMMA SshFile ==
  ASSUME NEW v \in VMs, boot[v] \in Nat, NEW t \in Azure!SshReads(v)
  PROVE  <<Azure!Begin(0, "bare", 0), t, Azure!End>> \in Seq(Token)
<1>1. t \in Token
  <2>1. CASE t = Azure!Noise
    BY <2>1 DEF Azure!Noise, Token
  <2>2. CASE \E b \in 1 .. boot[v], k \in 0 .. NL : t = Azure!Single(Azure!Leading(Azure!Payload(b), k))
    <3>1. PICK b \in 1 .. boot[v], k \in 0 .. NL : t = Azure!Single(Azure!Leading(Azure!Payload(b), k))
      BY <2>2
    <3>2. Azure!Leading(Azure!Payload(b), k) \in [Lines -> Int]
      BY DEF Azure!Leading, Azure!Payload, Azure!Lines, Lines, Azure!Wrong
    <3>3. QED BY <3>1, <3>2 DEF Azure!Single, Token
  <2>3. QED BY <2>1, <2>2 DEF Azure!SshReads
<1>2. Azure!Begin(0, "bare", 0) \in Token /\ Azure!End \in Token
  BY DEF Azure!Begin, Azure!End, Token, Forms
<1>3. QED BY <1>1, <1>2

\* The steps of the body of the loop, one by one.
LEMMA AzureVisit ==
  ASSUME AzureInv, NEW v \in VMs, Azure!Visit(v)
  PROVE  AzureInv'
<1>0. /\ LoopTypeOK /\ ConsoleTypeOK /\ boot[v] \in Nat
      /\ file \in [VMs -> Seq(Token)] /\ got \in [VMs -> SUBSET [Lines -> Int]]
  BY DEF AzureInv, LoopTypeOK, ConsoleTypeOK, Boots
<1>1. CASE Azure!SkipDone(v) \/ Azure!InstanceView(v)
  <2>1. /\ At("visit", v) \/ At("silent", v)
        /\ SkipDone(v) \/ SetPending(v) \/ GiveUp(v)
        /\ UNCHANGED <<consoleVars, diskVars>>
    <3>1. CASE Azure!SkipDone(v)
      BY <3>1, AzureSteps DEF SkipDone
    <3>2. CASE Azure!InstanceView(v)
      BY <3>2, AzureSteps DEF Azure!InstanceView, Azure!consoleVars, consoleVars, Azure!diskVars, diskVars
    <3>3. QED BY <1>1, <3>1, <3>2
  <2>2. /\ pc' = "visit" /\ todo' \in Seq(VMs) /\ pending' \in Nat
        /\ done' \subseteq VMs /\ givenUp' \subseteq done'
        /\ expired' \in BOOLEAN /\ runs' \in 1 .. MaxRuns
    BY <1>0, <2>1, ExitsTyped
  <2>3. ConsoleTypeOK' /\ UNCHANGED <<boot, pos, spoiled, console, diskVars>>
    BY <1>0, <2>1 DEF consoleVars, ConsoleTypeOK
  <2>4. QED BY <2>2, <2>3, AzureTurn DEF Labels
<1>2. CASE Azure!NoEnd(v)
  <2>1. /\ At("fetched", v) \/ At("ssh", v)
        /\ Goto("silent") /\ UNCHANGED <<consoleVars, diskVars>>
    BY <1>2, AzureSteps DEF Azure!NoEnd, Azure!Captured, Azure!consoleVars, consoleVars, Azure!diskVars, diskVars
  <2>2. /\ pc' = "silent" /\ todo' \in Seq(VMs) /\ todo' # <<>> /\ pending' \in Nat
        /\ done' \subseteq VMs /\ givenUp' \subseteq done'
        /\ expired' \in BOOLEAN /\ runs' \in 1 .. MaxRuns
    BY <1>0, <2>1, ExitsTyped DEF Labels
  <2>3. ConsoleTypeOK' /\ UNCHANGED <<boot, pos, spoiled, console, diskVars>>
    BY <1>0, <2>1 DEF consoleVars, ConsoleTypeOK
  <2>4. QED BY <2>2, <2>3, AzureTurn DEF Labels
<1>3. CASE Azure!DeleteVM(v)
  <2>1. At("verified", v) /\ Delete(v) /\ SetDone(v)
    BY <1>3, AzureSteps DEF Azure!DeleteVM
  <2>2. /\ pc' = "visit" /\ todo' \in Seq(VMs) /\ pending' \in Nat
        /\ done' \subseteq VMs /\ givenUp' \subseteq done'
        /\ expired' \in BOOLEAN /\ runs' \in 1 .. MaxRuns
    BY <1>0, <2>1, ExitsTyped
  <2>3. ConsoleTypeOK' /\ UNCHANGED <<boot, pos, spoiled, console, diskVars>>
    <3>1. /\ vm' = [vm EXCEPT ![v] = "deleted"] \/ vm' = vm
          /\ UNCHANGED <<boot, pos, spoiled, console, diskVars>>
      BY <2>1 DEF Delete
    <3>2. QED BY <1>0, <3>1 DEF ConsoleTypeOK, VmStatus
  <2>4. QED BY <2>2, <2>3, AzureTurn DEF Labels
<1>4. CASE Azure!Fetch(v)
  <2>1. /\ At("visit", v) /\ Goto("fetched") /\ UNCHANGED <<consoleVars, got>>
        /\ file' = [file EXCEPT ![v] = console[v]] \/ file' = [file EXCEPT ![v] = <<>>]
    BY <1>4, AzureSteps DEF Azure!Fetch, FetchOk, FetchFails
  <2>2. /\ pc' = "fetched" /\ todo' \in Seq(VMs) /\ todo' # <<>> /\ pending' \in Nat
        /\ done' \subseteq VMs /\ givenUp' \subseteq done'
        /\ expired' \in BOOLEAN /\ runs' \in 1 .. MaxRuns
    BY <1>0, <2>1, ExitsTyped DEF Labels
  <2>3. ConsoleTypeOK' /\ UNCHANGED <<boot, pos, spoiled, console>>
    BY <1>0, <2>1 DEF consoleVars, ConsoleTypeOK
  <2>4. file' \in [VMs -> Seq(Token)]
    <3>1. console[v] \in Seq(Token) /\ <<>> \in Seq(Token)
      BY <1>0 DEF ConsoleTypeOK
    <3>2. QED BY <1>0, <2>1, <3>1
  <2>5. got' \in [VMs -> SUBSET [Lines -> Int]]
    BY <1>0, <2>1
  <2>6. QED BY <2>2, <2>3, <2>4, <2>5, AzureMove DEF Labels
<1>5. CASE Azure!SshFallback(v)
  <2>1. PICK t \in Azure!SshReads(v) :
          file' = IF t = Azure!Noise THEN file
                  ELSE [file EXCEPT ![v] = <<Azure!Begin(0, "bare", 0), t, Azure!End>>]
    BY <1>5 DEF Azure!SshFallback
  <2>2. /\ At("fetched", v) /\ pc' = "ssh" /\ todo' \in {todo, <<v>>}
        /\ UNCHANGED <<consoleVars, got, done, givenUp, pending, expired, runs>>
    BY <1>5, AzureSteps DEF Azure!SshFallback, Azure!consoleVars, consoleVars
  <2>3. /\ todo' \in Seq(VMs) /\ todo' # <<>> /\ pending' \in Nat /\ done' \subseteq VMs /\ givenUp' \subseteq done'
        /\ expired' \in BOOLEAN /\ runs' \in 1 .. MaxRuns
    <3>1. <<v>> \in Seq(VMs) /\ <<v>> # <<>>
      OBVIOUS
    <3>2. QED BY <1>0, <2>2, <3>1 DEF LoopTypeOK, At
  <2>4. ConsoleTypeOK' /\ UNCHANGED <<boot, pos, spoiled, console>>
    BY <1>0, <2>2 DEF consoleVars, ConsoleTypeOK
  <2>5. file' \in [VMs -> Seq(Token)]
    <3>1. PICK text : text = <<Azure!Begin(0, "bare", 0), t, Azure!End>>
      OBVIOUS
    <3>2. text \in Seq(Token)
      BY <1>0, <3>1, SshFile
    <3>3. file' = file \/ file' = [file EXCEPT ![v] = text]
      BY <2>1, <3>1
    <3>4. QED BY <1>0, <3>2, <3>3
  <2>6. got' \in [VMs -> SUBSET [Lines -> Int]]
    BY <1>0, <2>2
  <2>7. QED BY <2>2, <2>3, <2>4, <2>5, <2>6, AzureMove DEF Labels
<1>6. CASE Azure!Unpack(v)
  <2>1. PICK left \in Azure!FirstRange(file[v], boot[v]) : got' = [got EXCEPT ![v] = @ \cup left]
    BY <1>6 DEF Azure!Unpack
  <2>2. /\ At("fetched", v) \/ At("ssh", v)
        /\ Goto("verified") /\ UNCHANGED <<consoleVars, file>>
        /\ Azure!HasEnd(file[v])
    BY <1>6, AzureSteps DEF Azure!Unpack, Azure!Captured, Azure!consoleVars, consoleVars
  <2>3. /\ pc' = "verified" /\ todo' = todo /\ todo' \in Seq(VMs) /\ todo' # <<>> /\ pending' \in Nat
        /\ done' \subseteq VMs /\ givenUp' \subseteq done'
        /\ expired' \in BOOLEAN /\ runs' \in 1 .. MaxRuns
    BY <1>0, <2>2, ExitsTyped DEF Labels
  <2>4. ConsoleTypeOK' /\ UNCHANGED <<boot, pos, spoiled, console>>
    BY <1>0, <2>2 DEF consoleVars, ConsoleTypeOK
  <2>5. file[v] \in Seq(Token)
    BY <1>0
  <2>6. left \in SUBSET [Lines -> Int]
    BY <1>0, <2>1, <2>5, FirstRangeType
  <2>7. got' \in [VMs -> SUBSET [Lines -> Int]] /\ got'[v] = got[v] \cup left
    BY <1>0, <2>1, <2>6
  <2>8. Unpacked(v)'
    <3>1. HasEnd(file'[v])
      BY <2>2 DEF HasEnd, Azure!HasEnd
    <3>2. file'[v] = WholeRange => Payload(1) \in got'[v]
      BY <2>1, <2>2, <2>7, WholeRangeUnpacks
    <3>3. WholeRange' = WholeRange /\ Payload(1)' = Payload(1)
      OBVIOUS
    <3>4. QED BY <3>1, <3>2 DEF Unpacked
  <2>9. Head(todo') = v
    BY <2>2, <2>3 DEF At
  <2>10. Unpacked(Head(todo))'
    BY <2>8, <2>9
  <2>11. QED BY <1>0, <2>2, <2>3, <2>4, <2>7, <2>10, AzureMove DEF Labels
<1>7. QED BY <1>1, <1>2, <1>3, <1>4, <1>5, <1>6 DEF Azure!Visit

LEMMA AzureNext == AzureInv /\ [Azure!Next]_Azure!vars => AzureInv'
<1> SUFFICES ASSUME AzureInv, [Azure!Next]_Azure!vars PROVE AzureInv'
  OBVIOUS
<1>1. CASE \E v \in VMs : Azure!Visit(v)
  BY <1>1, AzureVisit
<1>2. CASE ConsoleNext /\ UNCHANGED <<loopVars, diskVars>>
  BY <1>2, AzureConsole
<1>3. CASE EndPass \/ DeadlinePasses \/ RunAgain \/ UNCHANGED collectVars
  BY <1>3, AzureBookkeeping
<1>4. CASE UNCHANGED Azure!vars
  <2>1. UNCHANGED collectVars
    BY <1>4 DEF Azure!vars, Azure!collectVars, collectVars, Azure!consoleVars, consoleVars,
                Azure!loopVars, loopVars, Azure!diskVars, diskVars
  <2>2. QED BY <1>3, <2>1
<1>5. CASE Azure!ConsoleNext /\ UNCHANGED <<Azure!loopVars, Azure!diskVars>>
  <2>1. UNCHANGED <<loopVars, diskVars>>
    BY <1>5 DEF Azure!loopVars, loopVars, Azure!diskVars, diskVars
  <2>2. QED BY <1>2, <1>5, <2>1, AzureMachines
<1>6. QED BY <1>1, <1>3, <1>4, <1>5, AzureSteps DEF Azure!Next, Azure!Collector, Azure!Environment

LEMMA AzureInit == Azure!Init => AzureInv
<1> SUFFICES ASSUME ConsoleInit, LoopInit PROVE AzureInv
  BY AzureSteps, AzureMachines DEF Azure!Init
<1>1. LoopTypeOK
  BY LoopInvInit DEF LoopInv
<1>2. QED BY <1>1 DEF AzureInv, AsPrinted, ConsoleInit, LoopInit

\* The invariant of azure-cvm/collect.sh, in every state.
LEMMA AzureAlways == Azure!Spec => []AzureInv
BY AzureInit, AzureNext, PTL DEF Azure!Spec

(* Type correctness of azure-cvm/collect.sh, whatever calls fail and       *)
(* whatever the fallback reads: it never leaves the body of its loop       *)
(* without a machine, though ssh may have eaten the lines that were left.  *)
THEOREM AzureTypeCorrect == Azure!Spec => []LoopTypeOK
<1>1. AzureInv => LoopTypeOK
  BY DEF AzureInv
<1>2. QED BY <1>1, AzureAlways, PTL

\* The one step of the system that deletes a machine.
LEMMA AzureDeletes ==
  ASSUME LoopTypeOK, Azure!Next, NEW v \in VMs, vm[v] # "deleted", vm'[v] = "deleted"
  PROVE  At("verified", v)
<1>1. vm' # vm /\ vm \in [VMs -> VmStatus]
  BY DEF LoopTypeOK, ConsoleTypeOK
<1>2. ~(EndPass \/ DeadlinePasses \/ RunAgain)
  BY <1>1 DEF EndPass, DeadlinePasses, RunAgain, consoleVars
<1>3. ~Azure!ConsoleNext
  <2>1. SUFFICES ASSUME ConsoleNext PROVE FALSE
    BY AzureMachines
  <2>2. PICK w \in VMs : PrintIntact(w) \/ PrintSpoiled(w) \/ Stop(w) \/ Restart(w)
    BY <2>1 DEF ConsoleNext
  <2>3. vm' = vm \/ vm' = [vm EXCEPT ![w] = "stopped"] \/ vm' = [vm EXCEPT ![w] = "running"]
    BY <2>2 DEF PrintIntact, PrintSpoiled, Emit, Stop, Restart
  <2>4. QED BY <1>1, <2>3
<1>4. PICK w \in VMs : Azure!Visit(w)
  BY <1>2, <1>3, AzureSteps DEF Azure!Next, Azure!Collector, Azure!Environment
<1>5. ~(Azure!SkipDone(w) \/ Azure!Fetch(w) \/ Azure!SshFallback(w) \/ Azure!Unpack(w) \/ Azure!NoEnd(w)
         \/ Azure!InstanceView(w))
  BY <1>1 DEF Azure!SkipDone, Azure!Fetch, Azure!FetchOk, Azure!FetchFails, Azure!SshFallback, Azure!Unpack,
              Azure!NoEnd, Azure!InstanceView, Azure!consoleVars
<1>6. At("verified", w) /\ Delete(w)
  BY <1>4, <1>5, AzureSteps DEF Azure!Visit, Azure!DeleteVM
<1>7. v = w
  BY <1>1, <1>6 DEF Delete
<1>8. QED BY <1>6, <1>7

(* A machine that nobody disturbed is deleted only with its whole archive  *)
(* on disk, although azure-cvm/collect.sh (its lines "python3 -" and       *)
(* "az vm delete") looks at nothing but the END marker of a capture: for   *)
(* any machines, passes, failing calls and runs.                           *)
THEOREM AzureKeepsUndisturbed ==
  ASSUME Legacy = VMs
  PROVE  Azure!Spec => UndisturbedNotLost
<1>1. ASSUME AzureInv, [Azure!Next]_Azure!vars
      PROVE  [\A v \in VMs :
                vm[v] # "deleted" /\ vm'[v] = "deleted" /\ Undisturbed(v) => Payload(1) \in got[v]]_collectVars
  <2>1. CASE Azure!Next
    <3>1. SUFFICES ASSUME NEW v \in VMs, vm[v] # "deleted", vm'[v] = "deleted", Undisturbed(v)
                   PROVE  Payload(1) \in got[v]
      OBVIOUS
    <3>2. At("verified", v)
      BY <1>1, <2>1, <3>1, AzureDeletes DEF AzureInv
    <3>3. Unpacked(v)
      BY <1>1, <3>2 DEF AzureInv, At
    <3>4. file[v] = WholeRange
      BY <1>1, <3>1, <3>3, UndisturbedWhole DEF AzureInv, Unpacked
    <3>5. QED BY <3>3, <3>4 DEF Unpacked
  <2>2. CASE UNCHANGED Azure!vars
    BY <2>2 DEF Azure!vars, Azure!collectVars, collectVars, Azure!consoleVars, consoleVars,
                Azure!loopVars, loopVars, Azure!diskVars, diskVars
  <2>3. QED BY <1>1, <2>1, <2>2
<1>2. QED BY <1>1, AzureAlways, PTL DEF Azure!Spec, UndisturbedNotLost
=============================================================================
