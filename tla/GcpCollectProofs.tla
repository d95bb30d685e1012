-------------------------- MODULE GcpCollectProofs --------------------------
(***************************************************************************)
(* gcp-cvm/collect.sh for every launched.txt, any number of machines,      *)
(* lines, copies, boots, spoiled tokens and runs, and any set of failing   *)
(* calls.  The inductive invariant is that of the loop (LoopProofs); here  *)
(* every step of the script is one of those the lemmas there are about.    *)
(***************************************************************************)
EXTENDS GcpCollect, LoopProofs

\* The invariant of the loop.
Inv == LoopInv /\ keep \in BOOLEAN

LEMMA InitInv == Init => Inv
BY LoopInvInit DEF Init, Inv

\* The steps of the body of the loop, one by one.
LEMMA VisitInv ==
  ASSUME Inv, NEW v \in VMs, Visit(v)
  PROVE  Inv'
<1> USE DEF Inv
<1>1. CASE SkipDone(v) /\ UNCHANGED keep
  BY <1>1, BookkeepingInv
<1>2. CASE Fetch(v)
  <2>1. At("visit", v) /\ UNCHANGED keep /\ "fetched" \in Labels \ {"verified"}
    BY <1>2 DEF Fetch, Labels
  <2>2. FetchOk(v, "fetched") \/ FetchFails(v, "fetched")
    BY <1>2 DEF Fetch
  <2>3. QED BY <2>1, <2>2, FetchInv
<1>3. CASE DecodeVerified(v)
  BY <1>3, ExtractInv DEF DecodeVerified
<1>4. CASE DecodeIncomplete(v)
  BY <1>4, ExtractInv DEF DecodeIncomplete
<1>5. CASE NoEnd(v)
  <2>1. /\ At("fetched", v) /\ Goto("silent") /\ UNCHANGED <<consoleVars, diskVars, keep>>
        /\ "silent" \in Labels \ {"verified"}
    BY <1>5 DEF NoEnd, Labels
  <2>2. /\ pc' = "silent" /\ todo' \in Seq(VMs) /\ todo' # <<>>
        /\ pending' \in Nat /\ done' \subseteq VMs /\ givenUp' \subseteq done'
        /\ expired' \in BOOLEAN /\ runs' \in 1 .. MaxRuns
    BY <2>1, ExitTypes
  <2>3. QED BY <2>1, <2>2, LoopMoveInv
<1>6. CASE DeleteVM(v)
  BY <1>6, DeleteInv DEF DeleteVM
<1>7. CASE KeepVM(v) \/ Describe(v)
  <2>1. /\ At("verified", v) \/ At("silent", v)
        /\ SetDone(v) \/ SetPending(v) \/ GiveUp(v)
        /\ UNCHANGED <<consoleVars, diskVars, keep>>
    BY <1>7 DEF KeepVM, Describe
  <2>2. /\ pc' = "visit" /\ todo' \in Seq(VMs) /\ pending' \in Nat
        /\ done' \subseteq VMs /\ givenUp' \subseteq done'
        /\ expired' \in BOOLEAN /\ runs' \in 1 .. MaxRuns
    BY <2>1, ExitTypes
  <2>3. QED BY <2>1, <2>2, LoopMoveInv DEF Labels
<1>8. QED BY <1>1, <1>2, <1>3, <1>4, <1>5, <1>6, <1>7 DEF Visit

LEMMA NextInv == Inv /\ [Next]_vars => Inv'
<1> SUFFICES ASSUME Inv, [Next]_vars PROVE Inv'
  OBVIOUS
<1>1. CASE Loop
  BY <1>1, BookkeepingInv DEF Loop, Inv
<1>2. CASE \E v \in VMs : Visit(v)
  BY <1>2, VisitInv
<1>3. CASE ConsoleNext /\ UNCHANGED <<loopVars, diskVars, keep>>
  BY <1>3, ConsoleStepInv DEF Inv
<1>4. CASE DeadlinePasses /\ UNCHANGED keep
  BY <1>4, BookkeepingInv DEF Inv
<1>5. CASE Start
  BY <1>5, BookkeepingInv DEF Start, Inv
<1>6. CASE UNCHANGED vars
  <2>1. /\ UNCHANGED <<consoleVars, loopVars, diskVars, keep>>
    BY <1>6 DEF vars, collectVars
  <2>2. LoopTypeOK'
    BY <2>1 DEF Inv, LoopInv, LoopTypeOK, ConsoleTypeOK, consoleVars, loopVars, diskVars
  <2>3. (Provenance /\ ArchivesAuthentic /\ VerifiedHasArchive /\ DeletedHasArchive)'
    BY <2>1 DEF Inv, LoopInv, Provenance, ArchivesAuthentic, VerifiedHasArchive,
                DeletedHasArchive, consoleVars, loopVars, diskVars
  <2>4. QED BY <2>1, <2>2, <2>3 DEF Inv, LoopInv
<1>7. QED BY <1>1, <1>2, <1>3, <1>4, <1>5, <1>6 DEF Next, Collector, Environment

(* The invariant holds in every state the script and the machines reach.   *)
THEOREM SpecInv == Spec => []Inv
BY InitInv, NextInv, PTL DEF Spec

(* Type correctness of the collector's model.                              *)
THEOREM TypeCorrect == Spec => []TypeOK
<1>1. Inv => TypeOK
  BY DEF Inv, LoopInv, TypeOK
<1>2. QED BY <1>1, SpecInv, PTL

(* What tools/decode_console.py extracts from an indexed console is always *)
(* an archive that machine wrote at one of its boots: no damage to the     *)
(* console makes the decoder accept anything else (lines 29-32).           *)
THEOREM Authentic == Spec => []ArchivesAuthentic
<1>1. Inv => ArchivesAuthentic
  BY DEF Inv, LoopInv
<1>2. QED BY <1>1, SpecInv, PTL

(* gcp-cvm/collect.sh line 14: "the VM is deleted only after a verified    *)
(* extraction, never on a failed decode".  A deleted machine of the        *)
(* indexed format has an archive on disk, and it is one of its own.        *)
THEOREM DeletionSafe == Spec => []DeletedOnlyVerified
<1>1. Inv => DeletedOnlyVerified
  <2> SUFFICES ASSUME Inv, NEW v \in VMs \ Legacy, vm[v] = "deleted"
               PROVE  \E b \in 1 .. boot[v] : Payload(b) \in got[v]
    BY DEF DeletedOnlyVerified
  <2>1. got[v] # {} /\ got[v] \subseteq {Payload(b) : b \in 1 .. boot[v]}
    BY DEF Inv, LoopInv, ArchivesAuthentic, DeletedHasArchive
  <2>2. QED BY <2>1
<1>2. QED BY <1>1, SpecInv, PTL

\* No step takes an archive off the disk.
LEMMA VisitGrows ==
  ASSUME Inv, NEW v \in VMs, Visit(v)
  PROVE  Growing
<1>1. CASE DecodeVerified(v) \/ DecodeIncomplete(v)
  BY <1>1, ExtractInv DEF DecodeVerified, DecodeIncomplete, Inv, Growing
<1>2. CASE SkipDone(v) \/ Fetch(v) \/ NoEnd(v) \/ DeleteVM(v) \/ KeepVM(v) \/ Describe(v)
  BY <1>2 DEF SkipDone, Fetch, FetchOk, FetchFails, NoEnd, DeleteVM, Delete, KeepVM,
              Describe, diskVars, Growing
<1>3. QED BY <1>1, <1>2 DEF Visit

\* Every step of the body settles the machine, counts it as pending, or stays with it.
LEMMA VisitSettled ==
  ASSUME Inv, SettledInv, NEW v \in VMs, Visit(v)
  PROVE  SettledInv'
<1>1. LoopInv /\ Growing
  BY VisitGrows DEF Inv
<1>2. CASE Fetch(v) \/ DecodeVerified(v) \/ NoEnd(v)
  <2>1. Goto("fetched") \/ Goto("verified") \/ Goto("silent")
    BY <1>2 DEF Fetch, FetchOk, FetchFails, DecodeVerified, NoEnd
  <2>2. UNCHANGED <<todo, done, givenUp, pending, expired>> /\ pc' # "finished"
    BY <2>1 DEF Goto
  <2>3. QED BY <1>1, <2>2, SettledStay
<1>3. CASE DeleteVM(v) \/ KeepVM(v)
  <2>1. At("verified", v) /\ SetDone(v)
    BY <1>3 DEF DeleteVM, KeepVM
  <2>2. got[v] # {}
    BY <1>1, <2>1 DEF LoopInv, VerifiedHasArchive, At
  <2>3. QED BY <1>1, <2>1, <2>2, SettledNextLine
<1>4. CASE SkipDone(v) \/ DecodeIncomplete(v) \/ Describe(v)
  <2>1. /\ At("visit", v) \/ At("fetched", v) \/ At("silent", v)
        /\ GiveUp(v) \/ SetPending(v) \/ SkipDone(v)
    BY <1>4 DEF SkipDone, DecodeIncomplete, Describe
  <2>2. QED BY <1>1, <2>1, SettledNextLine
<1>5. QED BY <1>2, <1>3, <1>4 DEF Visit

LEMMA NextSettled == Inv /\ SettledInv /\ [Next]_vars => SettledInv'
<1> SUFFICES ASSUME Inv, SettledInv, [Next]_vars PROVE SettledInv'
  OBVIOUS
<1>1. CASE \E v \in VMs : Visit(v)
  BY <1>1, VisitSettled
<1>2. CASE Loop \/ DeadlinePasses \/ Start
  BY <1>2, SettledBookkeeping DEF Loop, Start, Inv
<1>3. CASE UNCHANGED <<loopVars, diskVars>>
  <2>1. Growing /\ UNCHANGED <<todo, done, givenUp, pending, pc, expired>>
    BY <1>3 DEF loopVars, diskVars, Growing
  <2>2. QED BY <2>1, SettledStay DEF Inv
<1>4. QED BY <1>1, <1>2, <1>3 DEF Next, Collector, Environment, vars, collectVars

(* A run of gcp-cvm/collect.sh that ends before its deadline (line 25:     *)
(* nothing is pending) has every machine's archive on disk or has reported *)
(* the machine as without archive, whatever calls failed in between.       *)
THEOREM Settles == Spec => []FinishedSettled
<1>1. Init => SettledInv
  BY SettledInit DEF Init
<1>2. Inv /\ SettledInv => FinishedSettled
  BY SettledFinish DEF Inv
<1>3. QED BY <1>1, <1>2, SpecInv, NextSettled, PTL DEF Spec

LEMMA VisitKept ==
  ASSUME Inv, KeptInv, NEW v \in VMs, Visit(v)
  PROVE  KeptInv'
<1>1. CASE Fetch(v)
  <2>1. "fetched" \in Labels \ {"verified"}
    BY DEF Labels
  <2>2. (vm[v] # "deleted" /\ FetchOk(v, "fetched")) \/ FetchFails(v, "fetched")
    BY <1>1 DEF Fetch
  <2>3. QED BY <2>1, <2>2, FetchKept DEF Inv
<1>2. CASE DecodeVerified(v) \/ DecodeIncomplete(v)
  BY <1>2, ExtractKept DEF DecodeVerified, DecodeIncomplete, Inv
<1>3. CASE DeleteVM(v)
  BY <1>3, DeleteKept DEF DeleteVM, Inv
<1>4. CASE SkipDone(v) \/ NoEnd(v) \/ KeepVM(v) \/ Describe(v)
  <2>1. pc' \in {"visit", "silent"} /\ UNCHANGED <<consoleVars, diskVars>>
    BY <1>4 DEF SkipDone, NoEnd, KeepVM, Describe, Goto, SetDone, SetPending, GiveUp, NextLine
  <2>2. QED BY <2>1, MoveKept
<1>5. QED BY <1>1, <1>2, <1>3, <1>4 DEF Visit

LEMMA NextKept == Inv /\ KeptInv /\ [Next]_vars => KeptInv'
<1> SUFFICES ASSUME Inv, KeptInv, [Next]_vars PROVE KeptInv'
  OBVIOUS
<1>1. CASE \E v \in VMs : Visit(v)
  BY <1>1, VisitKept
<1>2. CASE ConsoleNext /\ UNCHANGED <<loopVars, diskVars, keep>>
  BY <1>2, ConsoleStepKept DEF Inv
<1>3. CASE Loop \/ DeadlinePasses \/ Start \/ UNCHANGED vars
  <2>1. UNCHANGED <<consoleVars, diskVars>> /\ (pc' # "verified" \/ UNCHANGED <<pc, todo>>)
    BY <1>3 DEF Loop, EndPass, DeadlinePasses, Start, RunAgain, vars, collectVars, loopVars
  <2>2. QED BY <2>1, MoveKept
<1>4. QED BY <1>1, <1>2, <1>3 DEF Next, Collector, Environment

(* No boot that a capture announces is lost: when a machine has been       *)
(* deleted, the archive of every full header of the capture on which the   *)
(* script decided is on disk (exit 0 "only after a SHA-256-verified        *)
(* extraction" of all stamps, decode_console.py line 4), for any damage    *)
(* and however often the machine came up again.                            *)
THEOREM BootsKept == Spec => []NoAnnouncedBootLost
<1>1. Init => KeptInv
  BY KeptInit DEF Init
<1>2. QED BY <1>1, KeptMeansNotLost, SpecInv, NextKept, PTL DEF Spec

\* Every step of the body archives a machine, deletes an archived one, or does neither.
LEMMA VisitPromise ==
  ASSUME Inv, NEW v \in VMs, Visit(v)
  PROVE  PromiseStep
<1>1. CASE DecodeVerified(v) \/ DecodeIncomplete(v)
  BY <1>1, ExtractPromise DEF DecodeVerified, DecodeIncomplete, Inv
<1>2. CASE DeleteVM(v)
  BY <1>2, DeletePromise DEF DeleteVM, Inv
<1>3. CASE SkipDone(v) \/ Fetch(v) \/ NoEnd(v) \/ KeepVM(v) \/ Describe(v)
  <2>1. UNCHANGED <<vm, got>>
    BY <1>3 DEF SkipDone, Fetch, FetchOk, FetchFails, NoEnd, KeepVM, Describe,
                consoleVars, diskVars
  <2>2. QED BY <2>1, PromiseStutter
<1>4. QED BY <1>1, <1>2, <1>3 DEF Visit

LEMMA NextPromise == Inv /\ [Next]_vars => PromiseStep
<1> SUFFICES ASSUME Inv, [Next]_vars PROVE PromiseStep
  OBVIOUS
<1>1. CASE \E v \in VMs : Visit(v)
  BY <1>1, VisitPromise
<1>2. CASE ConsoleNext /\ UNCHANGED <<loopVars, diskVars, keep>>
  BY <1>2, ConsolePromise DEF Inv
<1>3. CASE Loop \/ DeadlinePasses \/ Start \/ UNCHANGED vars
  <2>1. UNCHANGED <<vm, got>>
    BY <1>3 DEF Loop, EndPass, DeadlinePasses, Start, RunAgain, vars, collectVars,
                consoleVars, diskVars
  <2>2. QED BY <2>1, PromiseStutter
<1>4. QED BY <1>1, <1>2, <1>3 DEF Next, Collector, Environment

(* gcp-cvm/collect.sh implements ArchiveCollection: a machine is put on    *)
(* the archived side by its decoder, and only from there released.         *)
THEOREM Implements == Spec => KeepsPromise
<1>1. Init => Promise!Init
  BY DEF Init, ConsoleInit, LoopInit, Promise!Init
<1>2. QED
  BY <1>1, SpecInv, NextPromise, PTL
  DEF Spec, KeepsPromise, Promise!Spec, PromiseStep, Archived, Released
=============================================================================
