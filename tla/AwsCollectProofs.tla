-------------------------- MODULE AwsCollectProofs --------------------------
(***************************************************************************)
(* aws-vlek/collect.sh and aws-nitro/collect.sh for every launched.txt and *)
(* all constants.  The order in which the script asks and fetches differs  *)
(* from Google's; the invariant of the loop (LoopProofs) does not.         *)
(***************************************************************************)
EXTENDS AwsCollect, LoopProofs

\* The invariant of the loop; the answer of describe-instances is one it can give.
Inv == LoopInv /\ state \in VmStatus \cup {"unknown"}

LEMMA InitInv == Init => Inv
BY LoopInvInit DEF Init, Inv

\* The steps of the body of the loop, one by one.
LEMMA VisitInv ==
  ASSUME Inv, NEW v \in VMs, Visit(v)
  PROVE  Inv'
<1> USE DEF Inv
<1>1. CASE SkipDone(v) /\ UNCHANGED state
  BY <1>1, BookkeepingInv
<1>2. CASE DescribeInstances(v)
  <2>1. /\ At("visit", v) /\ Goto("described") /\ UNCHANGED <<consoleVars, diskVars>>
        /\ "described" \in Labels \ {"verified"}
    BY <1>2 DEF DescribeInstances, Labels
  <2>2. /\ pc' = "described" /\ todo' \in Seq(VMs) /\ todo' # <<>>
        /\ pending' \in Nat /\ done' \subseteq VMs /\ givenUp' \subseteq done'
        /\ expired' \in BOOLEAN /\ runs' \in 1 .. MaxRuns
    BY <2>1, ExitTypes
  <2>3. LoopInv'
    BY <2>1, <2>2, LoopMoveInv
  <2>4. vm[v] \in VmStatus
    BY DEF LoopInv, LoopTypeOK, ConsoleTypeOK
  <2>5. QED BY <1>2, <2>3, <2>4 DEF DescribeInstances
<1>3. CASE Fetch(v)
  <2>1. At("described", v) /\ UNCHANGED state /\ "fetched" \in Labels \ {"verified"}
    BY <1>3 DEF Fetch, Labels
  <2>2. FetchOk(v, "fetched") \/ FetchFails(v, "fetched")
    BY <1>3 DEF Fetch
  <2>3. QED BY <2>1, <2>2, FetchInv
<1>4. CASE DecodeVerified(v)
  BY <1>4, ExtractInv DEF DecodeVerified
<1>5. CASE DecodeIncomplete(v)
  BY <1>5, ExtractInv DEF DecodeIncomplete
<1>6. CASE Terminate(v)
  BY <1>6, DeleteInv DEF Terminate
<1>7. CASE EndedWithout(v) \/ Waiting(v)
  <2>1. /\ At("fetched", v)
        /\ SetPending(v) \/ GiveUp(v)
        /\ UNCHANGED <<consoleVars, diskVars, state>>
    BY <1>7 DEF EndedWithout, Waiting
  <2>2. /\ pc' = "visit" /\ todo' \in Seq(VMs) /\ pending' \in Nat
        /\ done' \subseteq VMs /\ givenUp' \subseteq done'
        /\ expired' \in BOOLEAN /\ runs' \in 1 .. MaxRuns
    BY <2>1, ExitTypes
  <2>3. QED BY <2>1, <2>2, LoopMoveInv DEF Labels
<1>8. QED BY <1>1, <1>2, <1>3, <1>4, <1>5, <1>6, <1>7 DEF Visit

LEMMA NextInv == Inv /\ [Next]_vars => Inv'
<1> SUFFICES ASSUME Inv, [Next]_vars PROVE Inv'
  OBVIOUS
<1>1. CASE Loop
  BY <1>1, BookkeepingInv DEF Loop, Inv
<1>2. CASE \E v \in VMs : Visit(v)
  BY <1>2, VisitInv
<1>3. CASE ConsoleNext /\ UNCHANGED <<loopVars, diskVars, state>>
  BY <1>3, ConsoleStepInv DEF Inv
<1>4. CASE DeadlinePasses /\ UNCHANGED state
  BY <1>4, BookkeepingInv DEF Inv
<1>5. CASE RunAgain /\ state' = "unknown"
  BY <1>5, BookkeepingInv DEF Inv
<1>6. CASE UNCHANGED vars
  <2>1. UNCHANGED <<consoleVars, loopVars, diskVars, state>>
    BY <1>6 DEF vars, collectVars
  <2>2. LoopTypeOK'
    BY <2>1 DEF Inv, LoopInv, LoopTypeOK, ConsoleTypeOK, consoleVars, loopVars, diskVars
  <2>3. (Provenance /\ ArchivesAuthentic /\ VerifiedHasArchive /\ DeletedHasArchive)'
    BY <2>1 DEF Inv, LoopInv, Provenance, ArchivesAuthentic, VerifiedHasArchive,
                DeletedHasArchive, consoleVars, loopVars, diskVars
  <2>4. QED BY <2>1, <2>2, <2>3 DEF Inv, LoopInv
<1>7. QED BY <1>1, <1>2, <1>3, <1>4, <1>5, <1>6 DEF Next, Collector, Environment

(* The invariant holds in every state the script and the instances reach.  *)
THEOREM SpecInv == Spec => []Inv
BY InitInv, NextInv, PTL DEF Spec

(* Type correctness of the collector's model.                              *)
THEOREM TypeCorrect == Spec => []TypeOK
<1>1. Inv => TypeOK
  BY DEF Inv, LoopInv, TypeOK
<1>2. QED BY <1>1, SpecInv, PTL

(* What is extracted from an instance's console is an archive it wrote.    *)
THEOREM Authentic == Spec => []ArchivesAuthentic
<1>1. Inv => ArchivesAuthentic
  BY DEF Inv, LoopInv
<1>2. QED BY <1>1, SpecInv, PTL

(* aws-vlek/collect.sh line 16: the instance is terminated "only after a   *)
(* verified extraction, never on a failed decode".                         *)
THEOREM DeletionSafe == Spec => []DeletedOnlyVerified
<1>1. Inv => DeletedOnlyVerified
  <2> SUFFICES ASSUME Inv, NEW v \in VMs \ Legacy, vm[v] = "deleted"
               PROVE  \E b \in 1 .. boot[v] : Payload(b) \in got[v]
    BY DEF DeletedOnlyVerified
  <2>1. got[v] # {} /\ got[v] \subseteq {Payload(b) : b \in 1 .. boot[v]}
    BY DEF Inv, LoopInv, ArchivesAuthentic, DeletedHasArchive
  <2>2. QED BY <2>1
<1>2. QED BY <1>1, SpecInv, PTL

\* No step takes an archive off the disk.
LEMMA VisitGrows ==
  ASSUME Inv, NEW v \in VMs, Visit(v)
  PROVE  Growing
<1>1. CASE DecodeVerified(v) \/ DecodeIncomplete(v)
  BY <1>1, ExtractInv DEF DecodeVerified, DecodeIncomplete, Inv, Growing
<1>2. CASE \/ SkipDone(v) \/ DescribeInstances(v) \/ Fetch(v)
          \/ Terminate(v) \/ EndedWithout(v) \/ Waiting(v)
  BY <1>2 DEF SkipDone, DescribeInstances, Fetch, FetchOk, FetchFails, Terminate, Delete,
              EndedWithout, Waiting, diskVars, Growing
<1>3. QED BY <1>1, <1>2 DEF Visit

\* Every step of the body settles the machine, counts it as pending, or stays with it.
LEMMA VisitSettled ==
  ASSUME Inv, SettledInv, NEW v \in VMs, Visit(v)
  PROVE  SettledInv'
<1>1. LoopInv /\ Growing
  BY VisitGrows DEF Inv
<1>2. CASE DescribeInstances(v) \/ Fetch(v) \/ DecodeVerified(v)
  <2>1. Goto("fetched") \/ Goto("verified") \/ Goto("described")
    BY <1>2 DEF DescribeInstances, Fetch, FetchOk, FetchFails, DecodeVerified
  <2>2. UNCHANGED <<todo, done, givenUp, pending, expired>> /\ pc' # "finished"
    BY <2>1 DEF Goto
  <2>3. QED BY <1>1, <2>2, SettledStay
<1>3. CASE Terminate(v)
  <2>1. At("verified", v) /\ SetDone(v)
    BY <1>3 DEF Terminate
  <2>2. got[v] # {}
    BY <1>1, <2>1 DEF LoopInv, VerifiedHasArchive, At
  <2>3. QED BY <1>1, <2>1, <2>2, SettledNextLine
<1>4. CASE SkipDone(v) \/ DecodeIncomplete(v) \/ EndedWithout(v) \/ Waiting(v)
  <2>1. /\ At("visit", v) \/ At("fetched", v)
        /\ GiveUp(v) \/ SetPending(v) \/ SkipDone(v)
    BY <1>4 DEF SkipDone, DecodeIncomplete, EndedWithout, Waiting
  <2>2. QED BY <1>1, <2>1, SettledNextLine
<1>5. QED BY <1>2, <1>3, <1>4 DEF Visit

LEMMA NextSettled == Inv /\ SettledInv /\ [Next]_vars => SettledInv'
<1> SUFFICES ASSUME Inv, SettledInv, [Next]_vars PROVE SettledInv'
  OBVIOUS
<1>1. CASE \E v \in VMs : Visit(v)
  BY <1>1, VisitSettled
<1>2. CASE Loop \/ DeadlinePasses \/ RunAgain
  BY <1>2, SettledBookkeeping DEF Loop, Inv
<1>3. CASE UNCHANGED <<loopVars, diskVars>>
  <2>1. Growing /\ UNCHANGED <<todo, done, givenUp, pending, pc, expired>>
    BY <1>3 DEF loopVars, diskVars, Growing
  <2>2. QED BY <2>1, SettledStay DEF Inv
<1>4. QED BY <1>1, <1>2, <1>3 DEF Next, Collector, Environment, vars, collectVars

(* A run of aws-vlek/collect.sh that ends before its deadline (line 30:    *)
(* nothing is pending) has every machine's archive on disk or has reported *)
(* the machine as without archive, whatever calls failed in between.       *)
THEOREM Settles == Spec => []FinishedSettled
<1>1. Init => SettledInv
  BY SettledInit DEF Init
<1>2. Inv /\ SettledInv => FinishedSettled
  BY SettledFinish DEF Inv
<1>3. QED BY <1>1, <1>2, SpecInv, NextSettled, PTL DEF Spec

\* Every step of the body archives an instance, terminates an archived one, or does neither.
LEMMA VisitPromise ==
  ASSUME Inv, NEW v \in VMs, Visit(v)
  PROVE  PromiseStep
<1>1. CASE DecodeVerified(v) \/ DecodeIncomplete(v)
  BY <1>1, ExtractPromise DEF DecodeVerified, DecodeIncomplete, Inv
<1>2. CASE Terminate(v)
  BY <1>2, DeletePromise DEF Terminate, Inv
<1>3. CASE SkipDone(v) \/ DescribeInstances(v) \/ Fetch(v) \/ EndedWithout(v) \/ Waiting(v)
  <2>1. UNCHANGED <<vm, got>>
    BY <1>3 DEF SkipDone, DescribeInstances, Fetch, FetchOk, FetchFails, EndedWithout,
                Waiting, consoleVars, diskVars
  <2>2. QED BY <2>1, PromiseStutter
<1>4. QED BY <1>1, <1>2, <1>3 DEF Visit

LEMMA NextPromise == Inv /\ [Next]_vars => PromiseStep
<1> SUFFICES ASSUME Inv, [Next]_vars PROVE PromiseStep
  OBVIOUS
<1>1. CASE \E v \in VMs : Visit(v)
  BY <1>1, VisitPromise
<1>2. CASE ConsoleNext /\ UNCHANGED <<loopVars, diskVars, state>>
  BY <1>2, ConsolePromise DEF Inv
<1>3. CASE Loop \/ DeadlinePasses \/ RunAgain \/ UNCHANGED vars
  <2>1. UNCHANGED <<vm, got>>
    BY <1>3 DEF Loop, EndPass, DeadlinePasses, RunAgain, vars, collectVars,
                consoleVars, diskVars
  <2>2. QED BY <2>1, PromiseStutter
<1>4. QED BY <1>1, <1>2, <1>3 DEF Next, Collector, Environment

(* aws-vlek/collect.sh implements ArchiveCollection.                       *)
THEOREM Implements == Spec => KeepsPromise
<1>1. Init => Promise!Init
  BY DEF Init, ConsoleInit, LoopInit, Promise!Init
<1>2. QED
  BY <1>1, SpecInv, NextPromise, PTL
  DEF Spec, KeepsPromise, Promise!Spec, PromiseStep, Archived, Released
-----------------------------------------------------------------------------
(* Who is given up.  The state is asked for before the console is fetched, *)
(* so an instance that no longer ran when the script asked has printed all *)
(* it ever will by the time the console is read.                           *)

\* What the script was told of the instance at the head of its list.
Ended == state \in {"stopped", "deleted"}

\* Its archive is on disk, or it has none and can print none any more.
NothingLeft(v) == got[v] # {} \/ (vm[v] # "running" /\ ~HasEnd(console[v]))

\* What was true when the script was told stays true until it gives up.
GivenUpInv ==
  /\ \A v \in givenUp : NothingLeft(v)
  /\ pc \in {"described", "fetched"} /\ Ended => vm[Head(todo)] # "running"
  /\ pc = "fetched" /\ Ended =>
       got[Head(todo)] # {} \/ file[Head(todo)] = console[Head(todo)]

\* What a step of the script that fetches nothing has to show.
LEMMA ScriptGivenUp ==
  ASSUME GivenUpInv, \A w \in VMs : got[w] \subseteq got'[w], UNCHANGED console,
         \A w \in VMs : vm'[w] = "running" => vm[w] = "running",
         givenUp' \subseteq VMs, \A w \in givenUp' : w \in givenUp \/ NothingLeft(w),
         pc' \in {"visit", "verified", "finished"}
  PROVE  GivenUpInv'
<1>1. ASSUME NEW w \in givenUp' PROVE NothingLeft(w)'
  <2>1. NothingLeft(w) /\ w \in VMs
    BY <1>1 DEF GivenUpInv
  <2>2. QED BY <2>1 DEF NothingLeft
<1>2. QED BY <1>1 DEF GivenUpInv

LEMMA VisitGivenUp ==
  ASSUME "fetch" \notin Faults, Inv, GivenUpInv, NEW v \in VMs, Visit(v)
  PROVE  GivenUpInv'
<1>0. /\ givenUp \subseteq VMs /\ file \in [VMs -> Seq(Token)]
      /\ vm \in [VMs -> VmStatus] /\ got \in [VMs -> SUBSET [Lines -> Int]]
  BY DEF Inv, LoopInv, LoopTypeOK, ConsoleTypeOK
<1>1. CASE SkipDone(v) \/ Waiting(v)
  <2>1. /\ UNCHANGED <<consoleVars, diskVars, givenUp>> /\ pc' = "visit"
    BY <1>1 DEF SkipDone, Waiting, SetPending, NextLine
  <2>2. QED BY <1>0, <2>1, ScriptGivenUp DEF consoleVars, diskVars
<1>2. CASE DescribeInstances(v)
  <2>1. /\ UNCHANGED <<consoleVars, diskVars, givenUp, todo>> /\ pc' = "described"
        /\ v = Head(todo) /\ (state' = vm[v] \/ state' = "unknown")
    BY <1>2 DEF DescribeInstances, Goto, At
  <2>2. QED BY <2>1 DEF GivenUpInv, NothingLeft, Ended, consoleVars, diskVars
<1>3. CASE Fetch(v)
  <2>1. /\ UNCHANGED <<consoleVars, got, state, givenUp, todo>> /\ pc' = "fetched"
        /\ v = Head(todo) /\ pc = "described"
    BY <1>3 DEF Fetch, FetchOk, FetchFails, Goto, At
  <2>2. file'[v] = console[v] \/ vm[v] = "deleted"
    BY <1>0, <1>3 DEF Fetch, FetchOk, FetchFails
  <2>3. file'[v] = console[v] \/ got[v] # {}
    BY <2>2 DEF Inv, LoopInv, DeletedHasArchive
  <2>4. QED BY <2>1, <2>3 DEF GivenUpInv, NothingLeft, Ended, consoleVars
<1>4. CASE DecodeVerified(v) \/ DecodeIncomplete(v)
  <2>1. /\ \A w \in VMs : got[w] \subseteq got'[w]
        /\ UNCHANGED <<consoleVars, givenUp>> /\ pc' \in {"visit", "verified"}
    BY <1>0, <1>4 DEF DecodeVerified, DecodeIncomplete, Extract, Goto, SetPending, NextLine
  <2>2. QED BY <1>0, <2>1, ScriptGivenUp DEF consoleVars
<1>5. CASE Terminate(v)
  <2>1. /\ UNCHANGED <<console, got, givenUp>> /\ pc' = "visit"
        /\ vm' = vm \/ vm' = [vm EXCEPT ![v] = "deleted"]
    BY <1>5 DEF Terminate, Delete, SetDone, NextLine, diskVars
  <2>2. \A w \in VMs : vm'[w] = "running" => vm[w] = "running"
    BY <1>0, <2>1
  <2>3. QED BY <1>0, <2>1, <2>2, ScriptGivenUp
<1>6. CASE EndedWithout(v)
  <2>1. /\ UNCHANGED <<consoleVars, diskVars>> /\ pc' = "visit"
        /\ givenUp' = givenUp \cup {v}
        /\ pc = "fetched" /\ v = Head(todo) /\ Ended /\ ~HasEnd(file[v])
    BY <1>6 DEF EndedWithout, GiveUp, NextLine, At, Ended
  <2>2. NothingLeft(v)
    BY <2>1 DEF GivenUpInv, NothingLeft
  <2>3. QED BY <1>0, <2>1, <2>2, ScriptGivenUp DEF consoleVars, diskVars
<1>7. QED BY <1>1, <1>2, <1>3, <1>4, <1>5, <1>6 DEF Visit

\* An instance that no longer runs prints nothing, and does not come up again.
LEMMA ConsoleGivenUp ==
  ASSUME MaxBoots = 1, Inv, GivenUpInv, ConsoleNext, UNCHANGED <<loopVars, diskVars, state>>
  PROVE  GivenUpInv'
<1>0. /\ vm \in [VMs -> VmStatus] /\ console \in [VMs -> Seq(Token)]
      /\ \A v \in VMs : boot[v] \in 1 .. 1
  BY DEF Inv, LoopInv, LoopTypeOK, ConsoleTypeOK, Boots
<1>1. PICK v \in VMs : PrintIntact(v) \/ PrintSpoiled(v) \/ Stop(v) \/ Restart(v)
  BY DEF ConsoleNext
<1>2. ~Restart(v)
  BY <1>0 DEF Restart
<1>3. \/ vm[v] = "running" /\ vm' = vm /\ \E t : console' = [console EXCEPT ![v] = Append(@, t)]
      \/ vm' = [vm EXCEPT ![v] = "stopped"] /\ console' = console
  BY <1>1, <1>2 DEF PrintIntact, PrintSpoiled, Emit, Stop
<1>4. \A w \in VMs : vm[w] # "running" => vm'[w] # "running" /\ console'[w] = console[w]
  BY <1>0, <1>3
<1>5. /\ UNCHANGED <<pc, todo, givenUp, file, got, state>> /\ givenUp \subseteq VMs
      /\ pc \in {"described", "fetched"} => Head(todo) \in VMs
  BY DEF Inv, LoopInv, LoopTypeOK, loopVars, diskVars
<1>6. QED BY <1>4, <1>5 DEF GivenUpInv, NothingLeft, Ended

LEMMA NextGivenUp ==
  ASSUME "fetch" \notin Faults, MaxBoots = 1
  PROVE  Inv /\ GivenUpInv /\ [Next]_vars => GivenUpInv'
<1> SUFFICES ASSUME Inv, GivenUpInv, [Next]_vars PROVE GivenUpInv'
  OBVIOUS
<1>0. givenUp \subseteq VMs
  BY DEF Inv, LoopInv, LoopTypeOK
<1>1. CASE \E v \in VMs : Visit(v)
  BY <1>1, VisitGivenUp
<1>2. CASE ConsoleNext /\ UNCHANGED <<loopVars, diskVars, state>>
  BY <1>2, ConsoleGivenUp
<1>3. CASE Loop
  <2>1. UNCHANGED <<consoleVars, diskVars, givenUp>> /\ pc' \in {"visit", "finished"}
    BY <1>3 DEF Loop, EndPass
  <2>2. QED BY <1>0, <2>1, ScriptGivenUp DEF consoleVars, diskVars
<1>4. CASE RunAgain
  <2>1. UNCHANGED <<consoleVars, diskVars>> /\ pc' = "visit" /\ givenUp' = {}
    BY <1>4 DEF RunAgain
  <2>2. QED BY <1>0, <2>1, ScriptGivenUp DEF consoleVars, diskVars
<1>5. CASE (DeadlinePasses /\ UNCHANGED state) \/ UNCHANGED vars
  <2>1. UNCHANGED <<consoleVars, diskVars, pc, todo, givenUp, state>>
    BY <1>5 DEF DeadlinePasses, vars, collectVars, loopVars
  <2>2. QED BY <2>1 DEF GivenUpInv, NothingLeft, Ended, consoleVars, diskVars
<1>6. QED BY <1>1, <1>2, <1>3, <1>4, <1>5 DEF Next, Collector, Environment

(* An instance reported as stopped or terminated "without a probe archive" *)
(* (line 22) had none to give, because the script asks for the state       *)
(* before it reads the console; as long as no read fails, and no instance  *)
(* that was stopped is started again.  Both hypotheses are needed: README. *)
THEOREM GivenUpRightly ==
  ASSUME "fetch" \notin Faults, MaxBoots = 1
  PROVE  Spec => []GivenUpHadNothing
<1>1. Init => GivenUpInv
  BY DEF Init, ConsoleInit, LoopInit, GivenUpInv
<1>2. Inv /\ GivenUpInv => GivenUpHadNothing
  BY DEF GivenUpInv, NothingLeft, GivenUpHadNothing
<1>3. QED BY <1>1, <1>2, SpecInv, NextGivenUp, PTL DEF Spec
=============================================================================
