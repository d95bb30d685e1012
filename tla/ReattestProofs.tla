--------------------------- MODULE ReattestProofs ---------------------------
(***************************************************************************)
(* gcp-cvm/reattest.sh for any number of lines, copies, spoiled tokens and *)
(* turns of a wait, whatever calls fail and whenever the platform stops    *)
(* the machine or starts it again.  The safety theorems ask for a fresh    *)
(* output directory, Leftover = 0; with directories of an earlier run they *)
(* are false (the run reattest_leftover).                                  *)
(***************************************************************************)
EXTENDS Reattest, ConsoleProofs

-----------------------------------------------------------------------------
(* Types. *)

\* A wait that goes on has a turn left.
TypeInv == TypeOK /\ (pc \in {"fetch", "look"} => tries < MaxTries)

\* The steps of the machine alone: its console, its probe, its boots.
LEMMA MachineConsole ==
  ASSUME ConsoleTypeOK, Machine
  PROVE  /\ ConsoleTypeOK' /\ boot'[NAME] >= boot[NAME]
         /\ vm'[NAME] = "deleted" => vm[NAME] = "deleted"
<1>1. NAME \in VMs /\ boot \in [VMs -> Nat] /\ vm \in [VMs -> VmStatus]
  BY ReattestAssumption DEF ConsoleTypeOK, Boots
<1>2. CASE PrintIntact(NAME) \/ PrintSpoiled(NAME)
  <2>1. PICK t \in Token : Emit(NAME, t) /\ spoiled' \in 0 .. MaxSpoiled
    BY <1>1, <1>2, PrintStep
  <2>2. ConsoleTypeOK'
    BY <1>1, <2>1, EmitType
  <2>3. vm' = vm /\ boot' = boot
    BY <2>1 DEF Emit
  <2>4. QED BY <1>1, <2>2, <2>3
<1>3. CASE Stop(NAME)
  <2>1. ConsoleTypeOK'
    BY <1>1, <1>3, StopType
  <2>2. boot' = boot /\ vm' = [vm EXCEPT ![NAME] = "stopped"]
    BY <1>3 DEF Stop
  <2>3. vm'[NAME] = "stopped"
    BY <1>1, <2>2
  <2>4. QED BY <1>1, <2>1, <2>2, <2>3
<1>4. CASE ProbeDone
  <2>1. spoiled' \in 0 .. MaxSpoiled
    BY <1>4, ConsoleAssumption DEF ProbeDone, ConsoleTypeOK
  <2>2. QED BY <1>1, <1>4, <2>1 DEF ProbeDone, ConsoleTypeOK
<1>5. CASE PlatformRestart
  <2>1. Restart(NAME)
    BY <1>5 DEF PlatformRestart
  <2>2. ConsoleTypeOK'
    BY <1>1, <2>1, RestartType
  <2>3. boot' = [boot EXCEPT ![NAME] = @ + 1] /\ vm' = [vm EXCEPT ![NAME] = "running"]
    BY <2>1 DEF Restart
  <2>4. boot'[NAME] = boot[NAME] + 1 /\ vm'[NAME] = "running"
    BY <1>1, <2>3
  <2>5. boot'[NAME] >= boot[NAME]
    BY <1>1, <2>4
  <2>6. QED BY <2>2, <2>4, <2>5
<1>6. QED BY <1>2, <1>3, <1>4, <1>5 DEF Machine

LEMMA InitTypes == Init => TypeInv
<1> SUFFICES ASSUME Init PROVE TypeInv
  OBVIOUS
<1> USE DEF Init
<1>1. ConsoleTypeOK
  BY ConsoleInitType
<1>2. capture \in Seq(Token) /\ tries \in 0 .. MaxTries /\ tries < MaxTries
  BY ReattestAssumption
<1>3. QED BY <1>1, <1>2 DEF TypeInv, TypeOK

LEMMA StepTypes == TypeInv /\ [Next]_vars => TypeInv'
<1> SUFFICES ASSUME TypeInv, [Next]_vars PROVE TypeInv'
  OBVIOUS
<1> USE DEF TypeInv, TypeOK
<1>0. MaxTries \in Nat \ {0} /\ NAME \in VMs
  BY ReattestAssumption
<1>1. CASE Machine
  <2>1. ConsoleTypeOK'
    BY <1>1, MachineConsole
  <2>2. told' \in BOOLEAN /\ signalled' \in BOOLEAN /\ UNCHANGED scriptVars
    BY <1>1 DEF Machine, ProbeDone, PlatformRestart, probeVars
  <2>3. QED BY <2>1, <2>2 DEF scriptVars
<1>2. CASE Fetch
  <2>1. ConsoleTypeOK'
    BY <1>2 DEF Fetch, consoleVars, ConsoleTypeOK
  <2>2. capture' \in Seq(Token) /\ heard' \in BOOLEAN
    <3>1. console[NAME] \in Seq(Token) /\ <<>> \in Seq(Token)
      BY <1>0 DEF ConsoleTypeOK
    <3>2. \/ capture' = console[NAME] /\ heard' = signalled
          \/ capture' = <<>> /\ heard' = FALSE
      BY <1>2, Zenon DEF Fetch
    <3>3. QED BY <3>1, <3>2
  <2>3. QED BY <1>2, <2>1, <2>2 DEF Fetch, probeVars
<1>3. CASE Arrived
  <2>1. ConsoleTypeOK'
    BY <1>3 DEF Arrived, consoleVars, ConsoleTypeOK
  <2>2. got' \subseteq [Lines -> Int]
    BY <1>3, ExtractedType DEF Arrived
  <2>3. QED BY <1>3, <2>1, <2>2 DEF Arrived, probeVars
<1>4. CASE Sleep
  <2>1. ConsoleTypeOK'
    BY <1>4 DEF Sleep, consoleVars, ConsoleTypeOK
  <2>2. got' \subseteq [Lines -> Int]
    BY <1>4, ExtractedType DEF Sleep
  <2>3. tries' \in 0 .. MaxTries /\ (pc' \in {"fetch", "look"} => tries' < MaxTries)
    BY <1>0, <1>4 DEF Sleep
  <2>4. pc' \in {"fetch", "exit"}
    BY <1>4 DEF Sleep
  <2>5. QED BY <1>4, <2>1, <2>2, <2>3, <2>4 DEF Sleep, probeVars
<1>5. CASE StopMachine \/ DeleteMachine
  <2>1. ConsoleTypeOK'
    BY <1>5 DEF StopMachine, DeleteMachine, ConsoleTypeOK, VmStatus
  <2>2. QED BY <1>5, <2>1 DEF StopMachine, DeleteMachine, probeVars
<1>6. CASE StartMachine
  <2>1. CASE Restart(NAME) /\ told' = FALSE
    <3>1. ConsoleTypeOK'
      BY <1>0, <2>1, RestartType
    <3>2. UNCHANGED <<signalled, capture, heard, got>> /\ pc' = "fetch"
          /\ expected' = 2 /\ tries' = 0
      BY <1>6 DEF StartMachine
    <3>3. told' \in BOOLEAN /\ signalled' \in BOOLEAN /\ heard' \in BOOLEAN
      <4>1. told' = FALSE
        BY <2>1
      <4>2. QED BY <3>2, <4>1
    <3>4. QED BY <1>0, <3>1, <3>2, <3>3
  <2>2. CASE UNCHANGED <<consoleVars, told>>
    <3>1. ConsoleTypeOK'
      BY <2>2 DEF consoleVars, ConsoleTypeOK
    <3>2. UNCHANGED <<signalled, capture, heard, got>> /\ pc' = "fetch"
          /\ expected' = 2 /\ tries' = 0
      BY <1>6 DEF StartMachine
    <3>3. QED BY <1>0, <2>2, <3>1, <3>2
  <2>3. QED BY <1>6, <2>1, <2>2 DEF StartMachine
<1>7. CASE UNCHANGED vars
  <2>1. ConsoleTypeOK'
    BY <1>7 DEF vars, consoleVars, ConsoleTypeOK
  <2>2. QED BY <1>7, <2>1 DEF vars, probeVars, scriptVars
<1>8. QED BY <1>1, <1>2, <1>3, <1>4, <1>5, <1>6, <1>7 DEF Next, Orchestrator

(* The variables of the script and of the machine have their types, and a  *)
(* wait takes MaxTries turns at most (for i in $(seq 1 40)), whatever is   *)
(* left in the output directory.                                           *)
THEOREM TypeCorrect == Spec => []TypeOK
<1>1. TypeInv => TypeOK
  BY DEF TypeInv
<1>2. QED BY <1>1, InitTypes, StepTypes, PTL DEF Spec

-----------------------------------------------------------------------------
(* What has been archived. *)

\* Console and capture carry what the machine's own boots announced.
OwnText ==
  /\ GenuineText(console[NAME], boot[NAME], FALSE)
  /\ GenuineText(capture, boot[NAME], FALSE)

\* The output directory, fresh at the start, holds archives of its boots only.
OwnArchives == got \subseteq {Payload(b) : b \in 1 .. boot[NAME]}

\* Which wait the script is past.
Phase ==
  /\ pc \in {"stop", "start"} => expected = 1
  /\ pc = "delete" => expected = 2

\* Two archives of different boots are on disk.
TwoBoots == \E b, c \in 1 .. boot[NAME] : b # c /\ {Payload(b), Payload(c)} \subseteq got

\* An archive is on disk from the end of the first wait on, two from the end of the second.
FirstArchived == pc \in {"stop", "start"} => got # {}
BothArchived == pc = "delete" \/ vm[NAME] = "deleted" => TwoBoots

\* The deletion ends the script.
DeletedLast == vm[NAME] = "deleted" => pc = "exit"

\* The inductive invariant of the script, with a fresh directory.
ScriptInv == OwnText /\ OwnArchives /\ Phase /\ FirstArchived /\ BothArchived /\ DeletedLast

LEMMA InitScript == Init => ScriptInv
<1> SUFFICES ASSUME Init PROVE ScriptInv
  OBVIOUS
<1>1. NAME \in VMs
  BY ReattestAssumption
<1>2. boot[NAME] = 1 /\ vm[NAME] = "running" /\ console[NAME] = <<>>
  BY <1>1 DEF Init, ConsoleInit
<1>3. QED
  BY <1>2 DEF Init, ScriptInv, OwnText, OwnArchives, Phase, FirstArchived, BothArchived,
              DeletedLast, GenuineText

(* What the count of a wait amounts to in a fresh directory, where all     *)
(* archives are of boots of this machine: one archive, or two of two boots *)
(* (an archive has one directory, however often it is extracted).          *)
LEMMA EnoughMeans ==
  ASSUME Leftover = 0, NEW n \in Nat, NEW S, S \subseteq {Payload(b) : b \in 1 .. n}, Enough(S)
  PROVE  /\ expected = 1 => S # {}
         /\ expected = 2 => \E b, c \in 1 .. n : b # c /\ {Payload(b), Payload(c)} \subseteq S
<1>1. Cardinality(S) + 0 >= expected
  BY DEF Enough
<1>2. Cardinality({}) = 0 /\ \A x : Cardinality({x}) = 1
  BY FS_EmptySet, FS_Singleton
<1>3. CASE expected = 1
  BY <1>1, <1>2, <1>3
<1>4. CASE expected = 2
  <2>1. S # {}
    BY <1>1, <1>2, <1>4
  <2>2. PICK b \in 1 .. n : Payload(b) \in S
    BY <2>1
  <2>3. S # {Payload(b)}
    <3>1. SUFFICES ASSUME S = {Payload(b)} PROVE FALSE
      OBVIOUS
    <3>2. Cardinality(S) = 1
      BY <1>2, <3>1
    <3>3. QED BY <1>1, <1>4, <3>2
  <2>4. PICK c \in 1 .. n : Payload(c) \in S /\ Payload(c) # Payload(b)
    BY <2>2, <2>3
  <2>5. b # c /\ {Payload(b), Payload(c)} \subseteq S
    BY <2>2, <2>4
  <2>6. QED BY <1>4, <2>5
<1>5. QED BY <1>3, <1>4

\* What is true of some boots is true of more.
LEMMA TwoBootsStay ==
  ASSUME TwoBoots, boot[NAME] \in Nat, boot'[NAME] \in Nat, boot'[NAME] >= boot[NAME], got \subseteq got'
  PROVE  TwoBoots'
<1>1. PICK b, c \in 1 .. boot[NAME] : b # c /\ {Payload(b), Payload(c)} \subseteq got
  BY DEF TwoBoots
<1>2. b \in 1 .. boot'[NAME] /\ c \in 1 .. boot'[NAME] /\ {Payload(b), Payload(c)} \subseteq got'
  BY <1>1
<1>3. QED BY <1>1, <1>2 DEF TwoBoots

\* A capture or a directory stays the machine's own when it comes up once more.
LEMMA MoreBootsOwn ==
  ASSUME boot[NAME] \in Nat, boot'[NAME] \in Nat, boot'[NAME] >= boot[NAME], OwnText, OwnArchives
  PROVE  /\ GenuineText(console[NAME], boot'[NAME], FALSE) /\ GenuineText(capture, boot'[NAME], FALSE)
         /\ got \subseteq {Payload(b) : b \in 1 .. boot'[NAME]}
<1>1. 1 .. boot[NAME] \subseteq 1 .. boot'[NAME]
  OBVIOUS
<1>2. QED BY <1>1 DEF OwnText, OwnArchives, GenuineText

LEMMA StepScript ==
  ASSUME Leftover = 0, TypeInv, ScriptInv, [Next]_vars
  PROVE  ScriptInv'
<1> USE DEF ScriptInv
<1>0. /\ NAME \in VMs /\ NAME \notin Legacy
      /\ boot[NAME] \in Nat /\ expected \in {1, 2} /\ ConsoleTypeOK
      /\ console[NAME] \in Seq(Token)
  BY ReattestAssumption DEF TypeInv, TypeOK, ConsoleTypeOK, Boots
<1>1. CASE Machine
  <2>1. /\ boot'[NAME] \in Nat /\ boot'[NAME] >= boot[NAME] /\ UNCHANGED scriptVars
        /\ vm'[NAME] = "deleted" => vm[NAME] = "deleted"
    <3>1. ConsoleTypeOK'
      BY <1>0, <1>1, MachineConsole
    <3>2. boot'[NAME] \in Nat
      BY <1>0, <3>1 DEF ConsoleTypeOK, Boots
    <3>3. QED BY <1>0, <1>1, <3>2, MachineConsole DEF Machine, ProbeDone, PlatformRestart
  <2>2. GenuineText(console'[NAME], boot'[NAME], FALSE)
    <3>1. CASE PrintIntact(NAME) \/ PrintSpoiled(NAME)
      <4>1. PICK t \in Token : /\ GenuineText(<<t>>, boot[NAME], FALSE)
                               /\ Emit(NAME, t) /\ spoiled' \in 0 .. MaxSpoiled
        <5>1. (NAME \in Legacy) = FALSE
          BY <1>0
        <5>2. QED BY <1>0, <3>1, <5>1, PrintStep
      <4>2. GenuineText(Append(console[NAME], t), boot[NAME], FALSE)
        BY <1>0, <4>1, AppendGenuine DEF OwnText
      <4>3. QED BY <1>0, <4>1, <4>2, EmitType
    <3>2. CASE Stop(NAME) \/ ProbeDone
      BY <3>2 DEF Stop, ProbeDone, OwnText
    <3>3. CASE PlatformRestart
      BY <1>0, <2>1, <3>3, MoreBootsOwn DEF PlatformRestart, Restart
    <3>4. QED BY <1>1, <3>1, <3>2, <3>3 DEF Machine
  <2>3. OwnText' /\ OwnArchives'
    BY <1>0, <2>1, <2>2, MoreBootsOwn DEF OwnText, OwnArchives, scriptVars
  <2>4. BothArchived'
    BY <1>0, <2>1, TwoBootsStay DEF BothArchived, scriptVars
  <2>5. QED BY <2>1, <2>3, <2>4 DEF Phase, FirstArchived, DeletedLast, scriptVars
<1>2. CASE Fetch
  <2>1. capture' = console[NAME] \/ capture' = <<>>
    BY <1>2 DEF Fetch
  <2>2. OwnText'
    BY <1>2, <2>1 DEF OwnText, Fetch, consoleVars, GenuineText
  <2>3. QED
    BY <1>2, <2>2 DEF Fetch, consoleVars, OwnArchives, Phase, FirstArchived, BothArchived, TwoBoots,
                      DeletedLast
<1>3. CASE Arrived
  <2>1. Extracted(capture) \subseteq {Payload(b) : b \in 1 .. boot[NAME]}
    BY <1>0, ExtractedGenuine DEF OwnText
  <2>2. /\ UNCHANGED <<vm, boot, console, capture, expected>> /\ pc = "look"
        /\ pc' = (IF expected = 1 THEN "stop" ELSE "delete")
        /\ got' \subseteq {Payload(b) : b \in 1 .. boot[NAME]} /\ Enough(got')
    BY <1>3, <2>1 DEF Arrived, OwnArchives, consoleVars
  <2>3. /\ expected = 1 => got' # {}
        /\ expected = 2 => \E b, c \in 1 .. boot[NAME] : b # c /\ {Payload(b), Payload(c)} \subseteq got'
    BY <1>0, <2>2, EnoughMeans
  <2>4. expected = 2 => TwoBoots'
    BY <2>2, <2>3 DEF TwoBoots
  <2>5. vm[NAME] # "deleted"
    BY <2>2 DEF DeletedLast
  <2>6. QED
    BY <1>0, <2>2, <2>3, <2>4, <2>5
    DEF OwnText, OwnArchives, Phase, FirstArchived, BothArchived, DeletedLast
<1>4. CASE Sleep
  <2>1. Extracted(capture) \subseteq {Payload(b) : b \in 1 .. boot[NAME]}
    BY <1>0, ExtractedGenuine DEF OwnText
  <2>2. got \subseteq got' /\ got' \subseteq got \cup Extracted(capture)
    BY <1>4 DEF Sleep
  <2>3. /\ UNCHANGED <<vm, boot, console, capture, expected>>
        /\ pc = "look" /\ pc' \in {"fetch", "exit"}
    BY <1>4 DEF Sleep, consoleVars
  <2>4. QED
    BY <2>1, <2>2, <2>3 DEF OwnText, OwnArchives, Phase, FirstArchived, BothArchived,
                            DeletedLast
<1>5. CASE StopMachine
  <2>1. /\ UNCHANGED <<boot, console, capture, expected, got>> /\ pc = "stop" /\ pc' = "start"
    BY <1>5 DEF StopMachine
  <2>2. vm[NAME] # "deleted" /\ vm'[NAME] # "deleted"
    BY <1>0, <1>5, <2>1 DEF StopMachine, DeletedLast, ConsoleTypeOK
  <2>3. QED
    BY <2>1, <2>2 DEF OwnText, OwnArchives, Phase, FirstArchived, BothArchived, DeletedLast
<1>6. CASE StartMachine
  <2>1. /\ UNCHANGED <<capture, got>> /\ pc = "start" /\ pc' = "fetch"
    BY <1>6 DEF StartMachine
  <2>2. /\ console' = console /\ boot'[NAME] \in Nat /\ boot'[NAME] >= boot[NAME]
        /\ vm'[NAME] # "deleted"
    <3>1. CASE Restart(NAME)
      <4>1. console' = console /\ boot'[NAME] = boot[NAME] + 1
        BY <1>0, <3>1, RestartType
      <4>2. vm'[NAME] = "running"
        BY <1>0, <3>1 DEF Restart, ConsoleTypeOK
      <4>3. QED BY <1>0, <4>1, <4>2
    <3>2. CASE UNCHANGED consoleVars
      BY <1>0, <2>1, <3>2 DEF consoleVars, DeletedLast
    <3>3. QED BY <1>6, <3>1, <3>2 DEF StartMachine
  <2>3. OwnText' /\ OwnArchives'
    BY <1>0, <2>1, <2>2, MoreBootsOwn DEF OwnText, OwnArchives
  <2>4. QED BY <2>1, <2>2, <2>3 DEF Phase, FirstArchived, BothArchived, DeletedLast
<1>7. CASE DeleteMachine
  <2>1. UNCHANGED <<boot, console, capture, expected, got>> /\ pc = "delete" /\ pc' = "exit"
    BY <1>7 DEF DeleteMachine
  <2>2. QED
    BY <2>1 DEF OwnText, OwnArchives, Phase, FirstArchived, BothArchived, TwoBoots, DeletedLast
<1>8. CASE UNCHANGED vars
  BY <1>8 DEF vars, consoleVars, scriptVars, OwnText, OwnArchives, Phase, FirstArchived,
              BothArchived, TwoBoots, DeletedLast
<1>9. QED BY <1>1, <1>2, <1>3, <1>4, <1>5, <1>6, <1>7, <1>8 DEF Next, Orchestrator

LEMMA SpecInv ==
  ASSUME Leftover = 0
  PROVE  Spec => [](TypeInv /\ ScriptInv)
<1>1. TypeInv /\ ScriptInv /\ [Next]_vars => ScriptInv'
  BY StepScript
<1>2. QED BY <1>1, InitTypes, StepTypes, InitScript, PTL DEF Spec

-----------------------------------------------------------------------------

(* reattest.sh lines 3-4, "Nothing is deleted before both archives have    *)
(* been reassembled and SHA-256-verified": a deleted machine has the       *)
(* archives of two of its boots on disk.                                   *)
THEOREM DeletionAfterBoth ==
  ASSUME Leftover = 0
  PROVE  Spec => []BothArchivesVerified
<1>1. TypeInv /\ ScriptInv => BothArchivesVerified
  BY DEF ScriptInv, BothArchived, TwoBoots, BothArchivesVerified
<1>2. QED BY <1>1, SpecInv, PTL

(* The second wait needs a second boot: a start that failed unnoticed      *)
(* (line 20 drops its answer) does not lead to the deletion of a machine   *)
(* that has come up once.                                                  *)
THEOREM DeletionAfterRestart ==
  ASSUME Leftover = 0
  PROVE  Spec => []NoDeletionWithoutRestart
<1>1. TypeInv /\ ScriptInv => NoDeletionWithoutRestart
  <2>1. SUFFICES ASSUME TypeInv, ScriptInv, pc = "delete" PROVE boot[NAME] >= 2
    BY DEF NoDeletionWithoutRestart
  <2>2. boot[NAME] \in Nat
    BY <2>1, ReattestAssumption DEF TypeInv, TypeOK, ConsoleTypeOK, Boots
  <2>3. PICK b, c \in 1 .. boot[NAME] : b # c
    BY <2>1 DEF ScriptInv, BothArchived, TwoBoots
  <2>4. QED BY <2>2, <2>3
<1>2. QED BY <1>1, SpecInv, PTL

(* The script takes the machine down, by its stop or by its deletion, only *)
(* when the archive of the present boot is on disk, as long as the         *)
(* platform has brought it up no more often than the script meant to.      *)
THEOREM TakenDownArchived ==
  ASSUME Leftover = 0
  PROVE  Spec => TakenDownAfterArchive
<1>1. TypeInv /\ ScriptInv /\ [Next]_vars =>
        [pc' # pc /\ vm[NAME] = "running" /\ vm'[NAME] # "running" /\ boot[NAME] <= expected
           => Payload(boot[NAME]) \in got]_vars
  <2> SUFFICES ASSUME TypeInv, ScriptInv, Next, pc' # pc,
                      vm[NAME] = "running", vm'[NAME] # "running", boot[NAME] <= expected
               PROVE  Payload(boot[NAME]) \in got
    OBVIOUS
  <2>1. NAME \in VMs /\ boot[NAME] \in Nat \ {0} /\ ConsoleTypeOK
    BY ReattestAssumption DEF TypeInv, TypeOK, ConsoleTypeOK, Boots
  <2>2. CASE StopMachine
    <3>1. pc = "stop"
      BY <2>2 DEF StopMachine
    <3>2. expected = 1 /\ got # {} /\ got \subseteq {Payload(b) : b \in 1 .. boot[NAME]}
      BY <3>1 DEF ScriptInv, Phase, FirstArchived, OwnArchives
    <3>3. boot[NAME] = 1
      BY <2>1, <3>2
    <3>4. QED BY <3>2, <3>3
  <2>3. CASE DeleteMachine
    <3>1. pc = "delete"
      BY <2>3 DEF DeleteMachine
    <3>2. expected = 2 /\ TwoBoots
      BY <3>1 DEF ScriptInv, Phase, BothArchived
    <3>3. PICK b, c \in 1 .. boot[NAME] : b # c /\ {Payload(b), Payload(c)} \subseteq got
      BY <3>2 DEF TwoBoots
    <3>4. boot[NAME] = b \/ boot[NAME] = c
      BY <2>1, <3>2, <3>3
    <3>5. QED BY <3>3, <3>4
  <2>4. CASE StartMachine
    BY <2>1, <2>4 DEF StartMachine, Restart, consoleVars
  <2>5. CASE Machine \/ Fetch \/ Arrived \/ Sleep
    BY <2>5 DEF Machine, ProbeDone, PlatformRestart, Fetch, Arrived, Sleep, consoleVars, scriptVars
  <2>6. QED BY <2>2, <2>3, <2>4, <2>5 DEF Next, Orchestrator
<1>2. QED BY <1>1, SpecInv, PTL DEF Spec, TakenDownAfterArchive
=============================================================================
