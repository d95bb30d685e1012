------------------------------ MODULE Reattest ------------------------------
(***************************************************************************)
(* gcp-cvm/reattest.sh: wait for the archive of the first boot, stop and   *)
(* start the machine, wait for the archive of the second boot, delete the  *)
(* machine.  A wait looks at the console every thirty seconds, forty       *)
(* times; what it counts is not what the decoder answers but the           *)
(* directories runs/<name>/2026* (the decoder's exit status is dropped).   *)
(* launch.sh builds the name from kind, zone and suffix, so a machine      *)
(* launched later has the same one, and finds the directories of the       *)
(* earlier machines, and of interrupted runs, still there.                 *)
(***************************************************************************)
EXTENDS SerialConsole

CONSTANTS
  NAME,               \* the machine
  Leftover,           \* directories 2026* in runs/<name>/ when the script starts
  MaxTries,           \* for i in $(seq 1 40)
  Faults              \* provider calls that may fail

ASSUME ReattestAssumption ==
  /\ VMs = {NAME} /\ Legacy = {}
  /\ MaxBoots >= 2
  /\ Leftover \in Nat
  /\ MaxTries \in Nat \ {0}
  /\ Faults \subseteq {"fetch", "stop", "start", "delete"}

VARIABLES
  told,               \* the probe of this boot has come to its PROBE DONE line
  signalled,          \* a PROBE DONE line is on the console
  pc,                 \* what the script does next
  expected,           \* boot archives the current wait is for: $1 of wait_archives
  tries,              \* turns of its loop
  capture,            \* its capture file: the console ...
  heard,              \* ... and whether it has a PROBE DONE line
  got                 \* archives this run has extracted into runs/<name>/

probeVars == <<told, signalled>>
scriptVars == <<pc, expected, tries, capture, heard, got>>
vars == <<consoleVars, probeVars, scriptVars>>

Init ==
  /\ ConsoleInit
  /\ told = FALSE /\ signalled = FALSE
  /\ pc = "fetch" /\ expected = 1 /\ tries = 0
  /\ capture = <<>> /\ heard = FALSE /\ got = {}

-----------------------------------------------------------------------------
(* The machine. *)

\* The probe's last line, after all copies.  Another writer may break it.
ProbeDone ==
  /\ vm[NAME] = "running" /\ Printed(NAME) /\ ~told
  /\ told' = TRUE
  /\ \/ signalled' = TRUE /\ UNCHANGED spoiled
     \/ spoiled < MaxSpoiled /\ spoiled' = spoiled + 1 /\ UNCHANGED signalled
  /\ UNCHANGED <<vm, boot, pos, console, scriptVars>>

\* launch.sh leaves --maintenance-policy TERMINATE with its automatic restart: what the platform
\* has stopped it may bring up again itself, at any time.
PlatformRestart ==
  /\ NAME \in Unsteady
  /\ Restart(NAME) /\ told' = FALSE
  /\ UNCHANGED <<signalled, scriptVars>>

Machine ==
  \/ (PrintIntact(NAME) \/ PrintSpoiled(NAME) \/ Stop(NAME))
       /\ UNCHANGED <<probeVars, scriptVars>>
  \/ ProbeDone
  \/ PlatformRestart

-----------------------------------------------------------------------------
(* wait_archives *)

\* The serial port's output is redirected into the file: a call that fails leaves it empty.
Fetch ==
  /\ pc = "fetch"
  /\ \/ vm[NAME] # "deleted" /\ capture' = console[NAME] /\ heard' = signalled
     \/ ("fetch" \in Faults \/ vm[NAME] = "deleted") /\ capture' = <<>> /\ heard' = FALSE
  /\ pc' = "look"
  /\ UNCHANGED <<consoleVars, probeVars, expected, tries, got>>

\* Seeded fault: any archive at all satisfies the wait.
MutEnough(archives) == Cardinality(archives) + Leftover > 0

\* n=$(ls -d runs/$NAME/2026* | wc -l); [ "$n" -ge "$1" ].  Each archive unpacks into a
\* directory named after its boot's stamp.
Enough(archives) == Cardinality(archives) + Leftover >= expected

\* The decoder runs once PROBE DONE is there; the wait is over when the count is reached.
Arrived ==
  /\ pc = "look" /\ heard
  /\ got' = got \cup Extracted(capture)
  /\ Enough(got')
  /\ pc' = IF expected = 1 THEN "stop" ELSE "delete"
  /\ UNCHANGED <<consoleVars, probeVars, expected, tries, capture, heard>>

\* Seeded fault: no limit on the turns.
MutSleep ==
  /\ pc = "look"
  /\ got' = IF heard THEN got \cup Extracted(capture) ELSE got
  /\ heard => ~Enough(got')
  /\ tries' = (tries + 1) % MaxTries
  /\ pc' = "fetch"
  /\ UNCHANGED <<consoleVars, probeVars, expected, capture, heard>>

\* Not yet: sleep 30, or after the last turn "archive missing; VM kept".
Sleep ==
  /\ pc = "look"
  /\ got' = IF heard THEN got \cup Extracted(capture) ELSE got
  /\ heard => ~Enough(got')
  /\ tries' = tries + 1
  /\ pc' = IF tries' = MaxTries THEN "exit" ELSE "fetch"
  /\ UNCHANGED <<consoleVars, probeVars, expected, capture, heard>>

-----------------------------------------------------------------------------
(* Between and after the waits: the answers of stop and start are dropped. *)

StopMachine ==
  /\ pc = "stop"
  /\ \/ vm[NAME] = "running" /\ vm' = [vm EXCEPT ![NAME] = "stopped"]
     \/ ("stop" \in Faults \/ vm[NAME] # "running") /\ UNCHANGED vm
  /\ pc' = "start"
  /\ UNCHANGED <<boot, pos, spoiled, console, probeVars, expected, tries, capture, heard, got>>

\* The machine comes up with a new boot and its probe runs from the beginning.
StartMachine ==
  /\ pc = "start"
  /\ \/ Restart(NAME) /\ told' = FALSE
     \/ ("start" \in Faults \/ vm[NAME] # "stopped") /\ UNCHANGED <<consoleVars, told>>
  /\ pc' = "fetch" /\ expected' = 2 /\ tries' = 0
  /\ UNCHANGED <<signalled, capture, heard, got>>

DeleteMachine ==
  /\ pc = "delete"
  /\ \/ vm' = [vm EXCEPT ![NAME] = "deleted"]
     \/ "delete" \in Faults /\ UNCHANGED vm
  /\ pc' = "exit"
  /\ UNCHANGED <<boot, pos, spoiled, console, probeVars, expected, tries, capture, heard, got>>

Orchestrator == Fetch \/ Arrived \/ Sleep \/ StopMachine \/ StartMachine \/ DeleteMachine

Next == Machine \/ Orchestrator

Spec == Init /\ [][Next]_vars

(* The script runs until it exits; the machine owes nothing. *)
FairSpec == Spec /\ WF_vars(Orchestrator)

-----------------------------------------------------------------------------

(* The variables have their types, a wait has MaxTries turns at most.      *)
TypeOK ==
  /\ ConsoleTypeOK
  /\ told \in BOOLEAN /\ signalled \in BOOLEAN /\ heard \in BOOLEAN
  /\ pc \in {"fetch", "look", "stop", "start", "delete", "exit"}
  /\ expected \in {1, 2}
  /\ tries \in 0 .. MaxTries
  /\ capture \in Seq(Token)
  /\ got \subseteq [Lines -> Int]

(* Lines 3-4: "Nothing is deleted before both archives have been           *)
(* reassembled and SHA-256-verified": the archives of two boots of this    *)
(* machine are on disk.                                                    *)
BothArchivesVerified ==
  vm[NAME] = "deleted" =>
    \E b, c \in 1 .. boot[NAME] : b # c /\ {Payload(b), Payload(c)} \subseteq got

(* The script takes no machine down whose present boot has not delivered   *)
(* its archive: the stop does not cut off the first boot's probe, nor the  *)
(* deletion the second's (a machine nobody can ask again).  That is so as  *)
(* long as the platform has brought the machine up no more often than the  *)
(* script meant to (expected): the waits count archives, not boots, and a  *)
(* boot of the platform's own may be cut off.                              *)
TakenDownAfterArchive ==
  [][pc' # pc /\ vm[NAME] = "running" /\ vm'[NAME] # "running" /\ boot[NAME] <= expected
       => Payload(boot[NAME]) \in got]_vars

(* The second wait needs a second boot: a start that failed unnoticed does *)
(* not end in a deletion unless the platform started the machine.          *)
NoDeletionWithoutRestart == pc = "delete" => boot[NAME] >= 2

(* Whatever fails, the script comes to an end (two waits of MaxTries).     *)
Ends == <>(pc = "exit")
=============================================================================
