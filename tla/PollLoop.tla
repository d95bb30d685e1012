------------------------------ MODULE PollLoop ------------------------------
(***************************************************************************)
(* The loop the collectors of all clouds share (gcp-cvm/collect.sh,        *)
(* aws-vlek/collect.sh = aws-nitro/collect.sh, azure-cvm/collect.sh): pass *)
(* after pass over launched.txt, skip what is on the done list, count what *)
(* is pending, stop when nothing is or when the deadline has passed.  What *)
(* is done with one machine is the collector's own module.                 *)
(*                                                                         *)
(* The operator runs the script again whenever machines were launched      *)
(* since: a new run starts from an empty done list and finds on disk what  *)
(* earlier runs left there.                                                *)
(***************************************************************************)
EXTENDS SerialConsole

CONSTANTS
  Launched,           \* launched.txt, in order
  MaxRuns,            \* bound: times the operator runs the script
  Faults              \* provider calls that may fail although the machine exists

ASSUME LoopAssumption ==
  /\ Launched \in Seq(VMs)
  /\ MaxRuns \in Nat \ {0}
  /\ Faults \subseteq {"fetch", "describe", "delete"}

VARIABLES
  pc,                 \* where the script is with the machine at the head of todo
  todo,               \* lines of launched.txt this pass has still to read
  done,               \* done_list
  givenUp,            \* machines reported "without archive; console kept" in this run
  pending,            \* machines counted as pending in this pass
  expired,            \* the clock has passed the deadline of this run
  runs,               \* runs of the script so far
  file,               \* runs/<name>.console on the operator's disk
  got                 \* archives extracted into runs/<name>/

loopVars == <<pc, todo, done, givenUp, pending, expired, runs>>
diskVars == <<file, got>>
collectVars == <<consoleVars, loopVars, diskVars>>

LoopInit ==
  /\ pc = "visit" /\ todo = Launched /\ done = {} /\ givenUp = {}
  /\ pending = 0 /\ expired = FALSE /\ runs = 1
  /\ file = [v \in VMs |-> <<>>]
  /\ got = [v \in VMs |-> {}]

\* The machine the body of the loop is working on.
At(label, v) == pc = label /\ todo # <<>> /\ v = Head(todo)

\* The ways out of the body: on to the next line of launched.txt.
NextLine == pc' = "visit" /\ todo' = Tail(todo)

SetDone(v) ==
  /\ NextLine /\ done' = done \cup {v}
  /\ UNCHANGED <<givenUp, pending, expired, runs>>

GiveUp(v) ==
  /\ NextLine /\ done' = done \cup {v} /\ givenUp' = givenUp \cup {v}
  /\ UNCHANGED <<pending, expired, runs>>

SetPending(v) ==
  /\ NextLine /\ pending' = pending + 1
  /\ UNCHANGED <<done, givenUp, expired, runs>>

Goto(label) == pc' = label /\ UNCHANGED <<todo, done, givenUp, pending, expired, runs>>

SkipDone(v) ==
  /\ At("visit", v) /\ v \in done
  /\ NextLine
  /\ UNCHANGED <<consoleVars, diskVars, done, givenUp, pending, expired, runs>>

\* Seeded fault: the deadline is not looked at.
MutEndPass ==
  /\ pc = "visit" /\ todo = <<>>
  /\ IF pending = 0
       THEN pc' = "finished" /\ UNCHANGED <<todo, pending>>
       ELSE pc' = "visit" /\ todo' = Launched /\ pending' = 0
  /\ UNCHANGED <<consoleVars, diskVars, done, givenUp, expired, runs>>

\* [ "$pending" -eq 0 ] && break; the deadline; sleep and read launched.txt again.
EndPass ==
  /\ pc = "visit" /\ todo = <<>>
  /\ IF pending = 0 \/ expired
       THEN pc' = "finished" /\ UNCHANGED <<todo, pending>>
       ELSE pc' = "visit" /\ todo' = Launched /\ pending' = 0
  /\ UNCHANGED <<consoleVars, diskVars, done, givenUp, expired, runs>>

DeadlinePasses ==
  /\ pc # "finished" /\ ~expired
  /\ expired' = TRUE
  /\ UNCHANGED <<consoleVars, diskVars, pc, todo, done, givenUp, pending, runs>>

\* The script is started again, after it has finished or was interrupted.
RunAgain ==
  /\ runs < MaxRuns
  /\ runs' = runs + 1
  /\ pc' = "visit" /\ todo' = Launched /\ done' = {} /\ givenUp' = {}
  /\ pending' = 0 /\ expired' = FALSE
  /\ UNCHANGED <<consoleVars, diskVars>>

-----------------------------------------------------------------------------
(* The body's commands that the collectors have in common. *)

\* The console is redirected into runs/<name>.console: the shell truncates the file
\* first, so that a call that fails leaves it empty (|| true).
FetchOk(v, label) ==
  /\ file' = [file EXCEPT ![v] = console[v]]
  /\ Goto(label)
  /\ UNCHANGED <<consoleVars, got>>

FetchFails(v, label) ==
  /\ "fetch" \in Faults \/ vm[v] = "deleted"
  /\ file' = [file EXCEPT ![v] = <<>>]
  /\ Goto(label)
  /\ UNCHANGED <<consoleVars, got>>

\* decode_console.py extracts every archive it can, also when it exits 1 for another one.
Extract(v) ==
  /\ got' = [got EXCEPT ![v] = @ \cup Extracted(file[v])]
  /\ UNCHANGED <<consoleVars, file>>

\* The provider deletes the machine, or the call fails and the script goes on.
Delete(v) ==
  /\ \/ vm' = [vm EXCEPT ![v] = "deleted"]
     \/ "delete" \in Faults /\ UNCHANGED vm
  /\ UNCHANGED <<boot, pos, spoiled, console, diskVars>>

-----------------------------------------------------------------------------

Labels == {"visit", "described", "ssh", "fetched", "verified", "silent", "finished"}

(* The script's variables and the disk have their types, and in the body   *)
(* of the loop there is a machine to work on.                              *)
LoopTypeOK ==
  /\ ConsoleTypeOK
  /\ pc \in Labels
  /\ todo \in Seq(VMs)
  /\ done \subseteq VMs
  /\ givenUp \subseteq done
  /\ pending \in Nat
  /\ expired \in BOOLEAN
  /\ runs \in 1 .. MaxRuns
  /\ file \in [VMs -> Seq(Token)]
  /\ got \in [VMs -> SUBSET [Lines -> Int]]
  /\ pc \notin {"visit", "finished"} => todo # <<>>

-----------------------------------------------------------------------------
(* What the collectors are for. *)

(* What is extracted from an indexed console is an archive this machine    *)
(* wrote: whatever other writers do to headers, lines and markers, no      *)
(* mixture of copies or boots passes the SHA-256 check of                  *)
(* tools/decode_console.py lines 29-32.                                    *)
ArchivesAuthentic ==
  \A v \in VMs \ Legacy : got[v] \subseteq {Payload(b) : b \in 1 .. boot[v]}

(* gcp-cvm/collect.sh line 14, aws-vlek/collect.sh line 16: the machine is *)
(* deleted "only after a verified extraction, never on a failed decode".   *)
DeletedOnlyVerified ==
  \A v \in VMs \ Legacy :
    vm[v] = "deleted" => \E b \in 1 .. boot[v] : Payload(b) \in got[v]

\* No other writer and no second boot is in the capture of v, and it was read off the console.
Undisturbed(v) ==
  /\ spoiled = 0 /\ boot[v] = 1
  /\ \E n \in 0 .. Len(console[v]) : file[v] = SubSeq(console[v], 1, n)

(* azure-cvm/collect.sh deletes a machine whatever tar made of its         *)
(* capture.  That costs no archive by the order of things alone: a machine *)
(* that nobody disturbed is deleted only with its whole archive on disk,   *)
(* however its printing, the captures, failing calls, other machines and   *)
(* a second run interleave.                                                *)
UndisturbedNotLost ==
  [][\A v \in VMs :
       vm[v] # "deleted" /\ vm'[v] = "deleted" /\ Undisturbed(v) => Payload(1) \in got[v]]_collectVars

(* A machine that came up more than once is not deleted with the archive   *)
(* of one boot while the capture the collector decided on announces        *)
(* another: the decoder exits 0 for all stamps seen or not at all.         *)
NoAnnouncedBootLost ==
  \A v \in VMs :
    vm[v] = "deleted" =>
      \A p \in DOMAIN file[v] :
        file[v][p].kind = "begin" /\ file[v][p].form = "full"
          => Payload(file[v][p].sha) \in got[v]

(* A run that ends before its deadline has settled every machine of        *)
(* launched.txt: archive on disk, or reported as given up.                 *)
FinishedSettled ==
  pc = "finished" /\ ~expired =>
    \A i \in DOMAIN Launched : got[Launched[i]] # {} \/ Launched[i] \in givenUp

(* A machine reported as stopped or gone "without archive" had none to     *)
(* give: its console does not carry an archive the decoder accepts.        *)
GivenUpHadNothing ==
  \A v \in givenUp : got[v] # {} \/ ~(HasEnd(console[v]) /\ ExitZero(console[v]))

(* The console of every machine is polled until its archive appears and is *)
(* decoded into runs/<name>/ (the comment at the head of each script),     *)
(* unless the deadline passes.  A machine the platform stops and a single  *)
(* line that is hit may have nothing to collect.                           *)
EventuallyCollected == \A v \in VMs \ (Unsteady \cup Legacy) : <>(expired \/ got[v] # {})

(* A machine that never prints does not keep the script running past its   *)
(* deadline (a new run has a deadline of its own).                         *)
StopsAfterDeadline == expired ~> (pc = "finished" \/ ~expired)

(* The collectors implement the abstract promise. *)
Promise == INSTANCE ArchiveCollection WITH
  archived <- {v \in VMs : got[v] # {}},
  released <- {v \in VMs : vm[v] = "deleted"}

(* Every step archives a machine, deletes an archived one, or changes      *)
(* neither.                                                                *)
KeepsPromise == Promise!Spec
=============================================================================
