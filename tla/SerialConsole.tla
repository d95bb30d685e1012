--------------------------- MODULE SerialConsole ---------------------------
(***************************************************************************)
(* The launched machines and what their probes print.  A probe runs at     *)
(* boot, packs its archive, and writes it to the serial console in Copies  *)
(* numbered blocks (probe-dual.sh and the later probes), or as one long    *)
(* line (the Legacy probes: probe.sh, probe-gcp.sh, probe-cos.sh,          *)
(* probe-keysel.sh, probe-azure.sh).  cloud-init, journald and the kernel  *)
(* write to the same device: any token can be spoiled as it is written.    *)
(* The machine may stop between any two tokens, and may come up again with *)
(* a new boot stamp.                                                       *)
(***************************************************************************)
EXTENDS ConsoleDecode

CONSTANTS
  VMs,                \* the machines in launched.txt
  Legacy,             \* those whose probe writes the single-line format
  Unsteady,           \* those the platform may stop
  Copies,             \* blocks a probe writes (for COPY in 1 2 3)
  MaxBoots,           \* bound: boots of one machine
  MaxSpoiled,         \* bound: tokens other writers spoil, all machines together
  Spoilings           \* the kinds of damage considered, a subset of AllSpoilings

AllSpoilings == {"lost", "header", "stamp", "same_length"}

ASSUME ConsoleAssumption ==
  /\ Legacy \subseteq VMs
  /\ Unsteady \subseteq VMs
  /\ Copies \in Nat \ {0}
  /\ MaxBoots \in Nat \ {0}
  /\ MaxSpoiled \in Nat
  /\ Spoilings \subseteq AllSpoilings

VARIABLES
  vm,                 \* the machine's status at the provider
  boot,               \* its boot stamp: 1, 2, ...
  pos,                \* tokens the probe of this boot has written
  spoiled,            \* tokens spoiled so far
  console             \* what the provider holds of the serial console

consoleVars == <<vm, boot, pos, spoiled, console>>

Boots == 1 .. MaxBoots

BlockLen(v)  == IF v \in Legacy THEN 3 ELSE NL + 2
ScriptLen(v) == (IF v \in Legacy THEN 1 ELSE Copies) * BlockLen(v)

\* The n-th token the probe of boot b means to write.
Script(v, b, n) ==
  LET k == n % BlockLen(v) IN
  CASE k = 0               -> Begin(b, IF v \in Legacy THEN "sized" ELSE "full", b)
    [] k = BlockLen(v) - 1 -> End
    [] OTHER               -> IF v \in Legacy THEN Single(Payload(b)) ELSE Line(k - 1, b)

\* What is on the console instead, when another writer hits token t at position n.
\* "lost": the token is split, lengthened or overwritten, and no longer one.
\* "header": the header line breaks after or before size=.  "stamp": characters land in
\* the stamp, which becomes one nobody else prints.  "same_length": the right number of
\* characters, not the ones the probe wrote (a word that fills the cut line exactly).
Spoil(t, n) ==
  (IF "lost" \in Spoilings THEN {Noise} ELSE {})
    \cup (IF "header" \in Spoilings /\ t.kind = "begin"
            THEN {Begin(t.stamp, f, t.sha) : f \in {"sized", "bare"}} ELSE {})
    \cup (IF "stamp" \in Spoilings /\ t.kind = "begin" THEN {Begin(-n, t.form, t.sha)} ELSE {})
    \cup (IF "same_length" \in Spoilings /\ t.kind = "line" THEN {Line(t.index, Wrong)} ELSE {})
    \cup (IF "same_length" \in Spoilings /\ t.kind = "single"
            THEN {Single([i \in Lines |-> w]) : w \in {Wrong, Slip}} ELSE {})

ConsoleInit ==
  /\ vm = [v \in VMs |-> "running"]
  /\ boot = [v \in VMs |-> 1]
  /\ pos = [v \in VMs |-> 0]
  /\ spoiled = 0
  /\ console = [v \in VMs |-> <<>>]

\* Seeded fault: the writer does not stop at its last token.
MutEmit(v, t) ==
  /\ vm[v] = "running"
  /\ pos[v] <= ScriptLen(v)
  /\ console' = [console EXCEPT ![v] = Append(@, t)]
  /\ pos' = [pos EXCEPT ![v] = @ + 1]
  /\ UNCHANGED <<vm, boot>>

Emit(v, t) ==
  /\ vm[v] = "running"
  /\ pos[v] < ScriptLen(v)
  /\ console' = [console EXCEPT ![v] = Append(@, t)]
  /\ pos' = [pos EXCEPT ![v] = @ + 1]
  /\ UNCHANGED <<vm, boot>>

PrintIntact(v) ==
  /\ Emit(v, Script(v, boot[v], pos[v]))
  /\ UNCHANGED spoiled

PrintSpoiled(v) ==
  /\ spoiled < MaxSpoiled
  /\ \E t \in Spoil(Script(v, boot[v], pos[v]), Len(console[v]) + 1) : Emit(v, t)
  /\ spoiled' = spoiled + 1

\* The platform stops the machine; the probe dies where it is.
Stop(v) ==
  /\ v \in Unsteady
  /\ vm[v] = "running"
  /\ vm' = [vm EXCEPT ![v] = "stopped"]
  /\ UNCHANGED <<boot, pos, spoiled, console>>

\* It comes up again: the startup script runs at every boot, with a new stamp.
Restart(v) ==
  /\ vm[v] = "stopped"
  /\ boot[v] < MaxBoots
  /\ vm' = [vm EXCEPT ![v] = "running"]
  /\ boot' = [boot EXCEPT ![v] = @ + 1]
  /\ pos' = [pos EXCEPT ![v] = 0]
  /\ UNCHANGED <<spoiled, console>>

ConsoleNext == \E v \in VMs : PrintIntact(v) \/ PrintSpoiled(v) \/ Stop(v) \/ Restart(v)

\* The probe of this boot has printed everything (its PROBE DONE line).
Printed(v) == pos[v] = ScriptLen(v)

ConsoleSpec == ConsoleInit /\ [][ConsoleNext]_consoleVars

-----------------------------------------------------------------------------

VmStatus == {"running", "stopped", "deleted"}

ConsoleTypeOK ==
  /\ vm \in [VMs -> VmStatus]
  /\ boot \in [VMs -> Boots]
  /\ pos \in [VMs -> Nat]
  /\ spoiled \in 0 .. MaxSpoiled
  /\ console \in [VMs -> Seq(Token)]
  /\ \A v \in VMs : pos[v] <= ScriptLen(v)

(* probe-dual.sh line 98, "Serial-console transport that survives          *)
(* interleaving", and decode_console.py lines 9-11: a console that holds,  *)
(* of every boot it announces, one legible header and each line intact in  *)
(* some copy is one from which the decoder extracts every archive.         *)
SurvivesInterleaving == \A v \in VMs : Recoverable(console[v]) => ExitZero(console[v])

(* The collectors read the same console again and again: an archive that   *)
(* could be extracted from one capture can be extracted from every later   *)
(* one, whatever is printed meanwhile.                                     *)
StaysExtractable ==
  [][\A v \in VMs \ Legacy : Extracted(console[v]) \subseteq Extracted(console'[v])]_consoleVars
=============================================================================
