----------------------------- MODULE GcpCollect -----------------------------
(***************************************************************************)
(* gcp-cvm/collect.sh.  For each machine not yet done: fetch the console;  *)
(* with an END marker in it, decode, and delete the machine if the decoder *)
(* exits 0; without one, ask for the machine's status and give it up when  *)
(* it is TERMINATED or when the question fails (GONE).  Every provider     *)
(* call is a step of its own: the probes print on while the script waits.  *)
(***************************************************************************)
EXTENDS PollLoop

VARIABLE keep         \* KEEP=1 in this run's environment

vars == <<collectVars, keep>>

Init ==
  /\ ConsoleInit /\ LoopInit
  /\ keep \in BOOLEAN

Fetch(v) ==
  /\ At("visit", v) /\ v \notin done
  /\ \/ vm[v] # "deleted" /\ FetchOk(v, "fetched")
     \/ FetchFails(v, "fetched")
  /\ UNCHANGED keep

\* Seeded fault: the exit status of the decoder is not looked at.
MutDecodeVerified(v) ==
  /\ At("fetched", v) /\ HasEnd(file[v])
  /\ Extract(v) /\ Goto("verified")
  /\ UNCHANGED keep

\* The END marker is there and the decoder exits 0.
DecodeVerified(v) ==
  /\ At("fetched", v) /\ HasEnd(file[v]) /\ ExitZero(file[v])
  /\ Extract(v) /\ Goto("verified")
  /\ UNCHANGED keep

\* Seeded fault: a machine that is read again is not counted as pending.
MutDecodeIncomplete(v) ==
  /\ At("fetched", v) /\ HasEnd(file[v]) /\ ~ExitZero(file[v])
  /\ Extract(v) /\ NextLine
  /\ UNCHANGED <<done, givenUp, pending, expired, runs, keep>>

\* END marker seen but payload not yet complete: keep the machine and read again.
DecodeIncomplete(v) ==
  /\ At("fetched", v) /\ HasEnd(file[v]) /\ ~ExitZero(file[v])
  /\ Extract(v) /\ SetPending(v)
  /\ UNCHANGED keep

NoEnd(v) ==
  /\ At("fetched", v) /\ ~HasEnd(file[v])
  /\ Goto("silent")
  /\ UNCHANGED <<consoleVars, diskVars, keep>>

DeleteVM(v) ==
  /\ At("verified", v) /\ ~keep
  /\ Delete(v) /\ SetDone(v)
  /\ UNCHANGED keep

KeepVM(v) ==
  /\ At("verified", v) /\ keep
  /\ SetDone(v)
  /\ UNCHANGED <<consoleVars, diskVars, keep>>

\* st=$(gcloud ... describe ... || echo GONE)
Describe(v) ==
  LET answers == {vm[v]} \cup (IF "describe" \in Faults THEN {"deleted"} ELSE {}) IN
  /\ At("silent", v)
  /\ \E st \in answers :
       IF st = "running" THEN SetPending(v) ELSE GiveUp(v)
  /\ UNCHANGED <<consoleVars, diskVars, keep>>

Visit(v) ==
  \/ SkipDone(v) /\ UNCHANGED keep
  \/ Fetch(v)
  \/ DecodeVerified(v) \/ DecodeIncomplete(v) \/ NoEnd(v)
  \/ DeleteVM(v) \/ KeepVM(v) \/ Describe(v)

Loop == EndPass /\ UNCHANGED keep

Start ==
  /\ RunAgain
  /\ keep' \in BOOLEAN

Collector == Loop \/ \E v \in VMs : Visit(v)

Environment ==
  \/ ConsoleNext /\ UNCHANGED <<loopVars, diskVars, keep>>
  \/ DeadlinePasses /\ UNCHANGED keep
  \/ Start

Next == Collector \/ Environment

Spec == Init /\ [][Next]_vars

-----------------------------------------------------------------------------

(* Fairness: the script keeps running (it has no other way out than the    *)
(* loop's), a probe that is not stopped prints its archive to the end, and *)
(* a provider call that fails now and then does not fail for ever.  The    *)
(* deadline, the operator, and the platform are under no obligation.       *)
FetchSucceeds(v) ==
  /\ At("visit", v) /\ v \notin done
  /\ vm[v] # "deleted" /\ FetchOk(v, "fetched")
  /\ UNCHANGED keep

ProbePrints(v) == PrintIntact(v) /\ UNCHANGED <<loopVars, diskVars, keep>>

Fairness ==
  /\ WF_vars(Collector)
  /\ \A v \in VMs : SF_vars(FetchSucceeds(v)) /\ WF_vars(ProbePrints(v))

FairSpec == Spec /\ Fairness

-----------------------------------------------------------------------------

(* The variables have the types the script and the decoder rely on; the    *)
(* given-up machines of a run are on its done list (line 22).              *)
TypeOK == LoopTypeOK /\ keep \in BOOLEAN
=============================================================================
