----------------------------- MODULE AwsCollect -----------------------------
(***************************************************************************)
(* aws-vlek/collect.sh (aws-nitro/collect.sh is the same file).  The order *)
(* differs from Google's: the instance's state is asked for before the     *)
(* console is fetched, and a question that fails (unknown) keeps the       *)
(* instance pending.  There is no KEEP.                                    *)
(***************************************************************************)
EXTENDS PollLoop

VARIABLE state        \* the answer of describe-instances for the instance at hand

vars == <<collectVars, state>>

Init ==
  /\ ConsoleInit /\ LoopInit
  /\ state = "unknown"

\* Seeded fault: a failed question counts as "terminated" (|| echo GONE).
MutDescribeInstances(v) ==
  /\ At("visit", v) /\ v \notin done
  /\ \/ state' = vm[v]
     \/ "describe" \in Faults /\ state' = "deleted"
  /\ Goto("described")
  /\ UNCHANGED <<consoleVars, diskVars>>

\* state=$(aws ec2 describe-instances ... || echo unknown)
DescribeInstances(v) ==
  /\ At("visit", v) /\ v \notin done
  /\ \/ state' = vm[v]
     \/ "describe" \in Faults /\ state' = "unknown"
  /\ Goto("described")
  /\ UNCHANGED <<consoleVars, diskVars>>

\* The console of a terminated instance may still be there.
Fetch(v) ==
  /\ At("described", v)
  /\ FetchOk(v, "fetched") \/ FetchFails(v, "fetched")
  /\ UNCHANGED state

\* Seeded fault: the exit status of the decoder is not looked at.
MutDecodeVerified(v) ==
  /\ At("fetched", v) /\ HasEnd(file[v])
  /\ Extract(v) /\ Goto("verified")
  /\ UNCHANGED state

DecodeVerified(v) ==
  /\ At("fetched", v) /\ HasEnd(file[v]) /\ ExitZero(file[v])
  /\ Extract(v) /\ Goto("verified")
  /\ UNCHANGED state

\* Seeded fault: a machine that is read again is not counted as pending.
MutDecodeIncomplete(v) ==
  /\ At("fetched", v) /\ HasEnd(file[v]) /\ ~ExitZero(file[v])
  /\ Extract(v) /\ NextLine
  /\ UNCHANGED <<done, givenUp, pending, expired, runs, state>>

DecodeIncomplete(v) ==
  /\ At("fetched", v) /\ HasEnd(file[v]) /\ ~ExitZero(file[v])
  /\ Extract(v) /\ SetPending(v)
  /\ UNCHANGED state

\* The answer of terminate-instances is only printed.
Terminate(v) ==
  /\ At("verified", v)
  /\ Delete(v) /\ SetDone(v)
  /\ UNCHANGED state

\* The instance is stopped, terminated or shutting down without a probe archive.
EndedWithout(v) ==
  /\ At("fetched", v) /\ ~HasEnd(file[v]) /\ state \in {"stopped", "deleted"}
  /\ GiveUp(v)
  /\ UNCHANGED <<consoleVars, diskVars, state>>

Waiting(v) ==
  /\ At("fetched", v) /\ ~HasEnd(file[v]) /\ state \in {"running", "unknown"}
  /\ SetPending(v)
  /\ UNCHANGED <<consoleVars, diskVars, state>>

Visit(v) ==
  \/ SkipDone(v) /\ UNCHANGED state
  \/ DescribeInstances(v) \/ Fetch(v)
  \/ DecodeVerified(v) \/ DecodeIncomplete(v) \/ Terminate(v)
  \/ EndedWithout(v) \/ Waiting(v)

Loop == EndPass /\ UNCHANGED state

Collector == Loop \/ \E v \in VMs : Visit(v)

Environment ==
  \/ ConsoleNext /\ UNCHANGED <<loopVars, diskVars, state>>
  \/ DeadlinePasses /\ UNCHANGED state
  \/ RunAgain /\ state' = "unknown"

Next == Collector \/ Environment

Spec == Init /\ [][Next]_vars

-----------------------------------------------------------------------------

(* The fairness of GcpCollect, for the same reasons. *)
FetchSucceeds(v) == At("described", v) /\ FetchOk(v, "fetched") /\ UNCHANGED state

ProbePrints(v) == PrintIntact(v) /\ UNCHANGED <<loopVars, diskVars, state>>

Fairness ==
  /\ WF_vars(Collector)
  /\ \A v \in VMs : SF_vars(FetchSucceeds(v)) /\ WF_vars(ProbePrints(v))

FairSpec == Spec /\ Fairness

-----------------------------------------------------------------------------

(* The variables have the types the script and the decoder rely on. *)
TypeOK == LoopTypeOK /\ state \in VmStatus \cup {"unknown"}
=============================================================================
