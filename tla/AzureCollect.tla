---------------------------- MODULE AzureCollect ----------------------------
(***************************************************************************)
(* azure-cvm/collect.sh.  Its probe prints the single-line format.  When   *)
(* the boot log stays without an END marker for six minutes the script     *)
(* reads the archive over SSH and writes a console file of its own.  It    *)
(* decodes with a few lines of Python of its own, and whatever comes of    *)
(* that, it deletes the machine.                                           *)
(***************************************************************************)
EXTENDS PollLoop

CONSTANT SshKey       \* SSH_KEY is set: the fallback is available

ASSUME AzureAssumption == SshKey \in BOOLEAN /\ Legacy = VMs

vars == collectVars

Init == ConsoleInit /\ LoopInit

Fetch(v) ==
  /\ At("visit", v) /\ v \notin done
  /\ \/ vm[v] # "deleted" /\ FetchOk(v, "fetched")
     \/ FetchFails(v, "fetched")

\* The first k lines of an archive, nothing readable after them.
Leading(d, k) == [i \in Lines |-> IF i < k THEN d[i] ELSE Wrong]

\* What "cat /root/probe/*.b64" brings: nothing, an archive, or less than an archive
\* (a file still being written, a connection that drops).
SshReads(v) == {Noise} \cup {Single(Leading(Payload(b), k)) : b \in 1 .. boot[v], k \in 0 .. NL}

\* Six minutes have passed since the launch.  What is read replaces the console file if it
\* is longer than 1000 characters.  ssh shares its standard input with "read": when it
\* returns, the rest of launched.txt may be consumed.
SshFallback(v) ==
  /\ At("fetched", v) /\ SshKey /\ ~HasEnd(file[v]) /\ vm[v] = "running"
  /\ \E t \in SshReads(v) :
       file' = IF t = Noise THEN file
                            ELSE [file EXCEPT ![v] = <<Begin(0, "bare", 0), t, End>>]
  /\ pc' = "ssh" /\ todo' \in {todo, <<v>>}
  /\ UNCHANGED <<consoleVars, got, done, givenUp, pending, expired, runs>>

\* The console file is as it will be: the fallback has run, or its six minutes have not.
Captured(v) == At("fetched", v) \/ At("ssh", v)

\* What tar may leave of a payload: all of it, or, when characters in it are wrong, nothing or
\* some of the entries before them.
Untarred(d) ==
  IF Readable(d) THEN {{d}}
  ELSE {{}} \cup {{Leading(d, k)} : k \in {n \in 1 .. NL : \A i \in Lines : i < n => d[i] # Wrong}}

\* Only what comes first in the range counts: what follows a payload is trailing garbage, and
\* after another header tar sees no archive.  Noise may be a payload of one of n boots that was
\* split, of which the first entries are left.
LeftBy(t, n) ==
  CASE t.kind = "single" -> Untarred(t.data)
    [] t.kind = "noise"  -> {{}} \cup {{Leading(Payload(b), k)} : b \in 1 .. n, k \in 1 .. NL}
    [] OTHER             -> {{}}

\* The first BEGIN..END range, or up to the end of the text without an END, through base64 and
\* tar, which compare neither a length nor a hash: the sets of archives that may be left.
FirstRange(con, n) ==
  LET begins == {p \in DOMAIN con : con[p].kind = "begin"}
      range  == Block(con, Min(begins))
  IN  IF begins = {} \/ range = {} THEN {{}} ELSE LeftBy(con[Min(range)], n)

\* Seeded fault: the END marker is not looked for.
MutUnpack(v) ==
  /\ Captured(v)
  /\ \E left \in FirstRange(file[v], boot[v]) : got' = [got EXCEPT ![v] = @ \cup left]
  /\ Goto("verified")
  /\ UNCHANGED <<consoleVars, file>>

\* python3 - && tar xzf && echo: whatever comes of it, the script goes on to the deletion.
Unpack(v) ==
  /\ Captured(v) /\ HasEnd(file[v])
  /\ \E left \in FirstRange(file[v], boot[v]) : got' = [got EXCEPT ![v] = @ \cup left]
  /\ Goto("verified")
  /\ UNCHANGED <<consoleVars, file>>

\* az vm delete and the done list do not depend on the command before them.
DeleteVM(v) ==
  /\ At("verified", v)
  /\ Delete(v) /\ SetDone(v)

NoEnd(v) ==
  /\ Captured(v) /\ ~HasEnd(file[v])
  /\ Goto("silent")
  /\ UNCHANGED <<consoleVars, diskVars>>

\* Seeded fault: a running machine is not counted as pending.
MutInstanceView(v) ==
  /\ At("silent", v)
  /\ IF vm[v] = "running"
       THEN NextLine /\ UNCHANGED <<done, givenUp, pending, expired, runs>>
       ELSE GiveUp(v)
  /\ UNCHANGED <<consoleVars, diskVars>>

\* st=$(az vm get-instance-view ... || echo GONE)
InstanceView(v) ==
  LET answers == {vm[v]} \cup (IF "describe" \in Faults THEN {"deleted"} ELSE {}) IN
  /\ At("silent", v)
  /\ \E st \in answers :
       IF st = "running" THEN SetPending(v) ELSE GiveUp(v)
  /\ UNCHANGED <<consoleVars, diskVars>>

Visit(v) ==
  \/ SkipDone(v) \/ Fetch(v) \/ SshFallback(v) \/ Unpack(v) \/ DeleteVM(v)
  \/ NoEnd(v) \/ InstanceView(v)

Collector == EndPass \/ \E v \in VMs : Visit(v)

Environment ==
  \/ ConsoleNext /\ UNCHANGED <<loopVars, diskVars>>
  \/ DeadlinePasses
  \/ RunAgain

Next == Collector \/ Environment

Spec == Init /\ [][Next]_vars

(* The script keeps running. *)
FairSpec == Spec /\ WF_vars(Collector)

-----------------------------------------------------------------------------

(* azure-cvm/RESULTS.md lines 54-55, of the SSH fallback: "nothing is      *)
(* deleted before the archive's content has been checked".  A machine that *)
(* is gone has left a whole archive of one of its boots.                   *)
DeletedAfterContentChecked ==
  \A v \in VMs : vm[v] = "deleted" => \E b \in 1 .. boot[v] : Payload(b) \in got[v]
=============================================================================
