--------------------------- MODULE ConsoleDecode ---------------------------
(***************************************************************************)
(* tools/decode_console.py: what the decoder makes of one capture of a     *)
(* serial console.  The capture is a sequence of tokens; a token is the    *)
(* unit another writer can spoil: a BEGIN header, one indexed line, the    *)
(* payload of the older single-line format, an END marker.  What the       *)
(* regular expressions do not match at all is the token "noise".           *)
(*                                                                         *)
(* The characters of a line are abstracted to the archive they come from:  *)
(* text = b for the line a probe cut from the archive of boot b, Wrong for *)
(* a run of the right length that no probe wrote.  A line of the wrong     *)
(* length is never a candidate, so it is "noise".  SHA-256 is taken to be  *)
(* injective: a header announces the archive it hashes, sha = b.           *)
(***************************************************************************)
EXTENDS Integers, Sequences, FiniteSetsExt

CONSTANT NL             \* 76-character lines of an archive (lines= in the header)

ASSUME NLAssumption == NL \in Nat \ {0}

Lines == 0 .. NL - 1    \* "@@%04d" counts from NR-1 = 0

Wrong == 0              \* right length, wrong characters; tarfile cannot open what they make
Slip  == -1             \* the same, in a place that tarfile does not look at

\* The archive of boot b, cut into lines.
Payload(b) == [i \in Lines |-> b]

(* The header forms.  "full": all five fields are legible.  "sized": the   *)
(* line is cut after size=, the optional group of the expression is empty. *)
(* "bare": cut before size=; no head any more, but it still opens a block. *)
Forms == {"full", "sized", "bare"}

Begin(s, f, b)  == [kind |-> "begin", stamp |-> s, form |-> f, sha |-> b]
Line(i, w)      == [kind |-> "line", index |-> i, text |-> w]
Single(d)       == [kind |-> "single", data |-> d]
End             == [kind |-> "end"]
Noise           == [kind |-> "noise"]

Token ==
  [kind : {"begin"}, stamp : Int, form : Forms, sha : Int]
    \cup [kind : {"line"}, index : Lines, text : Int]
    \cup [kind : {"single"}, data : [Lines -> Int]]
    \cup [kind : {"end", "noise"}]

-----------------------------------------------------------------------------
(* Where things are in the text. *)

Heads(con) == {p \in DOMAIN con : con[p].kind = "begin" /\ con[p].form # "bare"}

Openers(con, s) == {p \in DOMAIN con : con[p].kind = "begin" /\ con[p].stamp = s}

PrintedStamps(con) == {con[p].stamp : p \in Heads(con)}

HasEnd(con) == \E p \in DOMAIN con : con[p].kind = "end"

\* From a header to the next END; to the end of the text when there is none.
Block(con, p) ==
  {q \in DOMAIN con : q > p /\ \A r \in DOMAIN con : p < r /\ r <= q => con[r].kind # "end"}

-----------------------------------------------------------------------------
(* decode_one *)

\* The lines of right length and index i in the blocks of one stamp.
Candidates(con, s, i) ==
  {q \in UNION {Block(con, p) : p \in Openers(con, s)} :
      con[q].kind = "line" /\ con[q].index = i}

\* Seeded fault: a later candidate overwrites an earlier one.
MutAssembled(con, s) == [i \in Lines |-> con[Max(Candidates(con, s, i))].text]

\* cand.setdefault: the first candidate of each index, whatever the later copies carry.
Assembled(con, s) == [i \in Lines |-> con[Min(Candidates(con, s, i))].text]

\* Seeded fault: the hash is not compared.
MutDecodeIndexed(con, p) ==
  LET s == con[p].stamp IN
  IF \A i \in Lines : Candidates(con, s, i) # {} THEN {Assembled(con, s)} ELSE {}

DecodeIndexed(con, p) ==
  LET s == con[p].stamp IN
  IF (\A i \in Lines : Candidates(con, s, i) # {}) /\ Assembled(con, s) = Payload(con[p].sha)
    THEN {Assembled(con, s)} ELSE {}

\* Everything in the block counts towards size=: one payload and nothing else has that length.
DecodeLegacy(con, p) ==
  {con[q].data : q \in {q \in Block(con, p) : con[q].kind = "single" /\ Block(con, p) = {q}}}

\* The archive of the header at p as a set: {} when decode_one returns None.
DecodeOne(con, p) ==
  IF con[p].form = "full" THEN DecodeIndexed(con, p) ELSE DecodeLegacy(con, p)

\* Seeded fault: only the first head of a stamp is tried.
MutDecode(con, s) ==
  UNION {DecodeOne(con, p) : p \in {q \in Heads(con) : /\ con[q].stamp = s
                                                     /\ \A r \in Heads(con) :
                                                          con[r].stamp = s => q <= r}}

(* decode: the heads of a stamp are tried in order until one succeeds.     *)
Decode(con, s) ==
  LET good == {p \in Heads(con) : con[p].stamp = s /\ DecodeOne(con, p) # {}}
  IN  UNION {DecodeOne(con, p) : p \in {q \in good : \A r \in good : q <= r}}

(* main *)

\* tarfile.open and getnames: the one check a legacy payload gets besides its length.
Readable(d) == \A i \in Lines : d[i] # Wrong

\* What is extracted into the output directory, also by a call that exits 1.
Extracted(con) == {d \in UNION {Decode(con, s) : s \in PrintedStamps(con)} : Readable(d)}

\* Seeded fault: exit 0 as soon as one stamp was extracted.
MutExitZero(con) == Extracted(con) # {}

\* Exit status 0: a head was seen, and every stamp seen was extracted.
ExitZero(con) ==
  /\ Heads(con) # {}
  /\ \A s \in PrintedStamps(con) : \E d \in Decode(con, s) : Readable(d)

-----------------------------------------------------------------------------
(* What a capture still holds, whatever the decoder makes of it. *)

\* A capture that a reassembly "from any copy, by index" can rebuild: one legible header
\* of each boot that announced an archive, and each line of it intact in some block.
Recoverable(con) ==
  /\ Heads(con) # {}
  /\ \A s \in PrintedStamps(con) :
       /\ \E p \in Heads(con) : con[p] = Begin(s, "full", s)
       /\ \A i \in Lines : \E q \in Candidates(con, s, i) : con[q].text = s
=============================================================================
