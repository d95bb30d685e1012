---------------------------- MODULE ConsoleProofs ----------------------------
(***************************************************************************)
(* What is proved of the decoder and of the consoles it reads, for any set *)
(* of machines and any number of lines, copies, boots and spoiled tokens:  *)
(* the probe's transport survives interleaving, and a re-reading never     *)
(* loses an archive.                                                       *)
(***************************************************************************)
EXTENDS SerialConsole, FiniteSetTheorems, TLAPS

(* Induction over the naturals, in the only form that needs no operator    *)
(* parameter: a set of naturals that is not empty has a least element.     *)
(* The intervals 0 .. k are finite sets, which strict inclusion orders     *)
(* well.                                                                   *)
LEMMA LeastExists ==
  ASSUME NEW T \in SUBSET Nat, T # {}
  PROVE  \E x \in T : \A y \in T : x <= y
<1> DEFINE R == StrictSubsetOrdering(Nat)
           D == FiniteSubsetsOf(Nat)
           TT == {0 .. k : k \in T}
<1>1. IsWellFoundedOn(R, D)
  BY FS_StrictSubsetOrderingWellFounded
<1>2. TT \subseteq D
  <2>1. ASSUME NEW k \in T PROVE (0 .. k) \in D
    BY FS_Interval DEF FiniteSubsetsOf
  <2>2. QED BY <2>1
<1>3. TT # {}
  OBVIOUS
<1>4. PICK X \in TT : \A Y \in TT : ~ (<<Y, X>> \in R)
  <2> HIDE DEF R, D, TT
  <2> QED BY <1>1, <1>2, <1>3, WFMin
<1>5. PICK x \in T : X = 0 .. x
  BY <1>4
<1>6. ASSUME NEW y \in T, y < x PROVE FALSE
  <2>1. (0 .. y) \subseteq (0 .. x) /\ (0 .. y) # (0 .. x)
    <3>1. x \in 0 .. x /\ x \notin 0 .. y
      BY <1>6
    <3>2. QED BY <1>6, <3>1
  <2>2. <<0 .. y, 0 .. x>> \in R
    BY <2>1, <1>6 DEF StrictSubsetOrdering
  <2>3. QED BY <2>2, <1>4, <1>5
<1>7. QED BY <1>6

\* The least element of a set of positions, as the decoder picks it.
LEMMA MinIsLeast ==
  ASSUME NEW T \in SUBSET Nat, T # {}
  PROVE  Min(T) \in T /\ \A y \in T : Min(T) <= y
<1>1. \E x \in T : \A y \in T : x <= y
  BY LeastExists
<1>2. QED BY <1>1 DEF Min

LEMMA MinUnique ==
  ASSUME NEW T \in SUBSET Nat, NEW x \in T, \A y \in T : x <= y
  PROVE  Min(T) = x
<1>1. Min(T) \in T /\ Min(T) <= x /\ x <= Min(T)
  BY MinIsLeast
<1>2. Min(T) \in Nat /\ x \in Nat
  BY <1>1
<1>3. QED BY <1>1, <1>2

-----------------------------------------------------------------------------
(* The decoder. *)

\* What holds of every capture of a machine that has booted n times: headers announce
\* archives of its boots; the single-line format is on a Legacy console only.
GenuineText(con, n, legacy) ==
  \A p \in DOMAIN con :
    /\ con[p].kind = "begin" => con[p].sha \in 1 .. n
    /\ ~legacy => con[p].kind # "single"

(* Whatever decode_one returns for an indexed console is the archive of a  *)
(* boot of that machine.                                                   *)
LEMMA DecodeOneGenuine ==
  ASSUME NEW con, NEW n \in Nat, GenuineText(con, n, FALSE), NEW p \in Heads(con)
  PROVE  DecodeOne(con, p) \subseteq {Payload(b) : b \in 1 .. n}
<1>1. CASE con[p].form = "full"
  BY <1>1 DEF DecodeOne, DecodeIndexed, Heads, GenuineText
<1>2. CASE con[p].form # "full"
  <2>1. DecodeLegacy(con, p) = {}
    BY DEF DecodeLegacy, Block, GenuineText
  <2>2. QED BY <1>2, <2>1 DEF DecodeOne
<1>3. QED BY <1>1, <1>2

(* So is whatever the decoder extracts, from a capture with any number of  *)
(* stamps, whether it exits 0 or 1.                                        *)
LEMMA ExtractedGenuine ==
  ASSUME NEW con, NEW n \in Nat, GenuineText(con, n, FALSE)
  PROVE  Extracted(con) \subseteq {Payload(b) : b \in 1 .. n}
<1>1. ASSUME NEW s PROVE Decode(con, s) \subseteq {Payload(b) : b \in 1 .. n}
  <2> DEFINE good == {p \in Heads(con) : con[p].stamp = s /\ DecodeOne(con, p) # {}}
  <2>1. ASSUME NEW d \in Decode(con, s) PROVE d \in {Payload(b) : b \in 1 .. n}
    <3>1. PICK p \in good : d \in DecodeOne(con, p)
      BY <2>1 DEF Decode
    <3>2. p \in Heads(con)
      BY <3>1
    <3>3. QED BY <3>1, <3>2, DecodeOneGenuine
  <2>2. QED BY <2>1
<1>2. QED BY <1>1 DEF Extracted

(* Exit status 0 means that something was extracted. *)
LEMMA ExitZeroExtracts ==
  ASSUME NEW con, ExitZero(con)
  PROVE  Extracted(con) # {}
<1>1. PICK p \in Heads(con) : TRUE
  BY DEF ExitZero
<1>2. con[p].stamp \in PrintedStamps(con)
  BY <1>1 DEF PrintedStamps
<1>3. PICK d \in Decode(con, con[p].stamp) : Readable(d)
  BY <1>2 DEF ExitZero
<1>4. QED BY <1>2, <1>3 DEF Extracted

(* The decoder returns archives, whatever the text. *)
LEMMA ExtractedType ==
  ASSUME NEW con \in Seq(Token)
  PROVE  Extracted(con) \in SUBSET [Lines -> Int]
<1>1. ASSUME NEW p \in Heads(con) PROVE DecodeOne(con, p) \subseteq [Lines -> Int]
  <2>1. p \in DOMAIN con /\ con[p] \in Token /\ con[p].kind = "begin"
    BY <1>1 DEF Heads
  <2>2. con[p].sha \in Int
    BY <2>1 DEF Token
  <2>3. DecodeIndexed(con, p) \subseteq [Lines -> Int]
    BY <2>2 DEF DecodeIndexed, Payload
  <2>4. DecodeLegacy(con, p) \subseteq [Lines -> Int]
    <3>1. ASSUME NEW q \in DOMAIN con, con[q].kind = "single"
          PROVE con[q].data \in [Lines -> Int]
      <4>1. con[q] \in Token
        OBVIOUS
      <4>2. QED BY <3>1, <4>1 DEF Token
    <3>2. QED BY <3>1 DEF DecodeLegacy, Block
  <2>5. QED BY <2>3, <2>4 DEF DecodeOne
<1>2. ASSUME NEW s PROVE Decode(con, s) \subseteq [Lines -> Int]
  <2> DEFINE good == {p \in Heads(con) : con[p].stamp = s /\ DecodeOne(con, p) # {}}
  <2>1. ASSUME NEW d \in Decode(con, s) PROVE d \in [Lines -> Int]
    <3>1. PICK p \in good : d \in DecodeOne(con, p)
      BY <2>1 DEF Decode
    <3>2. QED BY <3>1, <1>1
  <2>2. QED BY <2>1
<1>3. QED BY <1>2 DEF Extracted

-----------------------------------------------------------------------------
(* The tokens. *)

(* What a probe writes at any place of its script. *)
LEMMA ScriptCases ==
  ASSUME NEW v \in VMs, NEW b, NEW n \in Nat
  PROVE  \/ Script(v, b, n) = Begin(b, IF v \in Legacy THEN "sized" ELSE "full", b)
         \/ Script(v, b, n) = End
         \/ v \in Legacy /\ Script(v, b, n) = Single(Payload(b))
         \/ v \notin Legacy /\ \E i \in Lines : Script(v, b, n) = Line(i, b)
<1> DEFINE k == n % BlockLen(v)
<1>1. /\ BlockLen(v) \in Nat /\ BlockLen(v) >= 3
      /\ v \notin Legacy => BlockLen(v) = NL + 2
  BY NLAssumption DEF BlockLen
<1>2. k \in 0 .. BlockLen(v) - 1
  BY <1>1
<1>3. CASE k = 0
  BY <1>1, <1>3 DEF Script
<1>4. CASE k # 0 /\ k = BlockLen(v) - 1
  BY <1>1, <1>4 DEF Script
<1>5. CASE k # 0 /\ k # BlockLen(v) - 1 /\ v \in Legacy
  BY <1>5 DEF Script
<1>6. CASE k # 0 /\ k # BlockLen(v) - 1 /\ v \notin Legacy
  <2>1. Script(v, b, n) = Line(k - 1, b)
    BY <1>6 DEF Script
  <2>2. k - 1 \in Lines
    BY <1>1, <1>2, <1>6, NLAssumption DEF Lines
  <2>3. QED BY <1>6, <2>1, <2>2
<1>7. QED BY <1>3, <1>4, <1>5, <1>6

(* Any token a probe means to write is one, and so is what becomes of it.  *)
LEMMA ScriptToken ==
  ASSUME ConsoleTypeOK, NEW v \in VMs
  PROVE  /\ Script(v, boot[v], pos[v]) \in Token
         /\ GenuineText(<<Script(v, boot[v], pos[v])>>, boot[v], v \in Legacy)
<1> DEFINE b == boot[v]
           t == Script(v, b, pos[v])
<1>1. pos[v] \in Nat /\ b \in 1 .. b /\ b \in Int
  BY DEF ConsoleTypeOK, Boots
<1>2. CASE t = Begin(b, IF v \in Legacy THEN "sized" ELSE "full", b)
  <2>1. t \in Token /\ t.kind = "begin" /\ t.sha = b
    BY <1>1, <1>2 DEF Begin, Token, Forms
  <2>2. QED BY <2>1, <1>1 DEF GenuineText
<1>3. CASE t = End
  BY <1>3 DEF End, Token, GenuineText
<1>4. CASE v \in Legacy /\ t = Single(Payload(b))
  <2>1. Payload(b) \in [Lines -> Int]
    BY <1>1 DEF Payload
  <2>2. QED BY <1>4, <2>1 DEF Single, Token, GenuineText
<1>5. ASSUME NEW i \in Lines, t = Line(i, b) PROVE t \in Token /\ t.kind = "line"
  BY <1>1, <1>5 DEF Line, Token
<1> HIDE DEF t
<1>6. ASSUME NEW i \in Lines, t = Line(i, b)
      PROVE  t \in Token /\ GenuineText(<<t>>, b, v \in Legacy)
  BY <1>5, <1>6 DEF GenuineText
<1>7. QED BY <1>1, <1>2, <1>3, <1>4, <1>6, ScriptCases DEF t

LEMMA SpoilToken ==
  ASSUME NEW t \in Token, NEW n \in Nat, NEW u \in Spoil(t, n), NEW b \in Nat, NEW legacy,
         GenuineText(<<t>>, b, legacy)
  PROVE  u \in Token /\ GenuineText(<<u>>, b, legacy)
<1>1. CASE u = Noise
  BY <1>1 DEF Noise, Token, GenuineText
<1>2. CASE t.kind = "begin" /\ \E f \in {"sized", "bare"} : u = Begin(t.stamp, f, t.sha)
  BY <1>2 DEF Begin, Token, Forms, GenuineText
<1>3. CASE t.kind = "begin" /\ u = Begin(-n, t.form, t.sha)
  BY <1>3 DEF Begin, Token, GenuineText
<1>4. CASE t.kind = "line" /\ u = Line(t.index, Wrong)
  BY <1>4 DEF Line, Token, Wrong, GenuineText
<1>5. CASE t.kind = "single" /\ \E w \in {Wrong, Slip} : u = Single([i \in Lines |-> w])
  BY <1>5 DEF Token, Single, Wrong, Slip, GenuineText
<1>6. QED BY <1>1, <1>2, <1>3, <1>4, <1>5 DEF Spoil

LEMMA AppendGenuine ==
  ASSUME NEW con \in Seq(Token), NEW t \in Token, NEW n, NEW legacy,
         GenuineText(con, n, legacy), GenuineText(<<t>>, n, legacy)
  PROVE  GenuineText(Append(con, t), n, legacy)
<1>1. /\ t.kind = "begin" => t.sha \in 1 .. n
      /\ ~legacy => t.kind # "single"
  BY DEF GenuineText
<1>2. DOMAIN Append(con, t) = 1 .. Len(con) + 1 /\ DOMAIN con = 1 .. Len(con)
  OBVIOUS
<1>3. /\ \A p \in 1 .. Len(con) : Append(con, t)[p] = con[p]
      /\ Append(con, t)[Len(con) + 1] = t
  OBVIOUS
<1>4. QED BY <1>1, <1>2, <1>3 DEF GenuineText

\* A text that was genuine for n boots is so for one more.
LEMMA MoreBootsGenuine ==
  ASSUME NEW con, NEW n \in Nat, NEW legacy, GenuineText(con, n, legacy)
  PROVE  GenuineText(con, n + 1, legacy)
BY DEF GenuineText

-----------------------------------------------------------------------------
(* What the decoder returns for a stamp of an indexed console. *)

\* No single-line payload: the console of a probe that writes indexed lines.
Indexed(con) == \A p \in DOMAIN con : con[p].kind # "single"

(* A head of an indexed console yields the one archive its stamp assembles *)
(* to, or nothing.                                                         *)
LEMMA HeadYields ==
  ASSUME NEW con, Indexed(con), NEW p \in Heads(con), DecodeOne(con, p) # {}
  PROVE  LET s == con[p].stamp IN
         /\ con[p].form = "full"
         /\ \A i \in Lines : Candidates(con, s, i) # {}
         /\ Assembled(con, s) = Payload(con[p].sha)
         /\ DecodeOne(con, p) = {Assembled(con, s)}
<1>1. DecodeLegacy(con, p) = {}
  BY DEF DecodeLegacy, Block, Indexed
<1>2. con[p].form = "full"
  BY <1>1 DEF DecodeOne
<1>3. DecodeOne(con, p) = DecodeIndexed(con, p)
  BY <1>2 DEF DecodeOne
<1>4. QED BY <1>2, <1>3 DEF DecodeIndexed

(* Whichever of its heads succeeds first, a stamp yields what it assembles *)
(* to.                                                                     *)
LEMMA StampYields ==
  ASSUME NEW con \in Seq(Token), Indexed(con), NEW p \in Heads(con), DecodeOne(con, p) # {}
  PROVE  Decode(con, con[p].stamp) = {Assembled(con, con[p].stamp)}
<1> DEFINE s == con[p].stamp
           good == {q \in Heads(con) : con[q].stamp = s /\ DecodeOne(con, q) # {}}
<1>1. good \in SUBSET Nat /\ p \in good
  BY DEF Heads
<1>2. \A q \in good : DecodeOne(con, q) = {Assembled(con, s)}
  BY HeadYields
<1>3. PICK q \in good : \A r \in good : q <= r
  BY <1>1, LeastExists
<1>4. Decode(con, s) = UNION {DecodeOne(con, q1) : q1 \in {q1 \in good : \A r \in good : q1 <= r}}
  BY DEF Decode
<1> HIDE DEF good
<1>5. QED BY <1>2, <1>3, <1>4

LEMMA CandidatePositions ==
  ASSUME NEW con \in Seq(Token), NEW s, NEW i
  PROVE  Candidates(con, s, i) \in SUBSET Nat
BY DEF Candidates, Block

(* One more token at the end leaves the candidates before it what they     *)
(* were: a block only grows at its end, and only the token itself is new.  *)
LEMMA AppendCandidates ==
  ASSUME NEW con \in Seq(Token), NEW t \in Token, NEW s, NEW i
  PROVE  /\ Candidates(con, s, i) \subseteq Candidates(Append(con, t), s, i)
         /\ \A q \in Candidates(Append(con, t), s, i) :
              q \in Candidates(con, s, i) \/ q = Len(con) + 1
<1> DEFINE con2 == Append(con, t)
<1>1. /\ DOMAIN con = 1 .. Len(con) /\ DOMAIN con2 = 1 .. Len(con) + 1 /\ Len(con) \in Nat
      /\ \A p \in 1 .. Len(con) : con2[p] = con[p]
  OBVIOUS
<1> HIDE DEF con2
<1>2. ASSUME NEW p \in DOMAIN con, NEW q \in DOMAIN con
      PROVE  q \in Block(con, p) <=> q \in Block(con2, p)
  BY <1>1 DEF Block
<1>3. ASSUME NEW q \in Candidates(con, s, i) PROVE q \in Candidates(con2, s, i)
  <2>1. PICK p \in Openers(con, s) : q \in Block(con, p)
    BY <1>3 DEF Candidates
  <2>2. p \in DOMAIN con /\ q \in DOMAIN con /\ p \in Openers(con2, s)
    BY <2>1, <1>1 DEF Openers, Block
  <2>3. QED BY <2>1, <2>2, <1>1, <1>2, <1>3 DEF Candidates
<1>4. ASSUME NEW q \in Candidates(con2, s, i), q # Len(con) + 1
      PROVE  q \in Candidates(con, s, i)
  <2>1. PICK p \in Openers(con2, s) : q \in Block(con2, p)
    BY <1>4 DEF Candidates
  <2>2. q \in DOMAIN con2 /\ p \in DOMAIN con2 /\ q > p
    BY <2>1 DEF Openers, Block
  <2>3. p \in DOMAIN con /\ q \in DOMAIN con
    BY <2>2, <1>1, <1>4
  <2>4. p \in Openers(con, s)
    BY <2>1, <2>3, <1>1 DEF Openers
  <2>5. QED BY <2>1, <2>3, <2>4, <1>1, <1>2, <1>4 DEF Candidates
<1>5. QED BY <1>3, <1>4 DEF con2

(* So a stamp that had a candidate for each line assembles to the same     *)
(* archive as before.                                                      *)
LEMMA AppendAssembled ==
  ASSUME NEW con \in Seq(Token), NEW t \in Token, NEW s,
         \A i \in Lines : Candidates(con, s, i) # {}
  PROVE  Assembled(Append(con, t), s) = Assembled(con, s)
<1> DEFINE con2 == Append(con, t)
<1>1. con2 \in Seq(Token)
  OBVIOUS
<1>2. ASSUME NEW i \in Lines
      PROVE  con2[Min(Candidates(con2, s, i))].text = con[Min(Candidates(con, s, i))].text
  <2> DEFINE C == Candidates(con, s, i)
             C2 == Candidates(con2, s, i)
             m == Min(C)
  <2>1. C \in SUBSET Nat /\ C2 \in SUBSET Nat /\ C # {}
    BY <1>1, CandidatePositions
  <2>2. C \subseteq DOMAIN con
    BY DEF Candidates, Block
  <2>3. m \in C /\ \A q \in C : m <= q
    BY <2>1, MinIsLeast
  <2>4. m \in C2 /\ \A q \in C2 : q \in C \/ q = Len(con) + 1
    BY <2>3, AppendCandidates
  <2>5. m \in 1 .. Len(con)
    BY <2>2, <2>3
  <2>6. \A q \in C2 : m <= q
    <3> HIDE DEF C, C2, m
    <3> QED BY <2>3, <2>4, <2>5
  <2>7. Min(C2) = m
    <3> HIDE DEF C, C2, m
    <3> QED BY <2>1, <2>4, <2>6, MinUnique
  <2>8. con2[m] = con[m]
    BY <2>5
  <2>9. QED BY <2>7, <2>8
<1>3. QED BY <1>2 DEF Assembled

(* Nothing is lost by reading on: what a capture yields, the next one does *)
(* too.                                                                    *)
LEMMA AppendExtracts ==
  ASSUME NEW con \in Seq(Token), NEW t \in Token, Indexed(Append(con, t))
  PROVE  Extracted(con) \subseteq Extracted(Append(con, t))
<1> DEFINE con2 == Append(con, t)
<1>1. /\ DOMAIN con = 1 .. Len(con) /\ DOMAIN con2 = 1 .. Len(con) + 1
      /\ \A p \in 1 .. Len(con) : con2[p] = con[p]
      /\ con2 \in Seq(Token)
  OBVIOUS
<1> HIDE DEF con2
<1>2. Indexed(con) /\ Indexed(con2) /\ Heads(con) \subseteq Heads(con2)
  BY <1>1 DEF Indexed, Heads, con2
<1>3. ASSUME NEW d \in Extracted(con) PROVE d \in Extracted(con2)
  <2>1. PICK s \in PrintedStamps(con) : d \in Decode(con, s) /\ Readable(d)
    BY <1>3 DEF Extracted
  <2>2. PICK p \in Heads(con) : con[p].stamp = s /\ d \in DecodeOne(con, p)
    <3> DEFINE good == {p \in Heads(con) : con[p].stamp = s /\ DecodeOne(con, p) # {}}
    <3>1. PICK p \in good : d \in DecodeOne(con, p)
      BY <2>1 DEF Decode
    <3>2. QED BY <3>1
  <2>3. /\ con[p].form = "full"
        /\ \A i \in Lines : Candidates(con, s, i) # {}
        /\ Assembled(con, s) = Payload(con[p].sha)
        /\ d = Assembled(con, s)
    BY <2>2, <1>2, HeadYields
  <2>4. p \in Heads(con2) /\ con2[p] = con[p]
    BY <2>2, <1>1, <1>2 DEF Heads
  <2>5. Assembled(con2, s) = d
    BY <2>3, AppendAssembled DEF con2
  <2>6. \A i \in Lines : Candidates(con2, s, i) # {}
    BY <2>3, AppendCandidates DEF con2
  <2>7. DecodeOne(con2, p) = {d}
    BY <2>2, <2>3, <2>4, <2>5, <2>6 DEF DecodeOne, DecodeIndexed
  <2>8. Decode(con2, s) = {d}
    BY <2>2, <2>4, <2>5, <2>7, <1>1, <1>2, StampYields
  <2>9. s \in PrintedStamps(con2)
    BY <2>2, <2>4 DEF PrintedStamps
  <2>10. QED BY <2>1, <2>8, <2>9 DEF Extracted
<1>4. QED BY <1>3 DEF con2

-----------------------------------------------------------------------------
(* Every step of the machines and their probes. *)

\* A probe prints: whatever reaches the console is a token of this boot.
LEMMA PrintStep ==
  ASSUME ConsoleTypeOK, NEW v \in VMs, PrintIntact(v) \/ PrintSpoiled(v)
  PROVE  \E t \in Token :
           /\ t \in {Script(v, boot[v], pos[v])}
                     \cup Spoil(Script(v, boot[v], pos[v]), Len(console[v]) + 1)
           /\ GenuineText(<<t>>, boot[v], v \in Legacy)
           /\ Emit(v, t)
           /\ spoiled' \in 0 .. MaxSpoiled
<1> DEFINE t == Script(v, boot[v], pos[v])
<1>1. t \in Token /\ GenuineText(<<t>>, boot[v], v \in Legacy)
  BY ScriptToken
<1>2. spoiled \in 0 .. MaxSpoiled /\ boot[v] \in Nat /\ Len(console[v]) + 1 \in Nat \ {0}
  BY DEF ConsoleTypeOK, Boots
<1>3. CASE PrintIntact(v)
  BY <1>1, <1>2, <1>3 DEF PrintIntact
<1>4. CASE PrintSpoiled(v)
  <2>1. PICK u \in Spoil(t, Len(console[v]) + 1) : Emit(v, u)
    BY <1>4 DEF PrintSpoiled
  <2>2. u \in Token /\ GenuineText(<<u>>, boot[v], v \in Legacy)
    BY <1>1, <1>2, <2>1, SpoilToken
  <2>3. spoiled' \in 0 .. MaxSpoiled
    BY <1>2, <1>4, ConsoleAssumption DEF PrintSpoiled
  <2>4. QED BY <1>2, <2>1, <2>2, <2>3
<1>5. QED BY <1>3, <1>4

LEMMA EmitType ==
  ASSUME ConsoleTypeOK, NEW v \in VMs, NEW t \in Token, Emit(v, t), spoiled' \in 0 .. MaxSpoiled
  PROVE  /\ ConsoleTypeOK' /\ boot' = boot
         /\ console'[v] = Append(console[v], t)
         /\ \A w \in VMs : w # v => console'[w] = console[w]
<1> USE DEF Emit
<1>1. pos[v] + 1 <= ScriptLen(v)
  BY NLAssumption, ConsoleAssumption DEF ConsoleTypeOK, ScriptLen, BlockLen
<1>2. console' \in [VMs -> Seq(Token)]
  BY DEF ConsoleTypeOK
<1>3. ConsoleTypeOK'
  BY <1>1, <1>2 DEF ConsoleTypeOK
<1>4. QED BY <1>3 DEF ConsoleTypeOK

LEMMA StopType ==
  ASSUME ConsoleTypeOK, NEW v \in VMs, Stop(v)
  PROVE  ConsoleTypeOK' /\ boot' = boot /\ console' = console
BY DEF Stop, ConsoleTypeOK, VmStatus

LEMMA RestartType ==
  ASSUME ConsoleTypeOK, NEW v \in VMs, Restart(v)
  PROVE  /\ ConsoleTypeOK' /\ console' = console
         /\ boot'[v] = boot[v] + 1
         /\ \A w \in VMs : w # v => boot'[w] = boot[w]
<1> USE DEF Restart
<1>1. /\ boot' \in [VMs -> Boots]
      /\ boot'[v] = boot[v] + 1
      /\ \A w \in VMs : w # v => boot'[w] = boot[w]
  <2>1. boot[v] \in 1 .. MaxBoots /\ boot[v] + 1 \in 1 .. MaxBoots
    BY ConsoleAssumption DEF ConsoleTypeOK, Boots
  <2>2. QED BY <2>1 DEF ConsoleTypeOK, Boots
<1>2. \A w \in VMs : ScriptLen(w) \in Nat
  BY NLAssumption, ConsoleAssumption DEF ScriptLen, BlockLen
<1>3. ConsoleTypeOK'
  BY <1>1, <1>2 DEF ConsoleTypeOK, VmStatus
<1>4. QED BY <1>1, <1>3

LEMMA ConsoleInitType == ConsoleInit => ConsoleTypeOK
<1>1. \A v \in VMs : ScriptLen(v) \in Nat
  BY NLAssumption, ConsoleAssumption DEF ScriptLen, BlockLen
<1>2. QED BY <1>1, ConsoleAssumption DEF ConsoleInit, ConsoleTypeOK, VmStatus, Boots

LEMMA ConsoleStepType ==
  ASSUME ConsoleTypeOK, [ConsoleNext]_consoleVars
  PROVE  ConsoleTypeOK'
<1>1. CASE UNCHANGED consoleVars
  BY <1>1 DEF consoleVars, ConsoleTypeOK
<1>2. ASSUME NEW v \in VMs, PrintIntact(v) \/ PrintSpoiled(v) PROVE ConsoleTypeOK'
  BY <1>2, PrintStep, EmitType
<1>3. ASSUME NEW v \in VMs, Stop(v) \/ Restart(v) PROVE ConsoleTypeOK'
  BY <1>3, StopType, RestartType
<1>4. QED BY <1>1, <1>2, <1>3 DEF ConsoleNext

(* The machines and their consoles have their types, and no probe writes   *)
(* past the end of its script, whatever is spoiled and however often the   *)
(* platform stops and starts a machine.                                    *)
THEOREM ConsoleTypeCorrect == ConsoleSpec => []ConsoleTypeOK
<1>1. ConsoleInit => ConsoleTypeOK
  BY ConsoleInitType
<1>2. ConsoleTypeOK /\ [ConsoleNext]_consoleVars => ConsoleTypeOK'
  BY ConsoleStepType
<1>3. QED BY <1>1, <1>2, PTL DEF ConsoleSpec

-----------------------------------------------------------------------------
(* The order of a console. *)

\* A token that a probe of boot b wrote, or what became of it short of damage of the
\* same length: a header keeps the stamp b or has one that nobody prints, a line is b's.
Dated(t, b, legacy) ==
  /\ t.kind = "begin" =>
       t.sha = b /\ (t.stamp = b \/ t.stamp < 0) /\ (legacy => t.form # "full")
  /\ t.kind = "line" => t.text = b

\* The boot that a header or a line is of.
Era(t) == IF t.kind = "begin" THEN t.sha ELSE t.text

\* What was written by boots up to b, one after the other.
Chronicle(con, b, legacy) ==
  /\ \A p \in DOMAIN con : \E e \in 1 .. b : Dated(con[p], e, legacy)
  /\ \A p, q \in DOMAIN con :
       p < q /\ con[p].kind \in {"begin", "line"} /\ con[q].kind \in {"begin", "line"}
         => Era(con[p]) <= Era(con[q])

\* Every console is one.
Chronicles == \A v \in VMs : Chronicle(console[v], boot[v], v \in Legacy)

LEMMA PrintedDated ==
  ASSUME ConsoleTypeOK, "same_length" \notin Spoilings, NEW v \in VMs, NEW n \in Nat \ {0},
         NEW u \in {Script(v, boot[v], pos[v])} \cup Spoil(Script(v, boot[v], pos[v]), n)
  PROVE  Dated(u, boot[v], v \in Legacy)
<1> DEFINE b == boot[v]
           t == Script(v, b, pos[v])
<1>1. Dated(t, b, v \in Legacy) /\ (t.kind = "begin" => t.stamp = b)
  <2>1. CASE t = Begin(b, IF v \in Legacy THEN "sized" ELSE "full", b)
    BY <2>1 DEF Begin, Dated
  <2>2. CASE t = End \/ t = Single(Payload(b)) \/ \E i \in Lines : t = Line(i, b)
    <3> HIDE DEF t
    <3> QED BY <2>2 DEF End, Single, Line, Dated
  <2>3. pos[v] \in Nat
    BY DEF ConsoleTypeOK
  <2>4. QED BY <2>1, <2>2, <2>3, ScriptCases
<1> HIDE DEF t
<1>2. CASE u = t
  BY <1>1, <1>2
<1>3. CASE u = Noise
  BY <1>3 DEF Noise, Dated
<1>4. CASE t.kind = "begin" /\ \E f \in {"sized", "bare"} : u = Begin(t.stamp, f, t.sha)
  BY <1>1, <1>4 DEF Begin, Dated
<1>5. CASE t.kind = "begin" /\ u = Begin(-n, t.form, t.sha)
  BY <1>1, <1>5 DEF Begin, Dated
<1>6. QED BY <1>2, <1>3, <1>4, <1>5 DEF Spoil, t

LEMMA AppendChronicle ==
  ASSUME NEW con \in Seq(Token), NEW t \in Token, NEW b \in Nat \ {0}, NEW legacy,
         Chronicle(con, b, legacy), Dated(t, b, legacy)
  PROVE  Chronicle(Append(con, t), b, legacy)
<1> DEFINE con2 == Append(con, t)
<1>1. /\ DOMAIN con = 1 .. Len(con) /\ DOMAIN con2 = 1 .. Len(con) + 1 /\ Len(con) \in Nat
      /\ \A p \in 1 .. Len(con) : con2[p] = con[p]
      /\ con2[Len(con) + 1] = t
  OBVIOUS
<1> HIDE DEF con2
<1>2. ASSUME NEW p \in DOMAIN con2 PROVE \E e \in 1 .. b : Dated(con2[p], e, legacy)
  BY <1>1 DEF Chronicle
<1>3. ASSUME NEW p \in DOMAIN con2, con2[p].kind \in {"begin", "line"}
      PROVE  Era(con2[p]) \in 1 .. b
  BY <1>2, <1>3 DEF Dated, Era
<1>4. t.kind \in {"begin", "line"} => Era(t) = b
  BY DEF Dated, Era
<1>5. ASSUME NEW p \in DOMAIN con2, NEW q \in DOMAIN con2, p < q,
             con2[p].kind \in {"begin", "line"}, con2[q].kind \in {"begin", "line"}
      PROVE  Era(con2[p]) <= Era(con2[q])
  <2>1. CASE q = Len(con) + 1
    BY <1>1, <1>3, <1>4, <1>5, <2>1
  <2>2. CASE q # Len(con) + 1
    <3>1. p \in DOMAIN con /\ q \in DOMAIN con
      BY <1>1, <1>5, <2>2
    <3>2. con2[p] = con[p] /\ con2[q] = con[q]
      BY <1>1, <3>1
    <3>3. QED BY <1>5, <3>1, <3>2 DEF Chronicle
  <2>3. QED BY <2>1, <2>2
<1>6. QED BY <1>2, <1>5 DEF Chronicle, con2

(* Boots follow each other on a console: nobody writes under the stamp of  *)
(* an earlier boot.                                                        *)
LEMMA ChroniclesStep ==
  ASSUME ConsoleTypeOK, Chronicles, "same_length" \notin Spoilings, [ConsoleNext]_consoleVars
  PROVE  Chronicles'
<1>0. ASSUME NEW v \in VMs PROVE boot[v] \in Nat \ {0} /\ console[v] \in Seq(Token)
  BY DEF ConsoleTypeOK, Boots
<1>1. CASE UNCHANGED consoleVars
  BY <1>1 DEF consoleVars, Chronicles
<1>2. ASSUME NEW v \in VMs, PrintIntact(v) \/ PrintSpoiled(v) PROVE Chronicles'
  <2>1. PICK t \in Token :
           /\ t \in {Script(v, boot[v], pos[v])}
                     \cup Spoil(Script(v, boot[v], pos[v]), Len(console[v]) + 1)
           /\ Emit(v, t)
           /\ spoiled' \in 0 .. MaxSpoiled
    BY <1>2, PrintStep
  <2>2. Dated(t, boot[v], v \in Legacy)
    <3>1. Len(console[v]) + 1 \in Nat \ {0}
      BY <1>0
    <3>2. QED BY <2>1, <3>1, PrintedDated
  <2>3. Chronicle(Append(console[v], t), boot[v], v \in Legacy)
    BY <1>0, <2>2, AppendChronicle DEF Chronicles
  <2>4. /\ boot' = boot /\ console'[v] = Append(console[v], t)
        /\ \A w \in VMs : w # v => console'[w] = console[w]
    BY <2>1, EmitType
  <2>5. QED BY <2>3, <2>4 DEF Chronicles
<1>3. ASSUME NEW v \in VMs, Stop(v) PROVE Chronicles'
  BY <1>3, StopType DEF Chronicles
<1>4. ASSUME NEW v \in VMs, Restart(v) PROVE Chronicles'
  <2>1. /\ console' = console /\ boot'[v] = boot[v] + 1
        /\ \A w \in VMs : w # v => boot'[w] = boot[w]
    BY <1>4, RestartType
  <2>2. Chronicle(console[v], boot[v] + 1, v \in Legacy)
    BY <1>0 DEF Chronicles, Chronicle
  <2>3. QED BY <2>1, <2>2 DEF Chronicles
<1>5. QED BY <1>1, <1>2, <1>3, <1>4 DEF ConsoleNext

(* On such a console the candidate that the decoder takes for a line is of *)
(* the stamp's own boot as soon as any is: it lies between an opener of    *)
(* that boot and a line of it.                                             *)
LEMMA FirstCandidateIsOwn ==
  ASSUME NEW con \in Seq(Token), NEW b \in Nat, NEW legacy, Chronicle(con, b, legacy),
         NEW s \in Nat \ {0}, NEW i \in Lines,
         NEW q \in Candidates(con, s, i), con[q].text = s
  PROVE  con[Min(Candidates(con, s, i))].text = s
<1> DEFINE C == Candidates(con, s, i)
           m == Min(C)
<1>1. m \in C /\ m <= q
  BY CandidatePositions, MinIsLeast
<1>2. PICK p \in Openers(con, s) : m \in Block(con, p)
  BY <1>1 DEF Candidates
<1>3. /\ p \in DOMAIN con /\ con[p].kind = "begin" /\ con[p].stamp = s
      /\ m \in DOMAIN con /\ p < m
  BY <1>2 DEF Openers, Block
<1>4. /\ con[m].kind = "line" /\ q \in DOMAIN con /\ con[q].kind = "line"
  BY <1>1 DEF Candidates, Block
<1> HIDE DEF C, m
<1>5. con[p].sha = s
  BY <1>3 DEF Chronicle, Dated
<1>6. s <= con[m].text
  BY <1>3, <1>4, <1>5 DEF Chronicle, Era
<1>7. con[m].text <= s
  BY <1>1, <1>3, <1>4 DEF Chronicle, Era
<1>8. con[m].text \in Nat
  BY <1>3, <1>4 DEF Chronicle, Dated
<1>9. QED BY <1>6, <1>7, <1>8 DEF m, C

(* So what can be rebuilt is extracted. *)
LEMMA RecoverableExtracted ==
  ASSUME NEW con \in Seq(Token), NEW b \in Nat, NEW legacy, Chronicle(con, b, legacy),
         GenuineText(con, b, legacy), Recoverable(con)
  PROVE  ExitZero(con)
<1>1. ~legacy
  <2>1. PICK p \in Heads(con) : con[p] = Begin(con[p].stamp, "full", con[p].stamp)
    <3>1. PICK p \in Heads(con) : TRUE
      BY DEF Recoverable
    <3>2. con[p].stamp \in PrintedStamps(con)
      BY DEF PrintedStamps
    <3>3. QED BY <3>2 DEF Recoverable, Begin
  <2>2. p \in DOMAIN con /\ con[p].kind = "begin" /\ con[p].form = "full"
    BY <2>1 DEF Heads, Begin
  <2>3. QED BY <2>2 DEF Chronicle, Dated
<1>2. Indexed(con)
  BY <1>1 DEF Indexed, GenuineText
<1>3. ASSUME NEW s \in PrintedStamps(con)
      PROVE  \E d \in Decode(con, s) : Readable(d)
  <2>1. PICK p \in Heads(con) : con[p] = Begin(s, "full", s)
    BY <1>3 DEF Recoverable
  <2>2. /\ con[p].kind = "begin" /\ con[p].form = "full" /\ con[p].stamp = s /\ con[p].sha = s
        /\ p \in DOMAIN con
    BY <2>1 DEF Begin, Heads
  <2>3. s \in Nat \ {0}
    BY <2>2 DEF GenuineText
  <2>4. \A i \in Lines : Candidates(con, s, i) # {}
    BY <1>3 DEF Recoverable
  <2>5. ASSUME NEW i \in Lines PROVE con[Min(Candidates(con, s, i))].text = s
    <3>1. PICK q \in Candidates(con, s, i) : con[q].text = s
      BY <1>3 DEF Recoverable
    <3>2. QED BY <2>3, <3>1, FirstCandidateIsOwn
  <2>6. Assembled(con, s) = Payload(s)
    BY <2>5 DEF Assembled, Payload
  <2>7. DecodeOne(con, p) = {Payload(s)}
    BY <2>2, <2>4, <2>6 DEF DecodeOne, DecodeIndexed
  <2>8. Decode(con, s) = {Payload(s)}
    BY <1>2, <2>2, <2>6, <2>7, StampYields
  <2>9. Readable(Payload(s))
    BY <2>3 DEF Readable, Payload, Wrong
  <2>10. QED BY <2>8, <2>9
<1>4. QED BY <1>3 DEF ExitZero, Recoverable

-----------------------------------------------------------------------------
(* The stamps of a console. *)

\* A header keeps its boot's stamp, or has one from its own place; no single-line probe
\* writes a full header.
Stamped(con, legacy) ==
  \A p \in DOMAIN con : con[p].kind = "begin" =>
    /\ con[p].stamp \in {con[p].sha, -p}
    /\ legacy => con[p].form # "full"

\* Every console is one.
Stamps == \A v \in VMs : Stamped(console[v], v \in Legacy)

LEMMA PrintedStamped ==
  ASSUME ConsoleTypeOK, NEW v \in VMs, NEW n \in Nat \ {0},
         NEW u \in {Script(v, boot[v], pos[v])} \cup Spoil(Script(v, boot[v], pos[v]), n)
  PROVE  u.kind = "begin" =>
           u.stamp \in {u.sha, -n} /\ (v \in Legacy => u.form # "full")
<1> DEFINE b == boot[v]
           t == Script(v, b, pos[v])
           Good(x) == x.kind = "begin" =>
                        x.stamp \in {x.sha, -n} /\ (v \in Legacy => x.form # "full")
<1>1. Good(t) /\ (t.kind = "begin" => t.stamp = t.sha)
  <2>1. CASE t = Begin(b, IF v \in Legacy THEN "sized" ELSE "full", b)
    BY <2>1 DEF Begin
  <2>2. CASE t = End \/ t = Single(Payload(b)) \/ \E i \in Lines : t = Line(i, b)
    <3>1. t.kind # "begin"
      <4> HIDE DEF t
      <4> QED BY <2>2 DEF End, Single, Line
    <3>2. QED BY <3>1
  <2>3. pos[v] \in Nat
    BY DEF ConsoleTypeOK
  <2>4. QED BY <2>1, <2>2, <2>3, ScriptCases
<1> HIDE DEF t
<1>2. CASE u = t
  BY <1>1, <1>2
<1>3. CASE t.kind = "begin" /\ \E f \in {"sized", "bare"} : u = Begin(t.stamp, f, t.sha)
  BY <1>1, <1>3 DEF Begin
<1>4. CASE t.kind = "begin" /\ u = Begin(-n, t.form, t.sha)
  BY <1>1, <1>4 DEF Begin
<1>5. CASE u.kind # "begin"
  BY <1>5
<1>6. u = t \/ u \in Spoil(t, n)
  BY DEF t
<1>7. QED BY <1>2, <1>3, <1>4, <1>5, <1>6 DEF Spoil, Noise, Line, Single

LEMMA AppendStamped ==
  ASSUME NEW con \in Seq(Token), NEW t \in Token, NEW legacy, Stamped(con, legacy),
         t.kind = "begin" =>
           t.stamp \in {t.sha, -(Len(con) + 1)} /\ (legacy => t.form # "full")
  PROVE  Stamped(Append(con, t), legacy)
<1>1. /\ DOMAIN Append(con, t) = 1 .. Len(con) + 1 /\ DOMAIN con = 1 .. Len(con)
      /\ \A p \in 1 .. Len(con) : Append(con, t)[p] = con[p]
      /\ Append(con, t)[Len(con) + 1] = t
  OBVIOUS
<1>2. QED BY <1>1 DEF Stamped

LEMMA StampsStep ==
  ASSUME ConsoleTypeOK, Stamps, [ConsoleNext]_consoleVars
  PROVE  Stamps'
<1>1. CASE UNCHANGED consoleVars
  BY <1>1 DEF consoleVars, Stamps
<1>2. ASSUME NEW v \in VMs, PrintIntact(v) \/ PrintSpoiled(v) PROVE Stamps'
  <2>0. console[v] \in Seq(Token) /\ Len(console[v]) + 1 \in Nat \ {0}
    BY DEF ConsoleTypeOK
  <2>1. PICK t \in Token :
           /\ t \in {Script(v, boot[v], pos[v])}
                     \cup Spoil(Script(v, boot[v], pos[v]), Len(console[v]) + 1)
           /\ Emit(v, t)
           /\ spoiled' \in 0 .. MaxSpoiled
    BY <1>2, PrintStep
  <2>2. Stamped(Append(console[v], t), v \in Legacy)
    BY <2>0, <2>1, PrintedStamped, AppendStamped DEF Stamps
  <2>3. /\ console'[v] = Append(console[v], t)
        /\ \A w \in VMs : w # v => console'[w] = console[w]
    BY <2>1, EmitType
  <2>4. QED BY <2>2, <2>3 DEF Stamps
<1>3. ASSUME NEW v \in VMs, Stop(v) \/ Restart(v) PROVE Stamps'
  BY <1>3, StopType, RestartType DEF Stamps
<1>4. QED BY <1>1, <1>2, <1>3 DEF ConsoleNext

(* Exit status 0 means that no full header is passed over: the archive of  *)
(* each is extracted, since headers of one stamp announce one archive.     *)
LEMMA ExitZeroTakesAll ==
  ASSUME NEW con \in Seq(Token), NEW n \in Nat, NEW legacy,
         GenuineText(con, n, legacy), Stamped(con, legacy), ExitZero(con),
         NEW p \in DOMAIN con, con[p].kind = "begin", con[p].form = "full"
  PROVE  Payload(con[p].sha) \in Extracted(con)
<1> DEFINE s == con[p].stamp
<1>1. Indexed(con) /\ p \in Heads(con) /\ s \in PrintedStamps(con)
  BY DEF Indexed, GenuineText, Stamped, Heads, PrintedStamps
<1>2. PICK d \in Decode(con, s) : Readable(d)
  BY <1>1 DEF ExitZero
<1>3. PICK q \in Heads(con) : con[q].stamp = s /\ d \in DecodeOne(con, q)
  BY <1>2 DEF Decode
<1>4. d = Payload(con[q].sha)
  BY <1>1, <1>3, HeadYields
<1>5. con[q].sha = con[p].sha
  <2>1. /\ q \in Nat \ {0} /\ p \in Nat \ {0} /\ q \in DOMAIN con /\ con[q].kind = "begin"
        /\ con[p].sha \in Nat \ {0} /\ con[q].sha \in Nat \ {0}
        /\ con[p].stamp \in {con[p].sha, -p} /\ con[q].stamp \in {con[q].sha, -q}
    BY <1>3 DEF Heads, GenuineText, Stamped
  <2>2. QED BY <1>3, <2>1
<1>6. QED BY <1>1, <1>2, <1>4, <1>5 DEF Extracted

-----------------------------------------------------------------------------
(* The probe's transport. *)

\* Every console announces what its machine has written.
GenuineConsoles == \A v \in VMs : GenuineText(console[v], boot[v], v \in Legacy)

LEMMA GenuineConsolesStep ==
  ASSUME ConsoleTypeOK, GenuineConsoles, [ConsoleNext]_consoleVars
  PROVE  GenuineConsoles'
<1>0. ASSUME NEW v \in VMs PROVE boot[v] \in Nat /\ console[v] \in Seq(Token)
  BY DEF ConsoleTypeOK, Boots
<1>1. CASE UNCHANGED consoleVars
  BY <1>1 DEF consoleVars, GenuineConsoles
<1>2. ASSUME NEW v \in VMs, PrintIntact(v) \/ PrintSpoiled(v) PROVE GenuineConsoles'
  <2>1. PICK t \in Token :
           /\ GenuineText(<<t>>, boot[v], v \in Legacy)
           /\ Emit(v, t)
           /\ spoiled' \in 0 .. MaxSpoiled
    BY <1>2, PrintStep
  <2>2. GenuineText(Append(console[v], t), boot[v], v \in Legacy)
    BY <1>0, <2>1, AppendGenuine DEF GenuineConsoles
  <2>3. /\ boot' = boot /\ console'[v] = Append(console[v], t)
        /\ \A w \in VMs : w # v => console'[w] = console[w]
    BY <2>1, EmitType
  <2>4. QED BY <2>2, <2>3 DEF GenuineConsoles
<1>3. ASSUME NEW v \in VMs, Stop(v) PROVE GenuineConsoles'
  BY <1>3, StopType DEF GenuineConsoles
<1>4. ASSUME NEW v \in VMs, Restart(v) PROVE GenuineConsoles'
  <2>1. /\ console' = console /\ boot'[v] = boot[v] + 1
        /\ \A w \in VMs : w # v => boot'[w] = boot[w]
    BY <1>4, RestartType
  <2>2. GenuineText(console[v], boot[v] + 1, v \in Legacy)
    BY <1>0, MoreBootsGenuine DEF GenuineConsoles
  <2>3. QED BY <2>1, <2>2 DEF GenuineConsoles
<1>5. QED BY <1>1, <1>2, <1>3, <1>4 DEF ConsoleNext

\* What a step does to a console that it prints on.
LEMMA ConsoleGrows ==
  ASSUME ConsoleTypeOK, [ConsoleNext]_consoleVars, NEW v \in VMs
  PROVE  \/ console'[v] = console[v]
         \/ \E t \in Token : console'[v] = Append(console[v], t)
<1>1. CASE UNCHANGED consoleVars
  BY <1>1 DEF consoleVars
<1>2. ASSUME NEW w \in VMs, PrintIntact(w) \/ PrintSpoiled(w)
      PROVE  \/ console'[v] = console[v]
             \/ \E t \in Token : console'[v] = Append(console[v], t)
  BY <1>2, PrintStep, EmitType
<1>3. ASSUME NEW w \in VMs, Stop(w) \/ Restart(w)
      PROVE  console'[v] = console[v]
  BY <1>3, StopType, RestartType
<1>4. QED BY <1>1, <1>2, <1>3 DEF ConsoleNext

(* Re-reading a console never loses an archive: whatever the decoder       *)
(* extracts from one capture it extracts from every later one, for any     *)
(* damage, damage of equal length included.                                *)
THEOREM RereadingKeeps == ConsoleSpec => StaysExtractable
<1> DEFINE Inv == ConsoleTypeOK /\ GenuineConsoles
<1>1. ConsoleInit => Inv
  BY ConsoleInitType DEF ConsoleInit, GenuineConsoles, GenuineText
<1>2. Inv /\ [ConsoleNext]_consoleVars => Inv'
  BY ConsoleStepType, GenuineConsolesStep
<1>3. Inv /\ Inv' /\ [ConsoleNext]_consoleVars
        => [\A v \in VMs \ Legacy : Extracted(console[v]) \subseteq Extracted(console'[v])]_consoleVars
  <2> SUFFICES ASSUME Inv, Inv', [ConsoleNext]_consoleVars, NEW v \in VMs \ Legacy
               PROVE  Extracted(console[v]) \subseteq Extracted(console'[v])
    OBVIOUS
  <2>1. Indexed(console'[v]) /\ console[v] \in Seq(Token)
    BY DEF GenuineConsoles, GenuineText, Indexed, ConsoleTypeOK
  <2>2. QED BY <2>1, ConsoleGrows, AppendExtracts
<1>4. QED BY <1>1, <1>2, <1>3, PTL DEF ConsoleSpec, StaysExtractable

(* The transport survives interleaving, for any number of copies, boots    *)
(* and damaged tokens, as long as no damage leaves a line its length.      *)
(* (With such damage the first candidate of a line can be a wrong one, and *)
(* the property fails: see README.)                                        *)
THEOREM Survives ==
  ASSUME "same_length" \notin Spoilings
  PROVE  ConsoleSpec => []SurvivesInterleaving
<1> DEFINE Inv == ConsoleTypeOK /\ GenuineConsoles /\ Chronicles
<1>1. ConsoleInit => Inv
  BY ConsoleInitType
  DEF ConsoleInit, GenuineConsoles, GenuineText, Chronicles, Chronicle
<1>2. Inv /\ [ConsoleNext]_consoleVars => Inv'
  BY ConsoleStepType, GenuineConsolesStep, ChroniclesStep
<1>3. Inv => SurvivesInterleaving
  <2> SUFFICES ASSUME Inv, NEW v \in VMs, Recoverable(console[v]) PROVE ExitZero(console[v])
    BY DEF SurvivesInterleaving
  <2>1. /\ console[v] \in Seq(Token) /\ boot[v] \in Nat
        /\ GenuineText(console[v], boot[v], v \in Legacy)
        /\ Chronicle(console[v], boot[v], v \in Legacy)
    BY DEF ConsoleTypeOK, Boots, GenuineConsoles, Chronicles
  <2>2. QED BY <2>1, RecoverableExtracted
<1>4. QED BY <1>1, <1>2, <1>3, PTL DEF ConsoleSpec
=============================================================================
