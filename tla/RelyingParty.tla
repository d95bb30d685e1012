----------------------------- MODULE RelyingParty -----------------------------
(***************************************************************************)
(* trip_chain.py (and the verifier of trip_example.py): a device signs     *)
(* breadcrumbs, Verifier A turns a window of them into a country, Verifier *)
(* B publishes a result that rests on A's, earlier results are signed      *)
(* again by A, and a Relying Party appraises a result by walking the       *)
(* references from result to result.  A signature is its maker's key.      *)
(***************************************************************************)
EXTENDS Naturals, Sequences, FiniteSets

CONSTANTS
  Evidences,          \* evidence id -> [device, supplied, crumbs]: the sets of breadcrumbs submitted
  Whole,              \* cell -> country its whole polygon lies in, or "-"
  Centroid,           \* cell -> country its centre lies in, or "-"
  EU,                 \* the countries of EU
  N, STEP,            \* breadcrumbs of a window; seconds between two of them
  Imports,            \* import id -> [country, basis, ref]: results made elsewhere
  MaxDepth,           \* the 4 of "depth > 4"
  MaxPublished        \* bound on the results published

ASSUME RelyingAssumption ==
  /\ N \in Nat \ {0} /\ STEP \in Nat \ {0} /\ MaxDepth \in Nat /\ MaxPublished \in Nat
  /\ DOMAIN Whole = DOMAIN Centroid

\* A signed breadcrumb lies in a known cell.
Breadcrumbs == [seq : Nat, ts : Nat, cell : DOMAIN Whole, signer : STRING]

ASSUME EvidenceAssumption == \A id \in DOMAIN Evidences : Evidences[id].crumbs \in Seq(Breadcrumbs)

\* Results made elsewhere have a basis, and refer to each other if to any.
ASSUME ImportsAssumption ==
  \A id \in DOMAIN Imports :
    /\ Imports[id].basis \in 0 .. 2
    /\ Imports[id].ref \in {<<"none">>} \cup {<<"import", other>> : other \in DOMAIN Imports}

EVIDENCE == 0
ENDORSEMENT == 1
RESULT == 2           \* attestation-result
NoRef == <<"none">>
anchors == {"A", "B"} \* the Relying Party's trust anchors

VARIABLES
  published,          \* the results published: [signer, kid, country, uuid, basis, ref, window]
  store,              \* store: claim-uuid -> result the Relying Party can look up
  asked, policy,      \* the result appraised, and how
  at, depth,          \* the result the walk is at, and how deep it is
  verdict             \* "-", "ACCEPT" or "REJECT"

walkVars == <<asked, policy, at, depth, verdict>>
vars == <<published, store, walkVars>>

Init ==
  /\ published = {} /\ store = <<>>
  /\ asked = {} /\ policy = "-" /\ at = {} /\ depth = 0 /\ verdict = "-"

-----------------------------------------------------------------------------
(* The verifiers.  A breadcrumb has a number, a time, a cell and the key   *)
(* that has signed exactly these.                                          *)

\* Seeded fault: the time between the first and the last breadcrumb is all that counts.
MutWindowOk(ev) ==
  /\ \A i \in DOMAIN ev.crumbs : ev.crumbs[i].signer = ev.device
  /\ Len(ev.crumbs) = N
  /\ ev.crumbs[N].ts >= ev.crumbs[1].ts + (N - 1) * STEP

\* The window: every signature under the key of the evidence, N breadcrumbs, none too soon after the
\* one before.
WindowOk(ev) ==
  /\ \A i \in DOMAIN ev.crumbs : ev.crumbs[i].signer = ev.device
  /\ Len(ev.crumbs) = N
  /\ \A i \in 1 .. N - 1 : ev.crumbs[i + 1].ts >= ev.crumbs[i].ts + STEP

\* found: the countries the cells resolve to
Found(ev, countryOf) == {countryOf[ev.crumbs[i].cell] : i \in DOMAIN ev.crumbs}

Single(ev, countryOf) ==
  IF WindowOk(ev) /\ Cardinality(Found(ev, countryOf)) = 1 /\ "-" \notin Found(ev, countryOf)
    THEN Found(ev, countryOf) ELSE {}

\* trip_chain: {the country} of a window whose every cell lies inside it, or {}.
verifier_A(ev) == Single(ev, Whole)

\* trip_example: the same window by the centres of its cells, on a map of its own.
verify_and_conclude(ev) == Single(ev, Centroid)

\* uuid5 of a prefix and the digest of the breadcrumbs
ClaimUuid(prefix, id) == <<prefix, id>>

\* The prefix of A says where the cells came from, that of the example is the one of a synthetic walk.
Prefix(ev) == IF ev.supplied THEN "trip-supplied:" ELSE "trip-synthetic:"

\* store with ear under a key.
FiledAs(key, ear) == [uuid \in DOMAIN store \cup {key} |-> IF uuid = key THEN ear ELSE store[uuid]]

\* Seeded fault: filed under the result it rests on.
MutFiled(ear) == FiledAs(ear.ref, ear)

\* store: by its claim-uuid.
Filed(ear) == FiledAs(ear.uuid, ear)

\* trip_example leaves its result about its own walk in a file, neither signed nor in the store.
PublishExample ==
  /\ Cardinality(published) < MaxPublished
  /\ \E id \in DOMAIN Evidences : \E country \in verify_and_conclude(Evidences[id]) :
       /\ ~Evidences[id].supplied
       /\ published' = published \cup
            {[signer |-> "-", kid |-> "-", country |-> country, uuid |-> ClaimUuid("trip-synthetic:", id),
              basis |-> EVIDENCE, ref |-> NoRef, window |-> <<>>]}
  /\ UNCHANGED <<store, walkVars>>

PublishA ==
  /\ Cardinality(published) < MaxPublished
  /\ \E id \in DOMAIN Evidences : \E country \in verifier_A(Evidences[id]) :
       LET crumbs == Evidences[id].crumbs
           ear == [signer |-> "A", kid |-> "A", country |-> country, uuid |-> ClaimUuid(Prefix(Evidences[id]), id),
                   basis |-> EVIDENCE, ref |-> NoRef, window |-> <<crumbs[1].ts, crumbs[N].ts>>] IN
       /\ published' = published \cup {ear}
       /\ store' = Filed(ear)
  /\ UNCHANGED walkVars

\* Seeded fault: one claim-uuid for all derived results.
MutHop2(uuid) == <<"hop2", "uuid">>

\* uuid5("hop2:" + U1)
Hop2(uuid) == <<"hop2", uuid>>

\* cose_open with A's key alone: B rests on A's results, with or without the reference.
PublishB ==
  /\ Cardinality(published) < MaxPublished
  /\ \E up \in published, with_ref \in BOOLEAN :
       /\ up.kid = "A" /\ up.signer = "A"
       /\ LET ear == [signer |-> "B", kid |-> "B", country |-> up.country, uuid |-> Hop2(up.uuid),
                      basis |-> RESULT, ref |-> IF with_ref THEN up.uuid ELSE NoRef, window |-> up.window] IN
          /\ published' = published \cup {ear}
          /\ store' = IF with_ref THEN Filed(ear) ELSE store
  /\ UNCHANGED walkVars

\* Results made elsewhere, signed again by A.  The program looks them up nowhere; a Relying Party that
\* keeps them meets references of every kind.
Import ==
  /\ Cardinality(published) < MaxPublished
  /\ \E id \in DOMAIN Imports :
       LET ear == [signer |-> "A", kid |-> "A", country |-> Imports[id].country, uuid |-> <<"import", id>>,
                   basis |-> Imports[id].basis, ref |-> Imports[id].ref, window |-> <<>>] IN
       /\ published' = published \cup {ear}
       /\ store' \in {store, Filed(ear)}
  /\ UNCHANGED walkVars

\* ear_rogue: A's result under a key nobody trusts, with A's key identifier.  The program does not keep
\* it; a Relying Party that does meets it on the way.
Forge ==
  /\ Cardinality(published) < MaxPublished
  /\ \E ear \in published :
       LET forged == [ear EXCEPT !.signer = "X"] IN
       /\ ear.signer = "A"
       /\ published' = published \cup {forged}
       /\ store' \in {store, Filed(forged)}
  /\ UNCHANGED walkVars

-----------------------------------------------------------------------------
(* rp: a call per result, each returning what the next one returned.       *)

Ask ==
  /\ asked = {}
  /\ \E ear \in published : asked' = {ear} /\ at' = {ear}
  /\ policy' \in {"strict", "lenient"}
  /\ UNCHANGED <<published, store, depth, verdict>>

\* cose_open: the key the identifier names, if it is an anchor's, has made the signature.
Trusted(ear) == ear.kid \in anchors /\ ear.signer = ear.kid

Grounded(ear) == ear.basis \in {EVIDENCE, ENDORSEMENT}

\* Seeded fault: an endless walk.
MutFollows(ear) == ear.basis = RESULT /\ ear.ref \in DOMAIN store

\* A reference that resolves, and is not too deep.
Follows(ear) == ear.basis = RESULT /\ ear.ref \in DOMAIN store /\ depth <= MaxDepth

\* Seeded fault: the country of the result asked about only.
MutAppraised(ear) == Trusted(ear) /\ (depth = 0 => ear.country \in EU)

\* Every result on the way: signed by an anchor, and in the EU.
Appraised(ear) == Trusted(ear) /\ ear.country \in EU

Decide(v) == verdict' = v /\ UNCHANGED <<published, store, asked, policy, at, depth>>

Accept ==
  /\ verdict = "-"
  /\ \E ear \in at : Appraised(ear) /\ (policy = "lenient" \/ Grounded(ear))
  /\ Decide("ACCEPT")

Reject ==
  /\ verdict = "-"
  /\ \E ear \in at : ~Appraised(ear) \/ (policy = "strict" /\ ~Grounded(ear) /\ ~Follows(ear))
  /\ Decide("REJECT")

Follow ==
  /\ verdict = "-" /\ policy = "strict"
  /\ \E ear \in at : /\ Appraised(ear) /\ ~Grounded(ear) /\ Follows(ear)
                     /\ at' = {store[ear.ref]}
  /\ depth' = IF depth <= MaxDepth THEN depth + 1 ELSE depth
  /\ UNCHANGED <<published, store, asked, policy, verdict>>

rp == Accept \/ Reject \/ Follow

\* Results are published before the Relying Party looks.
Publish == asked = {} /\ (PublishExample \/ PublishA \/ PublishB \/ Import \/ Forge)

Next == Publish \/ Ask \/ rp

Spec == Init /\ [][Next]_vars

(* A call that has begun goes on. *)
FairSpec == Spec /\ WF_vars(rp)

-----------------------------------------------------------------------------

TypeOK ==
  /\ \A ear \in published : ear.signer \in {"A", "B", "X", "-"} /\ ear.basis \in 0 .. 2
  /\ \A uuid \in DOMAIN store : store[uuid] \in published /\ store[uuid].uuid = uuid
  /\ asked \subseteq published /\ at \subseteq published
  /\ policy \in {"-", "strict", "lenient"} /\ depth \in 0 .. MaxDepth + 1
  /\ verdict \in {"-", "ACCEPT", "REJECT"}

\* The result n references away from the one asked about, if there is one.
Upstream[n \in 0 .. MaxDepth + 1] ==
  IF n = 0 THEN asked
  ELSE {store[ear.ref] : ear \in {e \in Upstream[n - 1] : e.basis = RESULT /\ e.ref \in DOMAIN store}}

(* README.md, "Policy strict": "trusted signer, EU country, basis evidence *)
(* or endorsement; basis attestation-result only through a resolvable      *)
(* basis-ref whose chain bottoms out in evidence or endorsement": the walk *)
(* accepts exactly the results with such a chain of at most MaxDepth + 1   *)
(* references, all of whose results are trusted and in the EU, whatever    *)
(* else is in the store (loops, dead ends, forged results).                *)
StrictVerdictExact ==
  policy = "strict" /\ verdict # "-" =>
    (verdict = "ACCEPT" <=>
       \E n \in 0 .. MaxDepth + 1 :
         /\ \E ear \in Upstream[n] : Grounded(ear)
         /\ \A k \in 0 .. n : \A ear \in Upstream[k] : Trusted(ear) /\ ear.country \in EU)

(* What a strict Relying Party accepts along results of this repository's  *)
(* verifiers alone is what a device has signed: exactly N moments, no two  *)
(* in a row less than STEP apart, with all its cells inside the country of *)
(* the result asked about, within the window the result names.             *)
AcceptedIsObserved ==
  policy = "strict" /\ verdict = "ACCEPT" /\ (\A ear \in at : \A id \in DOMAIN Imports : ear.uuid # <<"import", id>>) =>
    \A ear \in asked : \E id \in DOMAIN Evidences :
      LET ev == Evidences[id]  ts(i) == ev.crumbs[i].ts IN
      /\ \A i \in DOMAIN ev.crumbs : ev.crumbs[i].signer = ev.device /\ Whole[ev.crumbs[i].cell] = ear.country
      /\ Len(ev.crumbs) = N /\ \A i \in 1 .. N - 1 : ts(i + 1) >= ts(i) + STEP
      /\ ear.window = <<ts(1), ts(N)>>

\* The name is that of a window in whose every cell the two programs' maps differ.
MapsDiffer(uuid) ==
  \E id \in DOMAIN Evidences :
    /\ uuid = ClaimUuid("trip-synthetic:", id)
    /\ \A i \in 1 .. N : Whole[Evidences[id].crumbs[i].cell] # Centroid[Evidences[id].crumbs[i].cell]

(* A claim-uuid, the name under which results refer to each other, stands  *)
(* for one country and one window among signed results, whoever has signed *)
(* them, made elsewhere or here, with the reference or without.  The       *)
(* unsigned result of trip_example, which derives the name alike and the   *)
(* country by another rule on another map, has another country under the   *)
(* same name only where the two maps differ in every cell of the window.   *)
UuidNamesOneClaim ==
  \A e1, e2 \in published : e1.uuid = e2.uuid =>
    /\ (e1.kid = "-" <=> e2.kid = "-") => e1.country = e2.country /\ e1.window = e2.window
    /\ e1.country # e2.country => MapsDiffer(e1.uuid)

(* Loops or not, an appraisal ends.                                        *)
WalkEnds == asked # {} ~> verdict # "-"
=============================================================================
