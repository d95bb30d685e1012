------------------------- MODULE RelyingPartyProofs -------------------------
(***************************************************************************)
(* trip_chain.py for any sets of evidence and of results made elsewhere,   *)
(* any length of window, spacing and depth of the walk, and any number of  *)
(* results published in any order.                                         *)
(***************************************************************************)
EXTENDS RelyingParty, FiniteSetTheorems, TLAPS

-----------------------------------------------------------------------------
(* A set of naturals that is not empty has a least element: induction in   *)
(* the only form that needs no operator parameter.                         *)
LEMMA LeastExists ==
  ASSUME NEW T \in SUBSET Nat, T # {}
  PROVE  \E x \in T : \A y \in T : x <= y
<1> DEFINE R == StrictSubsetOrdering(Nat)
           D == FiniteSubsetsOf(Nat)
           TT == {0 .. k : k \in T}
<1>1. IsWellFoundedOn(R, D)
  BY FS_StrictSubsetOrderingWellFounded
<1>2. TT \subseteq D
  <2>1. ASSUME NEW k \in T PROVE (0 .. k) \in D
    BY FS_Interval DEF FiniteSubsetsOf
  <2>2. QED BY <2>1
<1>3. TT # {}
  OBVIOUS
<1>4. PICK X \in TT : \A Y \in TT : ~ (<<Y, X>> \in R)
  <2> HIDE DEF R, D, TT
  <2> QED BY <1>1, <1>2, <1>3, WFMin
<1>5. PICK x \in T : X = 0 .. x
  BY <1>4
<1>6. ASSUME NEW y \in T, y < x PROVE FALSE
  <2>1. (0 .. y) \subseteq (0 .. x) /\ (0 .. y) # (0 .. x)
    <3>1. x \in 0 .. x /\ x \notin 0 .. y
      BY <1>6
    <3>2. QED BY <1>6, <3>1
  <2>2. <<0 .. y, 0 .. x>> \in R
    BY <2>1, <1>6 DEF StrictSubsetOrdering
  <2>3. QED BY <2>2, <1>4, <1>5
<1>7. QED BY <1>6

-----------------------------------------------------------------------------
(* What a window says. *)

LEMMA CrumbTypes ==
  ASSUME NEW id \in DOMAIN Evidences
  PROVE  LET crumbs == Evidences[id].crumbs IN
         /\ Len(crumbs) \in Nat /\ DOMAIN crumbs = 1 .. Len(crumbs)
         /\ \A i \in DOMAIN crumbs : crumbs[i].ts \in Nat /\ crumbs[i].cell \in DOMAIN Whole
<1> DEFINE crumbs == Evidences[id].crumbs
<1>1. crumbs \in Seq(Breadcrumbs)
  BY EvidenceAssumption
<1> HIDE DEF crumbs
<1>2. Len(crumbs) \in Nat /\ DOMAIN crumbs = 1 .. Len(crumbs)
  BY <1>1
<1>3. ASSUME NEW i \in DOMAIN crumbs PROVE crumbs[i] \in Breadcrumbs
  BY <1>1, <1>2
<1>4. \A i \in DOMAIN crumbs : crumbs[i].ts \in Nat /\ crumbs[i].cell \in DOMAIN Whole
  BY <1>3 DEF Breadcrumbs
<1>5. QED BY <1>2, <1>4 DEF crumbs

\* The countries of a window are finitely many.
LEMMA FoundFinite ==
  ASSUME NEW id \in DOMAIN Evidences, NEW countryOf
  PROVE  IsFiniteSet(Found(Evidences[id], countryOf))
<1> DEFINE crumbs == Evidences[id].crumbs
           S == DOMAIN crumbs
           T == Found(Evidences[id], countryOf)
           f == [i \in S |-> countryOf[crumbs[i].cell]]
<1>1. IsFiniteSet(S)
  <2>1. S = 1 .. Len(crumbs) /\ Len(crumbs) \in Nat
    BY CrumbTypes
  <2>2. QED BY <2>1, FS_Interval
<1>2. f \in Surjection(S, T)
  BY DEF Surjection, Found
<1> HIDE DEF S, T, f
<1>3. IsFiniteSet(T)
  BY <1>1, <1>2, FS_Surjection
<1>4. QED BY <1>3 DEF T

\* One country, the same for every breadcrumb.
LEMMA SingleMeans ==
  ASSUME NEW id \in DOMAIN Evidences, NEW countryOf, NEW country \in Single(Evidences[id], countryOf)
  PROVE  /\ WindowOk(Evidences[id]) /\ country # "-"
         /\ \A i \in DOMAIN Evidences[id].crumbs :
              countryOf[Evidences[id].crumbs[i].cell] = country
<1> DEFINE found == Found(Evidences[id], countryOf)
<1>1. /\ WindowOk(Evidences[id]) /\ Cardinality(found) = 1 /\ "-" \notin found
      /\ country \in found
  BY DEF Single
<1>2. PICK c : found = {c}
  BY <1>1, FoundFinite, FS_Singleton
<1>3. QED BY <1>1, <1>2 DEF Found

\* A program comes to one country.
LEMMA SameCountry ==
  ASSUME NEW id \in DOMAIN Evidences, NEW countryOf,
         NEW c1 \in Single(Evidences[id], countryOf), NEW c2 \in Single(Evidences[id], countryOf)
  PROVE  c1 = c2
<1>1. N \in Nat \ {0} /\ DOMAIN Evidences[id].crumbs = 1 .. Len(Evidences[id].crumbs)
  BY CrumbTypes, RelyingAssumption
<1>2. Len(Evidences[id].crumbs) = N
  BY SingleMeans DEF WindowOk
<1>3. 1 \in DOMAIN Evidences[id].crumbs
  BY <1>1, <1>2
<1>4. QED BY <1>3, SingleMeans

\* Where the two programs come to two countries, their maps differ in every cell.
LEMMA TwoCountries ==
  ASSUME NEW id \in DOMAIN Evidences,
         NEW c1 \in verifier_A(Evidences[id]), NEW c2 \in verify_and_conclude(Evidences[id]), c1 # c2
  PROVE  \A i \in 1 .. N : Whole[Evidences[id].crumbs[i].cell] # Centroid[Evidences[id].crumbs[i].cell]
<1>1. DOMAIN Evidences[id].crumbs = 1 .. N
  BY CrumbTypes, SingleMeans DEF verifier_A, WindowOk
<1>2. \A i \in 1 .. N : Whole[Evidences[id].crumbs[i].cell] = c1
  BY <1>1, SingleMeans DEF verifier_A
<1>3. \A i \in 1 .. N : Centroid[Evidences[id].crumbs[i].cell] = c2
  BY <1>1, SingleMeans DEF verify_and_conclude
<1>4. QED BY <1>2, <1>3

-----------------------------------------------------------------------------
(* Who published what. *)

\* The country and the window that verifier A reads out of the evidence id.
AClaim(ear, id) ==
  LET crumbs == Evidences[id].crumbs IN
  /\ id \in DOMAIN Evidences /\ ear.country \in verifier_A(Evidences[id])
  /\ ear.uuid = ClaimUuid(Prefix(Evidences[id]), id) /\ ear.window = <<crumbs[1].ts, crumbs[N].ts>>

\* What trip_example reads out of it.
ExampleClaim(ear, id) ==
  /\ id \in DOMAIN Evidences /\ ear.country \in verify_and_conclude(Evidences[id])
  /\ ear.uuid = ClaimUuid("trip-synthetic:", id) /\ ear.window = <<>>

\* What a result made elsewhere says.
ImportClaim(ear, id) ==
  /\ id \in DOMAIN Imports /\ ear.country = Imports[id].country
  /\ ear.uuid = <<"import", id>> /\ ear.window = <<>>

\* It goes by the name of a result made elsewhere.
Imported(ear) == \E id \in DOMAIN Imports : ear.uuid = <<"import", id>>

\* The example of trip_example.py: unsigned.
FromExample(ear) ==
  /\ ear.signer = "-" /\ ear.kid = "-" /\ ear.basis = EVIDENCE /\ ear.ref = NoRef
  /\ \E id \in DOMAIN Evidences : ExampleClaim(ear, id)

\* A result of verifier A, or one that X has signed anew under the name of A.
FromA(ear) ==
  /\ ear.signer \in {"A", "X"} /\ ear.kid = "A" /\ ear.basis = EVIDENCE /\ ear.ref = NoRef
  /\ \E id \in DOMAIN Evidences : AClaim(ear, id)

\* A result made elsewhere, under the key of A or of X.
FromImports(ear) ==
  /\ ear.signer \in {"A", "X"} /\ ear.kid = "A"
  /\ \E id \in DOMAIN Imports :
       ImportClaim(ear, id) /\ ear.basis = Imports[id].basis /\ ear.ref = Imports[id].ref

\* A result of verifier B, about a result that was published before it.
FromB(ear) ==
  /\ ear.signer = "B" /\ ear.kid = "B" /\ ear.basis = RESULT
  /\ \E up \in published :
       /\ FromA(up) \/ FromImports(up)
       /\ ear.uuid = Hop2(up.uuid) /\ ear.country = up.country /\ ear.window = up.window
       /\ ear.ref \in {NoRef, up.uuid}

\* What every result has.
Fields == {"signer", "kid", "country", "uuid", "basis", "ref", "window"}
IsResult(ear) == DOMAIN ear = Fields /\ ear = [field \in Fields |-> ear[field]]

\* Every published result is of one of these origins.
Origins ==
  \A ear \in published :
    IsResult(ear) /\ (FromExample(ear) \/ FromA(ear) \/ FromImports(ear) \/ FromB(ear))

\* The Relying Party looks up only what was published under an anchor's key identifier, by its name.
StoreInv ==
  \A uuid \in DOMAIN store : /\ store[uuid] \in published /\ store[uuid].uuid = uuid
                             /\ store[uuid].kid \in anchors

\* What the publishers keep.
PublishedInv == Origins /\ StoreInv

LEMMA PublishedInit == Init => PublishedInv
BY DEF Init, PublishedInv, Origins, StoreInv

\* A result more: what was there keeps its origin.
LEMMA OneMore ==
  ASSUME Origins, NEW ear, IsResult(ear), published' = published \cup {ear},
         FromExample(ear) \/ FromA(ear) \/ FromImports(ear) \/ FromB(ear)
  PROVE  Origins'
BY DEF Origins, FromB

LEMMA FiledStore ==
  ASSUME StoreInv, NEW ear, published' = published \cup {ear}, ear.kid \in anchors,
         store' = store \/ store' = Filed(ear)
  PROVE  StoreInv'
BY DEF StoreInv, Filed, FiledAs

\* Every publisher adds a result of one of the origins.
LEMMA PublishStep ==
  ASSUME PublishedInv, PublishExample \/ PublishA \/ PublishB \/ Import \/ Forge
  PROVE  PublishedInv' /\ published \subseteq published' /\ UNCHANGED walkVars
<1> USE DEF PublishedInv, EVIDENCE, RESULT
<1>1. CASE PublishExample
  <2>0. PICK id \in DOMAIN Evidences : \E country \in verify_and_conclude(Evidences[id]) :
          published' = published \cup
            {[signer |-> "-", kid |-> "-", country |-> country, uuid |-> ClaimUuid("trip-synthetic:", id),
              basis |-> EVIDENCE, ref |-> NoRef, window |-> <<>>]}
    BY <1>1 DEF PublishExample
  <2>1. PICK country \in verify_and_conclude(Evidences[id]) :
          published' = published \cup
            {[signer |-> "-", kid |-> "-", country |-> country, uuid |-> ClaimUuid("trip-synthetic:", id),
              basis |-> EVIDENCE, ref |-> NoRef, window |-> <<>>]}
    BY <2>0
  <2> DEFINE ear == [signer |-> "-", kid |-> "-", country |-> country, uuid |-> ClaimUuid("trip-synthetic:", id),
                     basis |-> EVIDENCE, ref |-> NoRef, window |-> <<>>]
  <2>2. FromExample(ear) /\ IsResult(ear)
    BY DEF FromExample, ExampleClaim, IsResult, Fields
  <2> HIDE DEF ear
  <2>3. Origins'
    BY <2>1, <2>2, OneMore DEF ear
  <2>4. StoreInv' /\ UNCHANGED walkVars
    BY <1>1, <2>1 DEF PublishExample, StoreInv
  <2>5. QED BY <2>1, <2>3, <2>4
<1>2. CASE PublishA
  <2>0. PICK id \in DOMAIN Evidences : \E country \in verifier_A(Evidences[id]) :
          LET crumbs == Evidences[id].crumbs
              ear == [signer |-> "A", kid |-> "A", country |-> country,
                      uuid |-> ClaimUuid(Prefix(Evidences[id]), id),
                      basis |-> EVIDENCE, ref |-> NoRef, window |-> <<crumbs[1].ts, crumbs[N].ts>>]
          IN  published' = published \cup {ear} /\ store' = Filed(ear)
    BY <1>2 DEF PublishA
  <2>1. PICK country \in verifier_A(Evidences[id]) :
          LET crumbs == Evidences[id].crumbs
              ear == [signer |-> "A", kid |-> "A", country |-> country,
                      uuid |-> ClaimUuid(Prefix(Evidences[id]), id),
                      basis |-> EVIDENCE, ref |-> NoRef, window |-> <<crumbs[1].ts, crumbs[N].ts>>]
          IN  published' = published \cup {ear} /\ store' = Filed(ear)
    BY <2>0
  <2> DEFINE crumbs == Evidences[id].crumbs
             ear == [signer |-> "A", kid |-> "A", country |-> country,
                      uuid |-> ClaimUuid(Prefix(Evidences[id]), id),
                     basis |-> EVIDENCE, ref |-> NoRef, window |-> <<crumbs[1].ts, crumbs[N].ts>>]
  <2>2. FromA(ear) /\ IsResult(ear) /\ ear.kid \in anchors
    BY DEF FromA, AClaim, IsResult, Fields, anchors
  <2>3. published' = published \cup {ear} /\ store' = Filed(ear)
    BY <2>1
  <2> HIDE DEF ear
  <2>4. Origins' /\ StoreInv'
    BY <2>2, <2>3, OneMore, FiledStore
  <2>5. QED BY <1>2, <2>3, <2>4 DEF PublishA
<1>3. CASE PublishB
  <2>1. PICK up \in published, with_ref \in BOOLEAN :
          /\ up.kid = "A" /\ up.signer = "A"
          /\ LET ear == [signer |-> "B", kid |-> "B", country |-> up.country,
                         uuid |-> Hop2(up.uuid), basis |-> RESULT,
                         ref |-> IF with_ref THEN up.uuid ELSE NoRef, window |-> up.window]
             IN  /\ published' = published \cup {ear}
                 /\ store' = IF with_ref THEN Filed(ear) ELSE store
    BY <1>3 DEF PublishB
  <2> DEFINE ear == [signer |-> "B", kid |-> "B", country |-> up.country,
                     uuid |-> Hop2(up.uuid), basis |-> RESULT,
                     ref |-> IF with_ref THEN up.uuid ELSE NoRef, window |-> up.window]
  <2>2. FromA(up) \/ FromImports(up)
    BY <2>1 DEF Origins, FromExample, FromB
  <2>3. FromB(ear) /\ IsResult(ear) /\ ear.kid \in anchors
    <3>1. IsResult(ear) /\ ear.kid \in anchors
      BY DEF IsResult, Fields, anchors
    <3>2. /\ ear.signer = "B" /\ ear.kid = "B" /\ ear.basis = RESULT
          /\ ear.uuid = Hop2(up.uuid) /\ ear.country = up.country /\ ear.window = up.window
          /\ ear.ref \in {NoRef, up.uuid}
      OBVIOUS
    <3> HIDE DEF ear
    <3>3. FromB(ear)
      BY <2>2, <3>2 DEF FromB
    <3>4. QED BY <3>1, <3>3
  <2>4. published' = published \cup {ear} /\ (store' = store \/ store' = Filed(ear))
    BY <2>1
  <2> HIDE DEF ear
  <2>5. Origins' /\ StoreInv'
    BY <2>3, <2>4, OneMore, FiledStore
  <2>6. QED BY <1>3, <2>4, <2>5 DEF PublishB
<1>4. CASE Import
  <2>1. PICK id \in DOMAIN Imports :
          LET ear == [signer |-> "A", kid |-> "A", country |-> Imports[id].country,
                      uuid |-> <<"import", id>>, basis |-> Imports[id].basis,
                      ref |-> Imports[id].ref, window |-> <<>>]
          IN  published' = published \cup {ear} /\ store' \in {store, Filed(ear)}
    BY <1>4 DEF Import
  <2> DEFINE ear == [signer |-> "A", kid |-> "A", country |-> Imports[id].country,
                     uuid |-> <<"import", id>>, basis |-> Imports[id].basis,
                     ref |-> Imports[id].ref, window |-> <<>>]
  <2>2. FromImports(ear) /\ IsResult(ear) /\ ear.kid \in anchors
    BY DEF FromImports, ImportClaim, IsResult, Fields, anchors
  <2>3. published' = published \cup {ear} /\ (store' = store \/ store' = Filed(ear))
    BY <2>1
  <2> HIDE DEF ear
  <2>4. Origins' /\ StoreInv'
    BY <2>2, <2>3, OneMore, FiledStore
  <2>5. QED BY <1>4, <2>3, <2>4 DEF Import
<1>5. CASE Forge
  <2>1. PICK ear \in published :
          LET forged == [ear EXCEPT !.signer = "X"] IN
          /\ ear.signer = "A" /\ published' = published \cup {forged}
          /\ store' \in {store, Filed(forged)}
    BY <1>5 DEF Forge
  <2> DEFINE forged == [ear EXCEPT !.signer = "X"]
  <2>2. IsResult(ear) /\ (FromA(ear) \/ FromImports(ear))
    BY <2>1 DEF Origins, FromExample, FromB
  <2>3. /\ IsResult(forged) /\ forged.signer = "X" /\ forged.kid = ear.kid
        /\ forged.basis = ear.basis /\ forged.ref = ear.ref /\ forged.country = ear.country
        /\ forged.uuid = ear.uuid /\ forged.window = ear.window
    BY <2>2 DEF IsResult, Fields
  <2>4. published' = published \cup {forged} /\ (store' = store \/ store' = Filed(forged))
    BY <2>1
  <2> HIDE DEF forged
  <2>5. FromA(forged) \/ FromImports(forged)
    BY <2>2, <2>3 DEF FromA, AClaim, FromImports, ImportClaim
  <2>6. Origins'
    BY <2>3, <2>4, <2>5, OneMore
  <2>7. forged.kid \in anchors
    BY <2>5 DEF FromA, FromImports, anchors
  <2>8. StoreInv'
    BY <2>4, <2>7, FiledStore
  <2>9. QED BY <1>5, <2>4, <2>6, <2>8 DEF Forge
<1>6. QED BY <1>1, <1>2, <1>3, <1>4, <1>5

-----------------------------------------------------------------------------
(* Names. *)

\* How the names of results begin that are not B's.
Kinds == {"trip-synthetic:", "trip-supplied:", "import"}

\* Names of different kinds are different.
LEMMA UuidsApart ==
  ASSUME NEW k1 \in Kinds, NEW k2 \in Kinds, NEW x, NEW y
  PROVE  /\ <<k1, x>> = <<k2, y>> => k1 = k2 /\ x = y
         /\ Hop2(<<k1, x>>) # <<k2, y>>
         /\ Hop2(<<k1, x>>) = Hop2(<<k2, y>>) => k1 = k2 /\ x = y
         /\ <<k1, x>> # NoRef /\ Hop2(<<k1, x>>) # NoRef
<1>1. <<k1, x>> = <<k2, y>> => k1 = k2 /\ x = y
  OBVIOUS
<1>2. Hop2(<<k1, x>>) # <<k2, y>>
  BY DEF Hop2, Kinds
<1>3. Hop2(<<k1, x>>) = Hop2(<<k2, y>>) => <<k1, x>> = <<k2, y>>
  BY DEF Hop2
<1>4. <<k1, x>> # NoRef /\ Hop2(<<k1, x>>) # NoRef
  BY DEF Hop2, NoRef
<1>5. QED BY <1>1, <1>2, <1>3, <1>4

\* A window of one program's is no result made elsewhere.
LEMMA TripKinds ==
  ASSUME NEW ear, NEW id
  PROVE  /\ AClaim(ear, id) => \E k \in Kinds \ {"import"} : ear.uuid = <<k, id>>
         /\ ExampleClaim(ear, id) => ear.uuid = <<"trip-synthetic:", id>>
         /\ ImportClaim(ear, id) => ear.uuid = <<"import", id>>
BY DEF AClaim, ExampleClaim, ImportClaim, ClaimUuid, Prefix, Kinds

\* Two results that are not B's, under one name.
LEMMA SameClaim ==
  ASSUME NEW e1, NEW e2, e1.uuid = e2.uuid,
         FromExample(e1) \/ FromA(e1) \/ FromImports(e1),
         FromExample(e2) \/ FromA(e2) \/ FromImports(e2)
  PROVE  /\ FromExample(e1) /\ FromExample(e2) => e1.country = e2.country /\ e1.window = e2.window
         /\ FromA(e1) /\ FromA(e2) => e1.country = e2.country /\ e1.window = e2.window
         /\ FromImports(e1) => FromImports(e2) /\ e1.country = e2.country /\ e1.window = e2.window
         /\ FromExample(e1) /\ FromA(e2) /\ e1.country # e2.country => MapsDiffer(e1.uuid)
<1>1. \A k1, k2, x, y : k1 \in Kinds /\ k2 \in Kinds /\ <<k1, x>> = <<k2, y>> => k1 = k2 /\ x = y
  BY UuidsApart
<1>2. FromImports(e1) => FromImports(e2) /\ e1.country = e2.country /\ e1.window = e2.window
  <2>1. SUFFICES ASSUME FromImports(e1) PROVE FromImports(e2) /\ e1.country = e2.country /\ e1.window = e2.window
    OBVIOUS
  <2>2. PICK id \in DOMAIN Imports : ImportClaim(e1, id)
    BY <2>1 DEF FromImports
  <2>3. FromImports(e2)
    BY <1>1, <2>2, TripKinds DEF FromExample, FromA, Kinds
  <2>4. PICK id2 \in DOMAIN Imports : ImportClaim(e2, id2)
    BY <2>3 DEF FromImports
  <2>5. id = id2
    BY <1>1, <2>2, <2>4, TripKinds DEF Kinds
  <2>6. QED BY <2>2, <2>3, <2>4, <2>5 DEF ImportClaim
<1>3. FromExample(e1) /\ FromExample(e2) => e1.country = e2.country /\ e1.window = e2.window
  <2>1. SUFFICES ASSUME FromExample(e1), FromExample(e2) PROVE e1.country = e2.country /\ e1.window = e2.window
    OBVIOUS
  <2>2. PICK id \in DOMAIN Evidences : ExampleClaim(e1, id)
    BY <2>1 DEF FromExample
  <2>3. PICK id2 \in DOMAIN Evidences : ExampleClaim(e2, id2)
    BY <2>1 DEF FromExample
  <2>4. id = id2
    BY <1>1, <2>2, <2>3, TripKinds DEF Kinds
  <2>5. QED BY <2>2, <2>3, <2>4, SameCountry DEF ExampleClaim, verify_and_conclude
<1>4. FromA(e1) /\ FromA(e2) => e1.country = e2.country /\ e1.window = e2.window
  <2>1. SUFFICES ASSUME FromA(e1), FromA(e2) PROVE e1.country = e2.country /\ e1.window = e2.window
    OBVIOUS
  <2>2. PICK id \in DOMAIN Evidences : AClaim(e1, id)
    BY <2>1 DEF FromA
  <2>3. PICK id2 \in DOMAIN Evidences : AClaim(e2, id2)
    BY <2>1 DEF FromA
  <2>4. id = id2
    BY <1>1, <2>2, <2>3, TripKinds
  <2>5. e1.country = e2.country
    BY <2>2, <2>3, <2>4, SameCountry DEF AClaim, verifier_A
  <2>6. QED BY <2>2, <2>3, <2>4, <2>5 DEF AClaim
<1>5. FromExample(e1) /\ FromA(e2) /\ e1.country # e2.country => MapsDiffer(e1.uuid)
  <2>1. SUFFICES ASSUME FromExample(e1), FromA(e2), e1.country # e2.country PROVE MapsDiffer(e1.uuid)
    OBVIOUS
  <2>2. PICK id \in DOMAIN Evidences : ExampleClaim(e1, id)
    BY <2>1 DEF FromExample
  <2>3. PICK id2 \in DOMAIN Evidences : AClaim(e2, id2)
    BY <2>1 DEF FromA
  <2>4. id = id2
    BY <1>1, <2>2, <2>3, TripKinds DEF Kinds
  <2>5. \A i \in 1 .. N : Whole[Evidences[id].crumbs[i].cell] # Centroid[Evidences[id].crumbs[i].cell]
    BY <2>1, <2>2, <2>3, <2>4, TwoCountries DEF ExampleClaim, AClaim
  <2>6. QED BY <2>2, <2>5 DEF MapsDiffer, ExampleClaim
<1>6. QED BY <1>2, <1>3, <1>4, <1>5

\* The name of a result that is not B's is a pair.
LEMMA PairUuid ==
  ASSUME NEW ear, FromExample(ear) \/ FromA(ear) \/ FromImports(ear)
  PROVE  \E k \in Kinds : \E x : ear.uuid = <<k, x>>
BY DEF FromExample, ExampleClaim, FromA, AClaim, FromImports, ImportClaim, ClaimUuid, Prefix, Kinds

LEMMA NamesOne == PublishedInv => UuidNamesOneClaim
<1> SUFFICES ASSUME Origins, NEW e1 \in published, NEW e2 \in published, e1.uuid = e2.uuid
             PROVE  /\ (e1.kid = "-" <=> e2.kid = "-") => e1.country = e2.country /\ e1.window = e2.window
                    /\ e1.country # e2.country => MapsDiffer(e1.uuid)
  BY DEF PublishedInv, UuidNamesOneClaim
<1>0. \A e \in published : /\ FromExample(e) => e.kid = "-"
                           /\ FromA(e) \/ FromImports(e) \/ FromB(e) => e.kid # "-"
  BY DEF FromExample, FromA, FromImports, FromB
<1>1. CASE ~FromB(e1) /\ ~FromB(e2)
  <2>1. /\ FromExample(e1) \/ FromA(e1) \/ FromImports(e1)
        /\ FromExample(e2) \/ FromA(e2) \/ FromImports(e2)
    BY <1>1 DEF Origins
  <2>2. CASE FromImports(e1)
    BY <2>1, <2>2, SameClaim
  <2>3. CASE FromImports(e2)
    BY <2>1, <2>3, SameClaim
  <2>4. CASE FromExample(e1) /\ FromExample(e2)
    BY <2>1, <2>4, SameClaim
  <2>5. CASE FromA(e1) /\ FromA(e2)
    BY <2>1, <2>5, SameClaim
  <2>6. CASE FromExample(e1) /\ FromA(e2)
    BY <1>0, <2>1, <2>6, SameClaim
  <2>7. CASE FromA(e1) /\ FromExample(e2)
    <3>1. e1.country # e2.country => MapsDiffer(e2.uuid)
      BY <2>1, <2>7, SameClaim
    <3>2. QED BY <1>0, <2>7, <3>1
  <2>8. QED BY <2>1, <2>2, <2>3, <2>4, <2>5, <2>6, <2>7
<1>2. ASSUME NEW b \in published, NEW e \in published, FromB(b), ~FromB(e)
      PROVE  b.uuid # e.uuid
  <2>1. PICK up \in published : (FromA(up) \/ FromImports(up)) /\ b.uuid = Hop2(up.uuid)
    BY <1>2 DEF FromB
  <2>2. PICK k1, x : k1 \in Kinds /\ up.uuid = <<k1, x>>
    BY <2>1, PairUuid
  <2>3. PICK k2, y : k2 \in Kinds /\ e.uuid = <<k2, y>>
    BY <1>2, PairUuid DEF Origins
  <2>4. QED BY <2>1, <2>2, <2>3, UuidsApart
<1>3. CASE FromB(e1) /\ FromB(e2)
  <2>1. PICK up1 \in published :
          /\ FromA(up1) \/ FromImports(up1)
          /\ e1.uuid = Hop2(up1.uuid) /\ e1.country = up1.country /\ e1.window = up1.window
    BY <1>3 DEF FromB
  <2>2. PICK up2 \in published :
          /\ FromA(up2) \/ FromImports(up2)
          /\ e2.uuid = Hop2(up2.uuid) /\ e2.country = up2.country /\ e2.window = up2.window
    BY <1>3 DEF FromB
  <2>3. PICK k1, x : k1 \in Kinds /\ up1.uuid = <<k1, x>>
    BY <2>1, PairUuid
  <2>4. PICK k2, y : k2 \in Kinds /\ up2.uuid = <<k2, y>>
    BY <2>2, PairUuid
  <2>5. up1.uuid = up2.uuid
    <3>1. Hop2(<<k1, x>>) = Hop2(<<k2, y>>)
      BY <2>1, <2>2, <2>3, <2>4
    <3>2. k1 = k2 /\ x = y
      BY <2>3, <2>4, <3>1, UuidsApart
    <3>3. QED BY <2>3, <2>4, <3>2
  <2>6. up1.country = up2.country /\ up1.window = up2.window
    <3>1. FromImports(up1) \/ FromImports(up2) \/ (FromA(up1) /\ FromA(up2))
      BY <2>1, <2>2
    <3>2. QED BY <2>1, <2>2, <2>5, <3>1, SameClaim
  <2>7. QED BY <2>1, <2>2, <2>6
<1>4. QED BY <1>1, <1>2, <1>3

-----------------------------------------------------------------------------
(* The chain of references. *)

\* Where the references of these results lead.
References(st, ears) == {st[ear.ref] : ear \in {e \in ears : e.basis = RESULT /\ e.ref \in DOMAIN st}}

\* Upstream, of any store.
Chain(from, st) ==
  CHOOSE f : f = [n \in 0 .. MaxDepth + 1 |-> IF n = 0 THEN from ELSE References(st, f[n - 1])]

(* The recursive definition of Upstream has a solution: otherwise there    *)
(* would be a least bound up to which it has none.                         *)
LEMMA ChainExists ==
  ASSUME NEW from, NEW st, NEW K \in Nat
  PROVE  \E f : f = [n \in 0 .. K |-> IF n = 0 THEN from ELSE References(st, f[n - 1])]
<1> DEFINE Solves(f, k) == f = [n \in 0 .. k |-> IF n = 0 THEN from ELSE References(st, f[n - 1])]
           Without == {k \in Nat : ~ \E f : Solves(f, k)}
<1>1. SUFFICES ASSUME Without # {} PROVE FALSE
  OBVIOUS
<1>2. PICK k \in Without : \A y \in Without : k <= y
  <2>1. Without \in SUBSET Nat
    OBVIOUS
  <2>2. QED BY <1>1, <2>1, LeastExists
<1>3. k # 0
  <2>1. Solves([n \in 0 .. 0 |-> from], 0)
    OBVIOUS
  <2>2. QED BY <2>1, <1>2
<1>4. k - 1 \in Nat /\ k - 1 \notin Without
  BY <1>2, <1>3
<1>5. PICK f : Solves(f, k - 1)
  BY <1>4
<1> DEFINE g == [n \in 0 .. k |-> IF n < k THEN f[n] ELSE References(st, f[k - 1])]
<1>6. \A n \in 0 .. k - 1 : f[n] = IF n = 0 THEN from ELSE References(st, f[n - 1])
  BY <1>5
<1>7. ASSUME NEW n \in 0 .. k
      PROVE  g[n] = IF n = 0 THEN from ELSE References(st, g[n - 1])
  <2>1. CASE n = k
    <3>1. g[n] = References(st, f[k - 1]) /\ g[n - 1] = f[k - 1]
      BY <1>2, <1>3, <2>1
    <3>2. QED BY <1>3, <2>1, <3>1
  <2>2. CASE n # k
    <3>1. n \in 0 .. k - 1 /\ g[n] = f[n]
      BY <1>2, <2>2
    <3>2. n # 0 => g[n - 1] = f[n - 1]
      BY <1>2, <3>1
    <3>3. QED BY <1>6, <3>1, <3>2
  <2>3. QED BY <2>1, <2>2
<1>8. g = [n \in 0 .. k |-> g[n]]
  OBVIOUS
<1>9. Solves(g, k)
  <2> HIDE DEF g
  <2> QED BY <1>7, <1>8
<1>10. QED BY <1>2, <1>9

LEMMA ChainDef ==
  ASSUME NEW from, NEW st
  PROVE  /\ Chain(from, st)[0] = from
         /\ \A n \in 1 .. MaxDepth + 1 : Chain(from, st)[n] = References(st, Chain(from, st)[n - 1])
<1> DEFINE f == Chain(from, st)
<1>1. MaxDepth + 1 \in Nat
  BY RelyingAssumption
<1>2. f = [n \in 0 .. MaxDepth + 1 |-> IF n = 0 THEN from ELSE References(st, f[n - 1])]
  BY <1>1, ChainExists DEF Chain
<1> HIDE DEF f
<1>3. f[0] = from /\ \A n \in 1 .. MaxDepth + 1 : f[n] = References(st, f[n - 1])
  BY <1>1, <1>2
<1>4. QED BY <1>3 DEF f

LEMMA UpstreamIsChain == Upstream = Chain(asked, store)
BY DEF Upstream, Chain, References

\* Beyond a dead end there is nothing.
LEMMA ChainEnds ==
  ASSUME NEW from, NEW st, NEW d \in 0 .. MaxDepth + 1, Chain(from, st)[d] = {},
         NEW n \in d .. MaxDepth + 1
  PROVE  Chain(from, st)[n] = {}
<1> DEFINE C == Chain(from, st)
           More == {k \in d .. MaxDepth + 1 : C[k] # {}}
<1>1. SUFFICES ASSUME More # {} PROVE FALSE
  OBVIOUS
<1>0. MaxDepth \in Nat
  BY RelyingAssumption
<1>2. PICK k \in More : \A y \in More : k <= y
  <2>1. More \in SUBSET Nat
    BY <1>0
  <2>2. QED BY <1>1, <2>1, LeastExists
<1>3. k # d /\ k - 1 \in d .. MaxDepth + 1 /\ k \in 1 .. MaxDepth + 1
  BY <1>0, <1>2
<1>4. k - 1 \notin More
  BY <1>0, <1>2, <1>3
<1>5. C[k - 1] = {}
  BY <1>3, <1>4
<1>6. C[k] = References(st, C[k - 1])
  BY <1>3, ChainDef
<1>7. C[k] = {}
  BY <1>5, <1>6 DEF References
<1>8. QED BY <1>2, <1>7

-----------------------------------------------------------------------------
(* The walk. *)

\* One result is walked from, and one is looked at.
WalkTypes ==
  /\ asked \subseteq published /\ at \subseteq published
  /\ policy \in {"-", "strict", "lenient"} /\ depth \in 0 .. MaxDepth + 1
  /\ verdict \in {"-", "ACCEPT", "REJECT"}
  /\ asked = {} => policy = "-" /\ at = {} /\ verdict = "-" /\ depth = 0
  /\ asked # {} => policy # "-" /\ \E ear \in published : at = {ear}

\* A strict walk is where the references have led, and had to go on from every result before.
OnChain ==
  policy = "strict" =>
    /\ at = Chain(asked, store)[depth]
    /\ \A k \in 0 .. depth - 1 : \A ear \in Chain(asked, store)[k] : Appraised(ear) /\ ~Grounded(ear)

\* What the verdict rests on.
Reasons ==
  /\ verdict = "ACCEPT" => \A ear \in at : Appraised(ear) /\ (policy = "strict" => Grounded(ear))
  /\ verdict = "REJECT" =>
       \A ear \in at : ~Appraised(ear) \/ (policy = "strict" /\ ~Grounded(ear) /\ ~Follows(ear))

\* Until it comes to a result made elsewhere, the walk stays with one claim.
OneClaim ==
  \A e0 \in asked, ear \in at :
    Imported(ear) \/ (ear.country = e0.country /\ ear.window = e0.window)

\* What a call of rp keeps.
WalkInv == WalkTypes /\ OnChain /\ Reasons /\ OneClaim

\* The inductive invariant.
Inv == PublishedInv /\ WalkInv

\* The invariant at the start, and over each step.
LEMMA InitInv == Init => Inv
<1> SUFFICES ASSUME Init PROVE Inv
  OBVIOUS
<1>1. PublishedInv
  BY PublishedInit
<1>2. WalkInv
  BY RelyingAssumption DEF Init, WalkInv, WalkTypes, OnChain, Reasons, OneClaim
<1>3. QED BY <1>1, <1>2 DEF Inv

LEMMA PublishInv == Inv /\ Publish => Inv'
<1> SUFFICES ASSUME Inv, Publish PROVE Inv'
  OBVIOUS
<1>1. /\ asked = {} /\ published \subseteq published' /\ UNCHANGED walkVars /\ PublishedInv'
  BY PublishStep DEF Publish, Inv
<1>2. WalkInv'
  BY <1>1 DEF Inv, WalkInv, WalkTypes, OnChain, Reasons, OneClaim, walkVars
<1>3. QED BY <1>1, <1>2 DEF Inv

LEMMA AskInv == Inv /\ Ask => Inv'
<1> SUFFICES ASSUME Inv, Ask PROVE Inv'
  OBVIOUS
<1>1. PICK ear \in published : asked' = {ear} /\ at' = {ear}
  BY DEF Ask
<1>2. /\ policy' \in {"strict", "lenient"} /\ UNCHANGED <<published, store>>
      /\ depth' = 0 /\ verdict' = "-"
  BY DEF Ask, Inv, WalkInv, WalkTypes
<1>3. PublishedInv'
  BY <1>2 DEF Inv, PublishedInv, Origins, StoreInv, FromB
<1>4. WalkTypes'
  BY <1>1, <1>2, RelyingAssumption DEF WalkTypes
<1>5. OnChain'
  <2>1. Chain(asked', store')[0] = asked'
    BY ChainDef
  <2>2. QED BY <1>1, <1>2, <2>1 DEF OnChain
<1>6. Reasons' /\ OneClaim'
  BY <1>1, <1>2 DEF Reasons, OneClaim
<1>7. QED BY <1>3, <1>4, <1>5, <1>6 DEF Inv, WalkInv

LEMMA DecideInv == Inv /\ (Accept \/ Reject) => Inv'
<1> SUFFICES ASSUME Inv, Accept \/ Reject PROVE Inv'
  OBVIOUS
<1>1. /\ UNCHANGED <<published, store, asked, policy, at, depth>>
      /\ verdict' \in {"ACCEPT", "REJECT"} /\ verdict = "-" /\ at # {}
  BY DEF Accept, Reject, Decide
<1>2. PublishedInv'
  BY <1>1 DEF Inv, PublishedInv, Origins, StoreInv, FromB
<1>3. asked # {}
  BY <1>1 DEF Inv, WalkInv, WalkTypes
<1>4. WalkTypes' /\ OnChain' /\ OneClaim'
  BY <1>1, <1>3 DEF Inv, WalkInv, WalkTypes, OnChain, OneClaim
<1>5. PICK ear \in published : at = {ear}
  BY <1>3 DEF Inv, WalkInv, WalkTypes
<1>6. policy \in {"strict", "lenient"}
  BY <1>3 DEF Inv, WalkInv, WalkTypes
<1>7. Reasons'
  <2>1. CASE Accept
    <3>1. verdict' = "ACCEPT" /\ Appraised(ear) /\ (policy = "lenient" \/ Grounded(ear))
      BY <1>5, <2>1 DEF Accept, Decide
    <3>2. QED BY <1>1, <1>5, <3>1 DEF Reasons
  <2>2. CASE Reject
    <3>1. /\ verdict' = "REJECT"
          /\ ~Appraised(ear) \/ (policy = "strict" /\ ~Grounded(ear) /\ ~Follows(ear))
      BY <1>5, <2>2 DEF Reject, Decide
    <3>2. QED BY <1>1, <1>5, <3>1 DEF Reasons, Follows
  <2>3. QED BY <2>1, <2>2
<1>8. QED BY <1>2, <1>4, <1>7 DEF Inv, WalkInv

(* A reference leads to the result it names: one made elsewhere, or the    *)
(* claim that B has passed on.                                             *)
LEMMA ReferenceKeepsClaim ==
  ASSUME PublishedInv, NEW ear \in published, Appraised(ear), ear.basis = RESULT,
         ear.ref \in DOMAIN store, NEW next, next = store[ear.ref]
  PROVE  Imported(next) \/ (next.country = ear.country /\ next.window = ear.window)
<1> USE DEF PublishedInv
<1>1. next \in published /\ next.uuid = ear.ref /\ next.kid \in anchors
  BY DEF StoreInv
<1>2. FromA(next) \/ FromImports(next) \/ FromB(next)
  BY <1>1 DEF Origins, FromExample, anchors
<1>3. \A id \in DOMAIN Imports : ear.ref = <<"import", id>> => Imported(next)
  BY <1>1 DEF Imported
<1>4. FromImports(ear) \/ FromB(ear)
  BY DEF Origins, FromExample, FromA, EVIDENCE, RESULT
<1>5. ear.ref # NoRef
  <2>1. CASE FromB(next)
    <3>1. PICK up \in published : (FromA(up) \/ FromImports(up)) /\ next.uuid = Hop2(up.uuid)
      BY <2>1 DEF FromB
    <3>2. QED BY <1>1, <3>1, PairUuid, UuidsApart
  <2>2. CASE FromA(next) \/ FromImports(next)
    BY <1>1, <2>2, PairUuid, UuidsApart
  <2>3. QED BY <1>2, <2>1, <2>2
<1>6. CASE FromImports(ear)
  <2>1. PICK id \in DOMAIN Imports : ear.ref = Imports[id].ref
    BY <1>6 DEF FromImports
  <2>2. ear.ref \in {<<"import", other>> : other \in DOMAIN Imports}
    BY <1>5, <2>1, ImportsAssumption DEF NoRef
  <2>3. QED BY <1>3, <2>2
<1>7. CASE FromB(ear)
  <2>1. PICK up \in published :
          /\ FromA(up) \/ FromImports(up)
          /\ ear.country = up.country /\ ear.window = up.window /\ ear.ref \in {NoRef, up.uuid}
    BY <1>7 DEF FromB
  <2>2. next.uuid = up.uuid
    BY <1>1, <1>5, <2>1
  <2>3. ~FromB(next)
    <3>1. SUFFICES ASSUME FromB(next) PROVE FALSE
      OBVIOUS
    <3>2. PICK up2 \in published : (FromA(up2) \/ FromImports(up2)) /\ next.uuid = Hop2(up2.uuid)
      BY <3>1 DEF FromB
    <3>3. PICK k1, x : k1 \in Kinds /\ up2.uuid = <<k1, x>>
      BY <3>2, PairUuid
    <3>4. PICK k2, y : k2 \in Kinds /\ up.uuid = <<k2, y>>
      BY <2>1, PairUuid
    <3>5. Hop2(<<k1, x>>) = <<k2, y>>
      BY <2>2, <3>2, <3>3, <3>4
    <3>6. QED BY <3>3, <3>4, <3>5, UuidsApart
  <2>4. next.country = up.country /\ next.window = up.window
    <3>1. FromImports(next) \/ FromImports(up) \/ (FromA(next) /\ FromA(up))
      BY <1>2, <2>1, <2>3
    <3>2. QED BY <1>2, <2>1, <2>2, <2>3, <3>1, SameClaim
  <2>5. QED BY <2>1, <2>4
<1>8. QED BY <1>4, <1>6, <1>7

\* A result made elsewhere refers to results made elsewhere.
LEMMA ImportedStays ==
  ASSUME PublishedInv, NEW ear \in published, Imported(ear), ear.ref \in DOMAIN store
  PROVE  Imported(store[ear.ref])
<1> USE DEF PublishedInv
<1>1. PICK id \in DOMAIN Imports : ear.uuid = <<"import", id>>
  BY DEF Imported
<1>2. FromImports(ear)
  <2>1. ~FromB(ear)
    <3>1. SUFFICES ASSUME FromB(ear) PROVE FALSE
      OBVIOUS
    <3>2. PICK up \in published : (FromA(up) \/ FromImports(up)) /\ ear.uuid = Hop2(up.uuid)
      BY <3>1 DEF FromB
    <3>3. PICK k1, x : k1 \in Kinds /\ up.uuid = <<k1, x>>
      BY <3>2, PairUuid
    <3>4. QED BY <1>1, <3>2, <3>3, UuidsApart DEF Kinds
  <2>2. ~FromExample(ear) /\ ~FromA(ear)
    BY <1>1, UuidsApart, TripKinds DEF FromExample, FromA, Kinds
  <2>3. QED BY <2>1, <2>2 DEF Origins
<1>3. PICK id2 \in DOMAIN Imports : ear.ref = Imports[id2].ref
  BY <1>2 DEF FromImports
<1>4. store[ear.ref].uuid = ear.ref /\ store[ear.ref] \in published
  BY DEF StoreInv
<1>5. ear.ref # NoRef
  <2>1. CASE FromB(store[ear.ref])
    <3>1. PICK up \in published : (FromA(up) \/ FromImports(up)) /\ store[ear.ref].uuid = Hop2(up.uuid)
      BY <2>1 DEF FromB
    <3>2. QED BY <1>4, <3>1, PairUuid, UuidsApart
  <2>2. CASE ~FromB(store[ear.ref])
    <3>1. FromExample(store[ear.ref]) \/ FromA(store[ear.ref]) \/ FromImports(store[ear.ref])
      BY <1>4, <2>2 DEF Origins
    <3>2. PICK k \in Kinds : \E x : store[ear.ref].uuid = <<k, x>>
      BY <3>1, PairUuid
    <3>3. PICK x : store[ear.ref].uuid = <<k, x>>
      BY <3>2
    <3>4. <<k, x>> # NoRef
      BY UuidsApart
    <3>5. QED BY <1>4, <3>3, <3>4
  <2>3. QED BY <2>1, <2>2
<1>6. ear.ref \in {<<"import", other>> : other \in DOMAIN Imports}
  BY <1>3, <1>5, ImportsAssumption DEF NoRef
<1>7. QED BY <1>4, <1>6 DEF Imported

LEMMA FollowInv == Inv /\ Follow => Inv'
<1> SUFFICES ASSUME Inv, Follow PROVE Inv'
  OBVIOUS
<1>0. MaxDepth \in Nat
  BY RelyingAssumption
<1>1. PICK ear \in at : /\ Appraised(ear) /\ ~Grounded(ear) /\ Follows(ear)
                        /\ at' = {store[ear.ref]}
  BY DEF Follow
<1>2. /\ UNCHANGED <<published, store, asked, policy, verdict>>
      /\ policy = "strict" /\ verdict = "-"
  BY DEF Follow
<1>3. /\ ear.basis = RESULT /\ ear.ref \in DOMAIN store /\ depth <= MaxDepth
      /\ depth' = depth + 1 /\ depth \in 0 .. MaxDepth + 1
  BY <1>1 DEF Follow, Follows, Inv, WalkInv, WalkTypes
<1>4. asked # {} /\ at = {ear} /\ ear \in published
  BY <1>1 DEF Inv, WalkInv, WalkTypes
<1>5. PublishedInv'
  BY <1>2 DEF Inv, PublishedInv, Origins, StoreInv, FromB
<1>6. store[ear.ref] \in published
  BY <1>3 DEF Inv, PublishedInv, StoreInv
<1>7. WalkTypes'
  BY <1>0, <1>1, <1>2, <1>3, <1>4, <1>6 DEF Inv, WalkInv, WalkTypes
<1>8. OnChain'
  <2> DEFINE C == Chain(asked, store)
  <2>1. C[depth] = {ear}
    BY <1>2, <1>4 DEF Inv, WalkInv, OnChain
  <2>2. C[depth + 1] = References(store, C[depth])
    <3>1. depth + 1 \in 1 .. MaxDepth + 1 /\ (depth + 1) - 1 = depth
      BY <1>0, <1>3
    <3>2. C[depth + 1] = References(store, C[(depth + 1) - 1])
      BY <3>1, ChainDef
    <3>3. QED BY <3>1, <3>2
  <2>3. C[depth + 1] = {store[ear.ref]}
    BY <1>3, <2>1, <2>2 DEF References
  <2>4. \A k \in 0 .. depth : \A e \in C[k] : Appraised(e) /\ ~Grounded(e)
    <3>1. \A k \in 0 .. depth - 1 : \A e \in C[k] : Appraised(e) /\ ~Grounded(e)
      BY <1>2 DEF Inv, WalkInv, OnChain
    <3>2. \A k \in 0 .. depth : k = depth \/ k \in 0 .. depth - 1
      BY <1>3
    <3> HIDE DEF C
    <3>3. QED BY <1>1, <2>1, <3>1, <3>2
  <2>5. 0 .. depth' - 1 = 0 .. depth
    BY <1>3
  <2> HIDE DEF C
  <2>6. QED BY <1>1, <1>2, <1>3, <2>3, <2>4, <2>5 DEF OnChain, C
<1>9. Reasons'
  BY <1>2 DEF Reasons
<1>10. OneClaim'
  <2> SUFFICES ASSUME NEW e0 \in asked
               PROVE  \/ Imported(store[ear.ref])
                      \/ /\ store[ear.ref].country = e0.country
                         /\ store[ear.ref].window = e0.window
    BY <1>1, <1>2 DEF OneClaim, Imported
  <2>1. Imported(ear) \/ (ear.country = e0.country /\ ear.window = e0.window)
    BY <1>4 DEF Inv, WalkInv, OneClaim
  <2>2. CASE Imported(ear)
    BY <1>3, <1>4, <2>2, ImportedStays DEF Inv
  <2>3. CASE ear.country = e0.country /\ ear.window = e0.window
    BY <1>1, <1>3, <1>4, <2>3, ReferenceKeepsClaim DEF Inv
  <2>4. QED BY <2>1, <2>2, <2>3
<1>11. QED BY <1>5, <1>7, <1>8, <1>9, <1>10 DEF Inv, WalkInv

LEMMA StepInv == Inv /\ [Next]_vars => Inv'
<1>1. Inv /\ UNCHANGED vars => Inv'
  BY DEF Inv, PublishedInv, Origins, StoreInv, FromB, WalkInv, WalkTypes, OnChain, Reasons,
         Follows, OneClaim, vars, walkVars
<1>2. QED BY <1>1, PublishInv, AskInv, DecideInv, FollowInv DEF Next, rp

(* Every published result is of its origin, and a walk stays on the chain  *)
(* of references from the result that was asked about.                     *)
THEOREM SpecInv == Spec => []Inv
BY InitInv, StepInv, PTL DEF Spec

-----------------------------------------------------------------------------

(* The state of the Relying Party has its types: what it looks up is       *)
(* published under its own name, and a walk is never deeper than the code  *)
(* allows (depth > 4 ends it).                                             *)
THEOREM TypeCorrect == Spec => []TypeOK
<1>1. Inv => TypeOK
  <2> SUFFICES ASSUME Inv PROVE TypeOK
    OBVIOUS
  <2>1. ASSUME NEW ear \in published
        PROVE  ear.signer \in {"A", "B", "X", "-"} /\ ear.basis \in 0 .. 2
    BY ImportsAssumption
    DEF Inv, PublishedInv, Origins, FromExample, FromA, FromImports, FromB, EVIDENCE, RESULT
  <2>2. QED BY <2>1 DEF Inv, PublishedInv, StoreInv, WalkInv, WalkTypes, TypeOK
<1>2. QED BY <1>1, SpecInv, PTL

(* The names of results, under which they refer to each other, never stand *)
(* for two claims among signed results; the unsigned result of             *)
(* trip_example, named alike, has another country only where its map       *)
(* differs from A's in every cell of the window.                           *)
THEOREM OneClaimPerName == Spec => []UuidNamesOneClaim
<1>1. Inv => UuidNamesOneClaim
  BY NamesOne DEF Inv
<1>2. QED BY <1>1, SpecInv, PTL

(* README.md, "Policy strict": rp accepts exactly the results whose chain  *)
(* of references, of at most MaxDepth + 1 of them, ends in evidence or     *)
(* endorsement with every result on it trusted and in the EU.              *)
THEOREM StrictExact == Spec => []StrictVerdictExact
<1>1. Inv => StrictVerdictExact
  <2> SUFFICES ASSUME Inv, policy = "strict", verdict # "-"
               PROVE  verdict = "ACCEPT" <=>
                        \E n \in 0 .. MaxDepth + 1 :
                          /\ \E ear \in Upstream[n] : Grounded(ear)
                          /\ \A k \in 0 .. n : \A ear \in Upstream[k] : Appraised(ear)
    BY DEF StrictVerdictExact, Appraised
  <2> DEFINE C == Chain(asked, store)
  <2>0. MaxDepth \in Nat /\ depth \in 0 .. MaxDepth + 1
    BY RelyingAssumption DEF Inv, WalkInv, WalkTypes
  <2>1. Upstream = C
    BY UpstreamIsChain
  <2>2. PICK ear \in published : C[depth] = {ear} /\ at = {ear}
    BY DEF Inv, WalkInv, WalkTypes, OnChain
  <2>3. \A k \in 0 .. depth - 1 : \A e \in C[k] : Appraised(e) /\ ~Grounded(e)
    BY DEF Inv, WalkInv, OnChain
  <2>4. verdict \in {"ACCEPT", "REJECT"}
    BY DEF Inv, WalkInv, WalkTypes
  <2>5. CASE verdict = "ACCEPT"
    <3>1. Appraised(ear) /\ Grounded(ear)
      BY <2>2, <2>5 DEF Inv, WalkInv, Reasons
    <3>2. \A k \in 0 .. depth : k = depth \/ k \in 0 .. depth - 1
      BY <2>0
    <3> HIDE DEF C
    <3>3. \A k \in 0 .. depth : \A e \in C[k] : Appraised(e)
      BY <2>2, <2>3, <3>1, <3>2
    <3>4. QED BY <2>0, <2>1, <2>2, <2>5, <3>1, <3>3
  <2>6. CASE verdict = "REJECT"
    <3>1. ~Appraised(ear) \/ (~Grounded(ear) /\ ~Follows(ear))
      BY <2>2, <2>6 DEF Inv, WalkInv, Reasons
    <3> SUFFICES ASSUME NEW n \in 0 .. MaxDepth + 1, NEW e \in C[n], Grounded(e),
                        \A k \in 0 .. n : \A e1 \in C[k] : Appraised(e1)
                 PROVE  FALSE
      BY <2>1, <2>6
    <3>2. n >= depth
      <4>1. n \notin 0 .. depth - 1
        BY <2>3
      <4>2. QED BY <2>0, <4>1
    <3>3. Appraised(ear)
      <4>1. depth \in 0 .. n
        BY <2>0, <3>2
      <4> HIDE DEF C
      <4>2. QED BY <2>2, <4>1
    <3>4. ~Grounded(ear) /\ ~Follows(ear)
      BY <3>1, <3>3
    <3>5. n > depth
      <4>1. n # depth
        <5> HIDE DEF C
        <5> QED BY <2>2, <3>4
      <4>2. QED BY <2>0, <3>2, <4>1
    <3>6. depth + 1 \in 1 .. MaxDepth + 1 /\ (depth + 1) - 1 = depth /\ depth <= MaxDepth
      BY <2>0, <3>5
    <3>7. ~(ear.basis = RESULT /\ ear.ref \in DOMAIN store)
      BY <3>4, <3>6 DEF Follows
    <3>8. C[depth + 1] = References(store, C[depth])
      <4>1. C[depth + 1] = References(store, C[(depth + 1) - 1])
        BY <3>6, ChainDef
      <4>2. QED BY <3>6, <4>1
    <3>9. C[depth + 1] = {}
      BY <2>2, <3>7, <3>8 DEF References
    <3>10. C[n] = {}
      <4>1. depth + 1 \in 0 .. MaxDepth + 1 /\ n \in depth + 1 .. MaxDepth + 1
        BY <2>0, <3>5, <3>6
      <4>2. QED BY <3>9, <4>1, ChainEnds
    <3>11. QED BY <3>10
  <2>7. QED BY <2>4, <2>5, <2>6
<1>2. QED BY <1>1, SpecInv, PTL

(* What a strict Relying Party accepts along this repository's own results *)
(* is what a device signed: N breadcrumbs, each at least STEP after the    *)
(* one before, every cell inside the country of the result that was asked  *)
(* about.                                                                  *)
THEOREM Observed == Spec => []AcceptedIsObserved
<1>1. Inv => AcceptedIsObserved
  <2> SUFFICES ASSUME Inv, policy = "strict", verdict = "ACCEPT",
                      \A ear \in at : ~Imported(ear), NEW e0 \in asked
               PROVE  \E id \in DOMAIN Evidences :
                        LET ev == Evidences[id]  ts(i) == ev.crumbs[i].ts IN
                        /\ \A i \in DOMAIN ev.crumbs :
                             /\ ev.crumbs[i].signer = ev.device
                             /\ Whole[ev.crumbs[i].cell] = e0.country
                        /\ Len(ev.crumbs) = N /\ \A i \in 1 .. N - 1 : ts(i + 1) >= ts(i) + STEP
                        /\ e0.window = <<ts(1), ts(N)>>
    BY DEF AcceptedIsObserved, Imported
  <2>1. PICK ear \in published : at = {ear}
    BY DEF Inv, WalkInv, WalkTypes
  <2>2. Appraised(ear) /\ Grounded(ear) /\ ~Imported(ear)
    BY <2>1 DEF Inv, WalkInv, Reasons
  <2>3. FromA(ear)
    BY <2>2 DEF Inv, PublishedInv, Origins, FromExample, FromB, FromImports, ImportClaim,
                Imported, Appraised, Trusted, anchors, Grounded, EVIDENCE, ENDORSEMENT, RESULT
  <2>4. ear.country = e0.country /\ ear.window = e0.window
    BY <2>1, <2>2 DEF Inv, WalkInv, OneClaim
  <2>5. PICK id \in DOMAIN Evidences : AClaim(ear, id)
    BY <2>3 DEF FromA
  <2>6. /\ WindowOk(Evidences[id])
        /\ \A i \in DOMAIN Evidences[id].crumbs :
             Whole[Evidences[id].crumbs[i].cell] = e0.country
    BY <2>4, <2>5, SingleMeans DEF AClaim, verifier_A
  <2>7. /\ \A i \in DOMAIN Evidences[id].crumbs :
             Evidences[id].crumbs[i].signer = Evidences[id].device
        /\ Len(Evidences[id].crumbs) = N
        /\ \A i \in 1 .. N - 1 : Evidences[id].crumbs[i + 1].ts >= Evidences[id].crumbs[i].ts + STEP
    BY <2>6 DEF WindowOk
  <2>8. QED BY <2>4, <2>5, <2>6, <2>7 DEF AClaim
<1>2. QED BY <1>1, SpecInv, PTL
=============================================================================
