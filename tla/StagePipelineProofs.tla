------------------------ MODULE StagePipelineProofs ------------------------
(***************************************************************************)
(* TLAPS proofs about what one run's stages hand to each other: whatever    *)
(* the library, the pages a search finds and the budget of a package.       *)
(***************************************************************************)
EXTENDS StagePipeline, FiniteSetTheorems, SequenceTheorems, TLAPS

\* The stage that calls a capability, and whether it has its answer: from then on the
\* receipt stays as it is.
StageOf(t) == IF t = "image" THEN 4 ELSE IF t = "analytics" THEN 5 ELSE 2
Settled(t) == StageOf(t) <= upTo \/ (gathered /\ StageOf(t) = upTo + 1)

\* An observation of the run that became evidence, and a real one.
Observed(t) ==
  t \in ToolCalls \ {"image"} /\ Settled(t) /\ toolReceipt[t] \in {"REAL", "MOCK"}
SettledReal(t) == t \in ToolCalls \ {"image"} /\ Settled(t) /\ toolReceipt[t] = "REAL"

\* A stage that has returned says how; the final stage asks its model only when none failed.
OutcomeInv ==
  /\ \A i \in 1..6 :
       upTo < 6 => outcome[Order[i]] \in (IF i <= upTo THEN {"COMPLETED", "FAILED"} ELSE {"NONE"})
  /\ gathered => upTo < 6 /\ (upTo = 5 => \A s \in SixStages : outcome[s] # "FAILED")

\* What the index, the facts and the evaluation name has been observed.
IndexInv == \A id \in DOMAIN index : index[id] \in Texts \/ Observed(index[id])
FactInv == \A f \in facts : f.source \in Verified \/ SettledReal(f.source)
EvaluationInv == evaluation.origin = "REAL" => \E t \in ToolCalls : SettledReal(t)

\* Once a plan has its authorization, the run has no stage left.
PlanInv == (finalPlan.approval # "NONE" => upTo = 6) /\ PlanIsEarned

PipelineInv ==
  PipelineTypeOK /\ OutcomeInv /\ IndexInv /\ FactInv /\ EvaluationInv /\ PlanInv

-----------------------------------------------------------------------------
(* The package a stage is given.                                            *)

LEMMA ListingLength ==
  Listing \in Seq(EvidenceSources) /\ Len(Listing) \in Nat /\ DOMAIN Listing = 1..Len(Listing)
<1>1. Library \in Seq(EvidenceSources) /\ Followed \in Seq(EvidenceSources)
  BY PipelineAssumption DEF EvidenceSources, ToolCalls
<1>2. <<"search", "image", "analytics">> \in Seq(EvidenceSources)
  BY DEF EvidenceSources, ToolCalls
<1>3. Library \o <<"search", "image", "analytics">> \in Seq(EvidenceSources)
  BY <1>1, <1>2, ConcatProperties
<1>4. Listing \in Seq(EvidenceSources) BY <1>1, <1>3, ConcatProperties DEF Listing
<1> QED BY <1>4, LenProperties

\* The number of an item in a package is one of its source ids.
LEMMA NumberInRange ==
  ASSUME NEW items \in SUBSET DOMAIN Listing, NEW i \in items
  PROVE  Cardinality({j \in items : j <= i}) \in 1..Len(Listing)
<1> DEFINE upToI == {j \in items : j <= i}
<1>1. upToI \subseteq 1..Len(Listing) BY ListingLength
<1>2. IsFiniteSet(1..Len(Listing)) BY ListingLength, FS_Interval
<1>3. IsFiniteSet(upToI) /\ Cardinality(upToI) <= Cardinality(1..Len(Listing))
  BY <1>1, <1>2, FS_Subset, Zenon
<1>4. i \in upToI BY ListingLength
<1> HIDE DEF upToI
<1>5. Cardinality(upToI) \in Nat /\ Cardinality(upToI) # 0
  BY <1>3, <1>4, FS_CardinalityType, FS_EmptySet, Zenon
<1>6. Cardinality(1..Len(Listing)) = Len(Listing)
  <2>1. 1 \in Int /\ Len(Listing) \in Int BY ListingLength
  <2>2. Cardinality(1..Len(Listing)) = IF 1 > Len(Listing) THEN 0 ELSE Len(Listing) - 1 + 1
    BY <2>1, FS_Interval, Zenon
  <2> QED BY <2>2, ListingLength
<1>7. Cardinality(upToI) \in 1..Len(Listing) BY <1>3, <1>5, <1>6, ListingLength
<1> QED BY <1>7 DEF upToI

\* A package names, under ids of the run, documents and receipts of its stage that worked.
LEMMA PackageHolds ==
  ASSUME NEW s, NEW got \in [ToolCalls -> ReceiptModes], NEW id \in DOMAIN Package(s, got)
  PROVE  /\ id \in SourceIds
         /\ \/ Package(s, got)[id] \in Texts
            \/ /\ Package(s, got)[id] \in Wanted(s) \ {"image"}
               /\ got[Package(s, got)[id]] \in {"REAL", "MOCK"}
<1> DEFINE items == Listed(s, got)
           number(i) == Cardinality({j \in items : j <= i})
           kept == Kept(items, got)
           kind(i) == IF Listing[i] \in Texts THEN "SRC" ELSE "TOOL"
           ids == {<<kind(i), number(i)>> : i \in kept}
           pick(n) == CHOOSE i \in kept : number(i) = n
<1>1. Package(s, got) = [d \in ids |-> Listing[pick(d[2])]] BY DEF Package
<1>2. items \subseteq DOMAIN Listing BY DEF Listed
<1>3. kept \subseteq items BY DEF Kept
<1>4. \A i \in items : number(i) \in 1..Len(Listing) BY <1>2, NumberInRange
<1>5. \A i \in items : \/ Listing[i] \in Texts
                       \/ /\ Listing[i] \in Wanted(s) \ {"image"}
                          /\ got[Listing[i]] \in {"REAL", "MOCK"}
  BY DEF Listed, Offered, Evidential
<1> HIDE DEF items, number, kept
<1>6. PICK i \in kept : id = <<kind(i), number(i)>> BY <1>1
<1>7. id \in SourceIds BY <1>3, <1>4, <1>6 DEF SourceIds
<1>8. id[2] = number(i) BY <1>6
<1>9. pick(id[2]) \in kept BY <1>8
<1>10. Package(s, got)[id] = Listing[pick(id[2])] BY <1>1, <1>6
<1> QED BY <1>3, <1>5, <1>7, <1>9, <1>10

-----------------------------------------------------------------------------
(* Stages and their receipts.                                               *)

LEMMA StagesInOrder ==
  ASSUME PipelineInv, NEW s, Handling(s)
  PROVE  /\ upTo \in 0..5 /\ s = Order[upTo + 1] /\ s \in SixStages
         /\ \A t \in ToolCalls : t \in Wanted(s) <=> StageOf(t) = upTo + 1
<1>1. upTo \in 0..5 /\ s = Order[upTo + 1] BY DEF PipelineInv, PipelineTypeOK, Handling
<1>2. s \in SixStages BY <1>1 DEF SixStages
<1>3. ASSUME NEW t \in ToolCalls PROVE t \in Wanted(s) <=> StageOf(t) = upTo + 1
  <2>1. t \in {"search", "image", "analytics"} \/ t \in Urls BY DEF ToolCalls
  <2>2. \A u \in Urls : u \notin {"search", "image", "analytics"} BY PipelineAssumption
  <2>3. CASE upTo = 0 BY <1>1, <2>1, <2>2, <2>3 DEF Order, Wanted, StageOf
  <2>4. CASE upTo = 1 BY <1>1, <2>1, <2>2, <2>4 DEF Order, Wanted, StageOf
  <2>5. CASE upTo = 2 BY <1>1, <2>1, <2>2, <2>5 DEF Order, Wanted, StageOf
  <2>6. CASE upTo = 3 BY <1>1, <2>1, <2>2, <2>6 DEF Order, Wanted, StageOf
  <2>7. CASE upTo = 4 BY <1>1, <2>1, <2>2, <2>7 DEF Order, Wanted, StageOf
  <2>8. CASE upTo = 5 BY <1>1, <2>1, <2>2, <2>8 DEF Order, Wanted, StageOf
  <2> QED BY <1>1, <2>3, <2>4, <2>5, <2>6, <2>7, <2>8
<1> QED BY <1>1, <1>2, <1>3

\* The six stages are different ones.
LEMMA OrderIsOneToOne == \A i, j \in 1..6 : Order[i] = Order[j] => i = j
BY DEF Order

LEMMA PlacesFit == \A t : StageOf(t) \in {2, 4, 5} BY DEF StageOf

\* A stage that returns leaves the receipts settled as they are.
LEMMA ObservationsStay ==
  ASSUME PipelineInv, upTo \in 0..5, upTo' \in {upTo + 1, 6}, toolReceipt' = toolReceipt, NEW t
  PROVE  (Observed(t) => Observed(t)') /\ (SettledReal(t) => SettledReal(t)')
BY PlacesFit DEF Observed, SettledReal, Settled

LEMMA StageReturns ==
  ASSUME PipelineInv, NEW s, Handling(s), NEW status \in {"COMPLETED", "FAILED"},
         Returns(s, status)
  PROVE  /\ upTo' = upTo + 1 /\ upTo' \in 0..6 /\ gathered' = FALSE /\ spoiled' \in BOOLEAN
         /\ outcome' \in [SixStages -> {"NONE", "COMPLETED", "FAILED"}]
         /\ OutcomeInv'
<1>1. upTo \in 0..5 /\ s = Order[upTo + 1] /\ s \in SixStages BY StagesInOrder
<1>2. outcome' = [outcome EXCEPT ![s] = status] /\ upTo' = upTo + 1 /\ gathered' = FALSE
  BY DEF Returns
<1>3. outcome \in [SixStages -> {"NONE", "COMPLETED", "FAILED"}]
  BY DEF PipelineInv, PipelineTypeOK
<1>4. spoiled' \in BOOLEAN BY DEF Returns
<1>5. ASSUME NEW i \in 1..6, upTo' < 6
      PROVE  outcome'[Order[i]] \in (IF i <= upTo' THEN {"COMPLETED", "FAILED"} ELSE {"NONE"})
  <2>1. Order[i] \in SixStages BY DEF SixStages
  <2>2. outcome[Order[i]] \in (IF i <= upTo THEN {"COMPLETED", "FAILED"} ELSE {"NONE"})
    BY <1>1 DEF PipelineInv, OutcomeInv
  <2>3. CASE i = upTo + 1 BY <1>1, <1>2, <1>3, <2>3
  <2>4. CASE i # upTo + 1
    <3>1. Order[i] # s BY <1>1, <2>4, OrderIsOneToOne
    <3>2. outcome'[Order[i]] = outcome[Order[i]] BY <1>2, <1>3, <2>1, <3>1
    <3> QED BY <1>1, <1>2, <2>2, <2>4, <3>2
  <2> QED BY <2>3, <2>4
<1>6. OutcomeInv' BY <1>2, <1>5 DEF OutcomeInv
<1> QED BY <1>1, <1>2, <1>3, <1>4, <1>6

\* What a step other than the final answer leaves of the plan.
LEMMA NoPlanInHand ==
  ASSUME PipelineInv, upTo \in 0..5, finalPlan' = finalPlan
  PROVE  PlanInv'
BY DEF PipelineInv, PlanInv, PlanIsEarned

-----------------------------------------------------------------------------
(* What a reference stands for.                                             *)

LEMMA Resolved ==
  ASSUME PipelineInv, NEW ref
  PROVE  Resolve(ref) = Uncited \/ Resolve(ref) \in Texts \/ Observed(Resolve(ref))
BY DEF PipelineInv, IndexInv, Resolve

LEMMA DeployableIsSolid ==
  ASSUME NEW x, x \in Texts \/ Observed(x), TierOf(x, toolReceipt) \in Deployable
  PROVE  x \in Verified \/ SettledReal(x)
<1>1. CASE x \in Texts BY <1>1 DEF TierOf, Deployable
<1>2. CASE x \notin Texts BY <1>2 DEF TierOf, Deployable, Observed, SettledReal
<1> QED BY <1>1, <1>2

LEMMA SourcesAreKnown ==
  \A x : x \in Texts \/ Observed(x) \/ SettledReal(x) => x \in EvidenceSources
BY DEF Observed, SettledReal, EvidenceSources

LEMMA FactsSupported ==
  ASSUME PipelineInv, NEW r \in Citable, NEW f \in SupportedFacts({r})
  PROVE  f \in EpistemicItems /\ (f.source \in Verified \/ SettledReal(f.source))
<1>1. f = [ref |-> r, source |-> Resolve(r)] /\ Resolve(r) # Uncited
      /\ TierOf(Resolve(r), toolReceipt) \in Deployable
  BY DEF SupportedFacts
<1>2. Resolve(r) \in Texts \/ Observed(Resolve(r)) BY <1>1, Resolved
<1>3. r \in References
  <2>1. DOMAIN index \subseteq SourceIds BY DEF PipelineInv, PipelineTypeOK, IsPackage
  <2> QED BY <2>1 DEF Citable, References, EvidenceSources
<1>4. Resolve(r) \in EvidenceSources BY <1>2, SourcesAreKnown
<1>5. Resolve(r) \in Verified \/ SettledReal(Resolve(r)) BY <1>1, <1>2, DeployableIsSolid
<1> QED BY <1>1, <1>3, <1>4, <1>5 DEF EpistemicItems

LEMMA EvaluatedRests ==
  ASSUME PipelineInv, NEW requested \in {"SUPPORTED", "INCONCLUSIVE", "NOT_EVALUATED"},
         NEW ref, NEW inconclusive \in BOOLEAN
  PROVE  /\ Evaluated(requested, ref, inconclusive) \in Evaluations
         /\ Evaluated(requested, ref, inconclusive).origin = "REAL" =>
              SettledReal(Resolve(ref))
<1>1. Evaluated(requested, ref, inconclusive) \in Evaluations
  BY DEF Evaluated, Evaluations
<1>2. ASSUME Evaluated(requested, ref, inconclusive).origin = "REAL"
      PROVE  SettledReal(Resolve(ref))
  <2>1. /\ Resolve(ref) # Uncited /\ Resolve(ref) \in ToolCalls
        /\ TierOf(Resolve(ref), toolReceipt) \in Deployable
    BY <1>2 DEF Evaluated
  <2>2. Resolve(ref) \notin Texts BY <2>1, PipelineAssumption
  <2>3. Observed(Resolve(ref)) BY <2>1, <2>2, Resolved
  <2> QED BY <2>1, <2>2, <2>3 DEF TierOf, Deployable, Observed, SettledReal
<1> QED BY <1>1, <1>2

LEMMA ClaimsAreText ==
  ASSUME PipelineInv, NEW c \in ClaimsCiting(DOMAIN index \cup Texts \cup {Uncited})
  PROVE  c \in TextClaims
<1>1. DOMAIN index \subseteq SourceIds BY DEF PipelineInv, PipelineTypeOK, IsPackage
<1> QED BY <1>1 DEF ClaimsCiting, TextClaims, EvidenceSources

-----------------------------------------------------------------------------
(* Every step keeps the invariant.                                          *)

LEMMA PipelineInitially == PipelineInit => PipelineInv
<1> SUFFICES ASSUME PipelineInit PROVE PipelineInv OBVIOUS
<1> USE DEF PipelineInit
<1>1. PipelineTypeOK
  <2>1. outcome \in [SixStages -> {"NONE", "COMPLETED", "FAILED"}]
        /\ toolReceipt \in [ToolCalls -> ReceiptModes]
    BY DEF ReceiptModes
  <2>2. IsPackage(index) BY DEF IsPackage
  <2>3. evaluation \in Evaluations BY DEF NotMeasured, Evaluations
  <2>4. finalPlan \in Audits BY DEF NoPlanYet, Audits
  <2>5. upTo \in 0..6 OBVIOUS
  <2>6. gathered \in BOOLEAN /\ spoiled \in BOOLEAN BY Zenon
  <2>7. facts \subseteq EpistemicItems /\ copy \subseteq TextClaims /\ ledger \subseteq Upholdings
    OBVIOUS
  <2> QED BY <2>1, <2>2, <2>3, <2>4, <2>5, <2>6, <2>7, Zenon DEF PipelineTypeOK
<1>2. OutcomeInv
  <2>1. \A i \in 1..6 : Order[i] \in SixStages BY DEF SixStages
  <2> QED BY <2>1 DEF OutcomeInv
<1>3. IndexInv /\ FactInv BY DEF IndexInv, FactInv
<1>4. EvaluationInv /\ PlanInv
  BY DEF EvaluationInv, NotMeasured, PlanInv, NoPlanYet, PlanIsEarned
<1> QED BY <1>1, <1>2, <1>3, <1>4 DEF PipelineInv

\* A stage that returns and changes neither index, facts nor evaluation.
LEMMA NothingNewSeen ==
  ASSUME PipelineInv, upTo \in 0..5, upTo' \in {upTo + 1, 6}, toolReceipt' = toolReceipt
  PROVE  /\ index' = index => IndexInv'
         /\ facts' = facts => FactInv'
         /\ evaluation' = evaluation => EvaluationInv'
<1>1. \A t : (Observed(t) => Observed(t)') /\ (SettledReal(t) => SettledReal(t)')
  BY ObservationsStay
<1>2. ASSUME index' = index PROVE IndexInv' BY <1>1, <1>2 DEF PipelineInv, IndexInv
<1>3. ASSUME facts' = facts PROVE FactInv' BY <1>1, <1>3 DEF PipelineInv, FactInv
<1>4. ASSUME evaluation' = evaluation PROVE EvaluationInv'
  BY <1>1, <1>4 DEF PipelineInv, EvaluationInv
<1> QED BY <1>2, <1>3, <1>4

LEMMA TurnedAwayKeeps ==
  ASSUME PipelineInv, NEW s, Handling(s), TurnedAway(s) \/ ModelFails(s)
  PROVE  PipelineInv'
<1>1. Returns(s, "FAILED") BY DEF TurnedAway, ModelFails
<1>2. upTo \in 0..5 BY StagesInOrder
<1>3. UNCHANGED <<toolReceipt, index, facts, evaluation, copy, ledger, finalPlan>>
  BY DEF TurnedAway, ModelFails
<1>4. PipelineTypeOK' BY <1>1, <1>3, StageReturns DEF PipelineInv, PipelineTypeOK, IsPackage
<1>5. upTo' = upTo + 1 /\ OutcomeInv' BY <1>1, StageReturns
<1>6. IndexInv' /\ FactInv' /\ EvaluationInv' BY <1>2, <1>3, <1>5, NothingNewSeen
<1>7. PlanInv' BY <1>2, <1>3, NoPlanInHand
<1> QED BY <1>4, <1>5, <1>6, <1>7 DEF PipelineInv

LEMMA DispatchRefusedKeeps ==
  ASSUME PipelineInv, NEW s, DispatchRefused(s) PROVE PipelineInv'
<1> USE DEF DispatchRefused
<1>1. upTo \in 0..5 BY StagesInOrder
<1>2. upTo' = 6 /\ gathered' = FALSE
  BY DEF PipelineInv, PipelineTypeOK
<1>3. PipelineTypeOK' BY <1>2 DEF PipelineInv, PipelineTypeOK, IsPackage
<1>4. OutcomeInv' BY <1>2 DEF OutcomeInv
<1>5. IndexInv' /\ FactInv' /\ EvaluationInv' BY <1>1, <1>2, NothingNewSeen
<1>6. PlanInv' BY <1>1, NoPlanInHand
<1> QED BY <1>3, <1>4, <1>5, <1>6 DEF PipelineInv

\* A stage that asks for its evidence changes the receipts of its own capabilities only:
\* they were not settled before, and are afterwards.
LEMMA EvidenceSettles ==
  ASSUME PipelineInv, NEW s, Handling(s), ~gathered, NEW got \in Asked(s),
         toolReceipt' = got, gathered' = TRUE, upTo' = upTo
  PROVE  /\ \A t : (Observed(t) => Observed(t)') /\ (SettledReal(t) => SettledReal(t)')
         /\ \A t \in Wanted(s) \ {"image"} : got[t] \in {"REAL", "MOCK"} => Observed(t)'
<1>1. upTo \in 0..5 /\ \A t \in ToolCalls : t \in Wanted(s) <=> StageOf(t) = upTo + 1
  BY StagesInOrder
<1>2. \A t \in ToolCalls : Settled(t) => got[t] = toolReceipt[t]
  BY <1>1, PlacesFit DEF Settled, Asked
<1>3. \A t : Settled(t) => Settled(t)' BY <1>1, PlacesFit DEF Settled
<1>4. Wanted(s) \subseteq ToolCalls BY DEF Wanted, ToolCalls
<1>5. \A t \in Wanted(s) : Settled(t)' BY <1>1, <1>4 DEF Settled
<1> QED BY <1>2, <1>3, <1>4, <1>5 DEF Observed, SettledReal

LEMMA GatherKeeps ==
  ASSUME PipelineInv, NEW s, GatherEvidence(s) PROVE PipelineInv'
<1>1. CASE TurnedAway(s) BY <1>1, TurnedAwayKeeps DEF GatherEvidence
<1>2. CASE ~TurnedAway(s)
  <2>1. Handling(s) /\ ~gathered /\ ~UpstreamFailed(s) /\ gathered' = TRUE
        /\ UNCHANGED <<upTo, spoiled, outcome, facts, evaluation, copy, ledger, finalPlan>>
    BY <1>2 DEF GatherEvidence
  <2>2. PICK got \in Asked(s) : toolReceipt' = got /\ index' = Indexed(Package(s, got))
    BY <1>2 DEF GatherEvidence
  <2>3. upTo \in 0..5 /\ s = Order[upTo + 1] BY <2>1, StagesInOrder
  <2>4. got \in [ToolCalls -> ReceiptModes] BY DEF Asked
  <2>5. /\ \A t : (Observed(t) => Observed(t)') /\ (SettledReal(t) => SettledReal(t)')
        /\ \A t \in Wanted(s) \ {"image"} : got[t] \in {"REAL", "MOCK"} => Observed(t)'
    BY <2>1, <2>2, EvidenceSettles
  <2>6. ASSUME NEW id \in DOMAIN index', NEW x, x = index'[id]
        PROVE  id \in SourceIds /\ (x \in Texts \/ Observed(x)')
    <3>1. CASE id \in DOMAIN Package(s, got)
      <4>1. x = Package(s, got)[id] BY <2>2, <2>6, <3>1 DEF Indexed
      <4> QED BY <2>4, <2>5, <3>1, <4>1, PackageHolds
    <3>2. CASE id \notin DOMAIN Package(s, got)
      <4>1. id \in DOMAIN index /\ x = index[id] BY <2>2, <2>6, <3>2 DEF Indexed
      <4>2. id \in SourceIds /\ (index[id] \in Texts \/ Observed(index[id]))
        BY <4>1 DEF PipelineInv, PipelineTypeOK, IsPackage, IndexInv
      <4> QED BY <2>5, <4>1, <4>2
    <3> QED BY <3>1, <3>2
  <2>7. IndexInv' BY <2>6 DEF IndexInv
  <2>8. IsPackage(index)'
    <3>1. \A x : x \in Texts \/ Observed(x)' => x \in EvidenceSources
      BY DEF Observed, EvidenceSources
    <3> QED BY <2>6, <3>1 DEF IsPackage
  <2>9. PipelineTypeOK' BY <2>1, <2>2, <2>4, <2>8 DEF PipelineInv, PipelineTypeOK
  <2>10. FactInv' /\ EvaluationInv'
    BY <2>1, <2>5 DEF PipelineInv, FactInv, EvaluationInv
  <2>11. OutcomeInv'
    <3>1. upTo = 5 => \A t \in SixStages : outcome[t] # "FAILED"
      BY <2>1, <2>3 DEF UpstreamFailed, Order
    <3> QED BY <2>1, <2>3, <3>1 DEF PipelineInv, OutcomeInv
  <2>12. PlanInv' BY <2>1, <2>3, NoPlanInHand
  <2> QED BY <2>7, <2>9, <2>10, <2>11, <2>12 DEF PipelineInv
<1> QED BY <1>1, <1>2

\* The facts a stage hands off when it returns rest on what the run has observed.
LEMMA HandOffKeepsFacts ==
  ASSUME PipelineInv, upTo \in 0..5, upTo' \in {upTo + 1, 6}, toolReceipt' = toolReceipt, HandsOff
  PROVE  facts' \subseteq EpistemicItems /\ FactInv'
<1>1. \A t : SettledReal(t) => SettledReal(t)' BY ObservationsStay
<1>2. \A f \in facts' : \/ f \in facts
                        \/ f \in EpistemicItems /\ (f.source \in Verified \/ SettledReal(f.source))
  BY FactsSupported DEF HandsOff
<1>3. facts' \subseteq EpistemicItems BY <1>2 DEF PipelineInv, PipelineTypeOK
<1>4. \A f \in facts' : f.source \in Verified \/ SettledReal(f.source)
  BY <1>2 DEF PipelineInv, FactInv
<1> QED BY <1>1, <1>3, <1>4 DEF FactInv

LEMMA AnswerKeeps ==
  ASSUME PipelineInv, NEW s, Answer(s) PROVE PipelineInv'
<1>1. Handling(s) /\ Returns(s, "COMPLETED") /\ HandsOff
      /\ UNCHANGED <<toolReceipt, index, evaluation, copy, ledger, finalPlan>>
  BY DEF Answer
<1>2. upTo \in 0..5 BY <1>1, StagesInOrder
<1>3. upTo' = upTo + 1 /\ OutcomeInv' BY <1>1, StageReturns
<1>4. facts' \subseteq EpistemicItems /\ FactInv' BY <1>1, <1>2, <1>3, HandOffKeepsFacts
<1>5. PipelineTypeOK' BY <1>1, <1>4, StageReturns DEF PipelineInv, PipelineTypeOK, IsPackage
<1>6. IndexInv' /\ EvaluationInv' BY <1>1, <1>2, <1>3, NothingNewSeen
<1>7. PlanInv' BY <1>1, <1>2, NoPlanInHand
<1> QED BY <1>3, <1>4, <1>5, <1>6, <1>7 DEF PipelineInv

LEMMA AnswerCreativeKeeps ==
  ASSUME PipelineInv, AnswerCreative PROVE PipelineInv'
<1>1. Handling("CREATIVE") /\ Returns("CREATIVE", "COMPLETED") /\ HandsOff
      /\ UNCHANGED <<toolReceipt, index, evaluation, ledger, finalPlan>>
  BY DEF AnswerCreative
<1>2. upTo \in 0..5 BY <1>1, StagesInOrder
<1>3. upTo' = upTo + 1 /\ OutcomeInv' BY <1>1, StageReturns
<1>4. copy' \subseteq TextClaims
  <2>1. PICK c \in ClaimsCiting(DOMAIN index \cup {Uncited}) : copy' \in {{}, {c}}
    BY DEF AnswerCreative
  <2>2. c \in ClaimsCiting(DOMAIN index \cup Texts \cup {Uncited}) BY DEF ClaimsCiting
  <2> QED BY <2>1, <2>2, ClaimsAreText
<1>5. facts' \subseteq EpistemicItems /\ FactInv' BY <1>1, <1>2, <1>3, HandOffKeepsFacts
<1>6. PipelineTypeOK'
  BY <1>1, <1>4, <1>5, StageReturns DEF PipelineInv, PipelineTypeOK, IsPackage
<1>7. IndexInv' /\ EvaluationInv' BY <1>1, <1>2, <1>3, NothingNewSeen
<1>8. PlanInv' BY <1>1, <1>2, NoPlanInHand
<1> QED BY <1>3, <1>5, <1>6, <1>7, <1>8 DEF PipelineInv

LEMMA AnswerPerformanceKeeps ==
  ASSUME PipelineInv, AnswerPerformance PROVE PipelineInv'
<1>1. Handling("PERFORMANCE") /\ Returns("PERFORMANCE", "COMPLETED") /\ HandsOff
      /\ UNCHANGED <<toolReceipt, index, copy, ledger, finalPlan>>
  BY DEF AnswerPerformance
<1>2. upTo \in 0..5 BY <1>1, StagesInOrder
<1>3. upTo' = upTo + 1 /\ OutcomeInv' BY <1>1, StageReturns
<1>4. PICK requested \in {"SUPPORTED", "INCONCLUSIVE", "NOT_EVALUATED"},
           ref \in Citable, inconclusive \in BOOLEAN :
             evaluation' = Evaluated(requested, ref, inconclusive)
  BY DEF AnswerPerformance
<1>5. evaluation' \in Evaluations
      /\ (evaluation'.origin = "REAL" => SettledReal(Resolve(ref)))
  BY <1>4, EvaluatedRests
<1>6. EvaluationInv'
  <2>1. \A t : SettledReal(t) => SettledReal(t)' BY <1>1, <1>2, <1>3, ObservationsStay
  <2>2. \A t : SettledReal(t) => t \in ToolCalls BY DEF SettledReal
  <2> QED BY <1>5, <2>1, <2>2 DEF EvaluationInv
<1>7. facts' \subseteq EpistemicItems /\ FactInv' BY <1>1, <1>2, <1>3, HandOffKeepsFacts
<1>8. PipelineTypeOK'
  BY <1>1, <1>5, <1>7, StageReturns DEF PipelineInv, PipelineTypeOK, IsPackage
<1>9. IndexInv' BY <1>1, <1>2, <1>3, NothingNewSeen
<1>10. PlanInv' BY <1>1, <1>2, NoPlanInHand
<1> QED BY <1>3, <1>6, <1>7, <1>8, <1>9, <1>10 DEF PipelineInv

\* The claims of the audited text, and what the audit upholds them against.
LEMMA AuditUpholds ==
  ASSUME PipelineInv, NEW claims \in SUBSET TextClaims,
         NEW upheld \in SUBSET {d \in Audited(claims) : d.cites # Uncited /\ Checkable(d)}
  PROVE  /\ upheld \subseteq TextClaims
         /\ \A d \in upheld : /\ CitedSource(d) \in EvidenceSources
                              /\ CitedSource(d) \in Verified \/ SettledReal(CitedSource(d))
<1>1. copy \subseteq TextClaims BY DEF PipelineInv, PipelineTypeOK
<1>2. upheld \subseteq TextClaims BY <1>1 DEF Audited
<1>3. ASSUME NEW d \in upheld
      PROVE  /\ CitedSource(d) \in EvidenceSources
             /\ CitedSource(d) \in Verified \/ SettledReal(CitedSource(d))
  <2>1. CitedSource(d) # Uncited /\ TierOf(CitedSource(d), toolReceipt) \in Deployable
    BY DEF Checkable
  <2>2. CitedSource(d) \in Texts \/ Observed(CitedSource(d))
    BY <2>1 DEF CitedSource, PipelineInv, IndexInv
  <2> QED BY <2>1, <2>2, DeployableIsSolid, SourcesAreKnown
<1> QED BY <1>2, <1>3

LEMMA AuthorizationKinds ==
  \A claims, boast, breach, upheld :
    Authorization(claims, boast, breach, upheld)
      \in {"BLOCKED", "APPROVED_WITH_CONDITIONS", "APPROVED"}
BY DEF Authorization

\* What an approval without conditions says of the text, its evaluation and its claims.
LEMMA ApprovedMeans ==
  ASSUME NEW claims, NEW boast \in BOOLEAN, NEW breach \in BOOLEAN, NEW upheld,
         Authorization(claims, boast, breach, upheld) = "APPROVED"
  PROVE  /\ evaluation.status # "INCONCLUSIVE"
         /\ boast => evaluation.origin = "REAL"
         /\ \A c \in copy \cup claims : c \in upheld
<1> DEFINE all == Audited(claims)
           refused == {c \in all : IF c.cites # Uncited THEN c \notin upheld ELSE ~c.framed}
<1>1. /\ ~Undecided /\ ~(boast /\ ~ResultObserved) /\ refused = {}
      /\ ~\E c \in all : c.cites = Uncited
  BY DEF Authorization
<1>2. \A c \in all : c.cites # Uncited /\ c \in upheld BY <1>1
<1> QED BY <1>1, <1>2 DEF Undecided, ResultObserved, Audited

LEMMA AnswerFinalKeeps ==
  ASSUME PipelineInv, AnswerFinal PROVE PipelineInv'
<1>1. Handling("FINAL_CMO") /\ gathered /\ HandsOff
      /\ UNCHANGED <<toolReceipt, index, evaluation, copy>>
  BY DEF AnswerFinal
<1>2. PICK c \in ClaimsCiting(DOMAIN index \cup Texts \cup {Uncited}),
           boast \in BOOLEAN, breach \in BOOLEAN : \E claims \in {{}, {c}} :
        \E upheld \in SUBSET {d \in Audited(claims) : d.cites # Uncited /\ Checkable(d)} :
        \E approval \in {"BLOCKED", Authorization(claims, boast, breach, upheld)} :
          /\ finalPlan' = [claims |-> claims, boast |-> boast, approval |-> approval]
          /\ ledger' = {<<d, CitedSource(d)>> : d \in upheld}
          /\ Returns("FINAL_CMO", IF approval = "BLOCKED" THEN "FAILED" ELSE "COMPLETED")
  BY DEF AnswerFinal
<1>3. PICK claims \in {{}, {c}} :
        \E upheld \in SUBSET {d \in Audited(claims) : d.cites # Uncited /\ Checkable(d)} :
        \E approval \in {"BLOCKED", Authorization(claims, boast, breach, upheld)} :
          /\ finalPlan' = [claims |-> claims, boast |-> boast, approval |-> approval]
          /\ ledger' = {<<d, CitedSource(d)>> : d \in upheld}
          /\ Returns("FINAL_CMO", IF approval = "BLOCKED" THEN "FAILED" ELSE "COMPLETED")
  BY <1>2
<1>4. PICK upheld \in SUBSET {d \in Audited(claims) : d.cites # Uncited /\ Checkable(d)} :
        \E approval \in {"BLOCKED", Authorization(claims, boast, breach, upheld)} :
          /\ finalPlan' = [claims |-> claims, boast |-> boast, approval |-> approval]
          /\ ledger' = {<<d, CitedSource(d)>> : d \in upheld}
          /\ Returns("FINAL_CMO", IF approval = "BLOCKED" THEN "FAILED" ELSE "COMPLETED")
  BY <1>3
<1>5. PICK approval \in {"BLOCKED", Authorization(claims, boast, breach, upheld)} :
          /\ finalPlan' = [claims |-> claims, boast |-> boast, approval |-> approval]
          /\ ledger' = {<<d, CitedSource(d)>> : d \in upheld}
          /\ Returns("FINAL_CMO", IF approval = "BLOCKED" THEN "FAILED" ELSE "COMPLETED")
  BY <1>4
<1> DEFINE status == IF approval = "BLOCKED" THEN "FAILED" ELSE "COMPLETED"
<1>7. status \in {"COMPLETED", "FAILED"} /\ Returns("FINAL_CMO", status) BY <1>5
<1>8. upTo = 5
  <2>1. upTo \in 0..5 /\ "FINAL_CMO" = Order[upTo + 1] BY <1>1, StagesInOrder
  <2> QED BY <2>1 DEF Order
<1>9. /\ upTo' = 6 /\ upTo' \in 0..6 /\ gathered' = FALSE /\ spoiled' \in BOOLEAN
      /\ outcome' \in [SixStages -> {"NONE", "COMPLETED", "FAILED"}] /\ OutcomeInv'
  <2> HIDE DEF status
  <2>1. /\ upTo' = upTo + 1 /\ upTo' \in 0..6 /\ gathered' = FALSE /\ spoiled' \in BOOLEAN
        /\ outcome' \in [SixStages -> {"NONE", "COMPLETED", "FAILED"}] /\ OutcomeInv'
    BY <1>1, <1>7, StageReturns
  <2> QED BY <1>8, <2>1
<1>10. claims \in SUBSET TextClaims BY <1>3, ClaimsAreText
<1>11. /\ upheld \subseteq TextClaims
       /\ \A d \in upheld : /\ CitedSource(d) \in EvidenceSources
                            /\ CitedSource(d) \in Verified \/ SettledReal(CitedSource(d))
  BY <1>10, AuditUpholds
<1>12. ledger' \subseteq Upholdings BY <1>5, <1>11 DEF Upholdings
<1>13. approval \in {"BLOCKED", "APPROVED_WITH_CONDITIONS", "APPROVED"}
  BY AuthorizationKinds
<1>14. finalPlan' \in Audits BY <1>2, <1>5, <1>10, <1>13 DEF Audits
<1>15. facts' \subseteq EpistemicItems /\ FactInv' BY <1>1, <1>8, <1>9, HandOffKeepsFacts
<1>16. PipelineTypeOK'
  BY <1>1, <1>9, <1>12, <1>14, <1>15 DEF PipelineInv, PipelineTypeOK, IsPackage
<1>17. PlanIsEarned'
  <2> SUFFICES ASSUME finalPlan'.approval = "APPROVED" PROVE PlanIsEarned' BY DEF PlanIsEarned
  <2>1. approval = "APPROVED" /\ finalPlan'.claims = claims /\ finalPlan'.boast = boast BY <1>5
  <2>2. Authorization(claims, boast, breach, upheld) = "APPROVED" BY <2>1
  <2>3. /\ evaluation.status # "INCONCLUSIVE"
        /\ boast => evaluation.origin = "REAL"
        /\ \A d \in copy \cup claims : d \in upheld
    BY <1>2, <2>2, ApprovedMeans
  <2>4. \A t \in SixStages : outcome'[t] = "COMPLETED"
    <3>1. outcome' = [outcome EXCEPT !["FINAL_CMO"] = "COMPLETED"]
      BY <1>7, <2>1 DEF Returns
    <3>2. \A i \in 1..5 : outcome[Order[i]] \in {"COMPLETED", "FAILED"}
      BY <1>8 DEF PipelineInv, OutcomeInv
    <3>3. \A t \in SixStages : outcome[t] # "FAILED"
      BY <1>1, <1>8 DEF PipelineInv, OutcomeInv
    <3>4. outcome \in [SixStages -> {"NONE", "COMPLETED", "FAILED"}]
      BY DEF PipelineInv, PipelineTypeOK
    <3>5. Order[6] = "FINAL_CMO" BY DEF Order
    <3>6. ASSUME NEW i \in 1..6 PROVE outcome'[Order[i]] = "COMPLETED"
      <4>1. Order[i] \in SixStages BY DEF SixStages
      <4>2. CASE i = 6 BY <3>1, <3>4, <3>5, <4>1, <4>2
      <4>3. CASE i # 6 BY <3>1, <3>2, <3>3, <3>4, <4>1, <4>3
      <4> QED BY <4>2, <4>3
    <3> QED BY <3>6 DEF SixStages
  <2>5. ASSUME boast PROVE \E t \in ToolCalls \ {"image"} : toolReceipt'[t] = "REAL"
    <3>1. evaluation.origin = "REAL" BY <2>3, <2>5
    <3>2. PICK t \in ToolCalls : SettledReal(t) BY <3>1 DEF PipelineInv, EvaluationInv
    <3> QED BY <1>1, <3>2 DEF SettledReal
  <2>6. ASSUME NEW d \in copy \cup claims PROVE \E x \in Solid' : <<d, x>> \in ledger'
    <3>1. d \in upheld BY <2>3
    <3>2. CitedSource(d) \in Verified \/ SettledReal(CitedSource(d)) BY <1>11, <3>1
    <3>3. CitedSource(d) \in Solid' BY <1>1, <3>2 DEF Solid, SettledReal
    <3>4. <<d, CitedSource(d)>> \in ledger' BY <1>5, <3>1
    <3> QED BY <3>3, <3>4, Zenon
  <2>7. copy' = copy /\ evaluation'.status # "INCONCLUSIVE" BY <1>1, <2>3
  <2> QED BY <2>1, <2>4, <2>5, <2>6, <2>7, Zenon DEF PlanIsEarned
<1>18. PlanInv' BY <1>9, <1>17 DEF PlanInv
<1>19. IndexInv' /\ EvaluationInv' BY <1>1, <1>8, <1>9, NothingNewSeen
<1> QED BY <1>9, <1>15, <1>16, <1>18, <1>19 DEF PipelineInv

LEMMA PipelineStutters == PipelineInv /\ UNCHANGED pipelineVars => PipelineInv'
<1> SUFFICES ASSUME PipelineInv, UNCHANGED pipelineVars PROVE PipelineInv' OBVIOUS
<1> USE DEF PipelineInv, pipelineVars
<1>1. \A t : (Observed(t) => Observed(t)') /\ (SettledReal(t) => SettledReal(t)')
  BY DEF Observed, SettledReal, Settled
<1>2. PipelineTypeOK' /\ OutcomeInv' BY DEF PipelineTypeOK, IsPackage, OutcomeInv
<1>3. IndexInv' BY <1>1 DEF IndexInv
<1>4. FactInv' /\ EvaluationInv' BY <1>1 DEF FactInv, EvaluationInv
<1>5. Solid' = Solid BY DEF Solid
<1>6. PlanInv' BY <1>5 DEF PlanInv, PlanIsEarned
<1> QED BY <1>2, <1>3, <1>4, <1>6

LEMMA PipelineStepKeeps == PipelineInv /\ [PipelineNext]_pipelineVars => PipelineInv'
<1> SUFFICES ASSUME PipelineInv, [PipelineNext]_pipelineVars PROVE PipelineInv' OBVIOUS
<1>1. CASE \E s \in SixStages : GatherEvidence(s) \/ DispatchRefused(s) \/ ModelFails(s)
  <2>1. PICK s \in SixStages : GatherEvidence(s) \/ DispatchRefused(s) \/ ModelFails(s)
    BY <1>1
  <2>2. CASE GatherEvidence(s) BY <2>2, GatherKeeps
  <2>3. CASE DispatchRefused(s) BY <2>3, DispatchRefusedKeeps
  <2>4. CASE ModelFails(s) BY <2>4, TurnedAwayKeeps DEF ModelFails
  <2> QED BY <2>1, <2>2, <2>3, <2>4
<1>2. CASE AnswerCmoInitial \/ AnswerIntelligence \/ AnswerContent
  BY <1>2, AnswerKeeps DEF AnswerCmoInitial, AnswerIntelligence, AnswerContent
<1>3. CASE AnswerCreative BY <1>3, AnswerCreativeKeeps
<1>4. CASE AnswerPerformance BY <1>4, AnswerPerformanceKeeps
<1>5. CASE AnswerFinal BY <1>5, AnswerFinalKeeps
<1>6. CASE UNCHANGED pipelineVars BY <1>6, PipelineStutters
<1> QED BY <1>1, <1>2, <1>3, <1>4, <1>5, <1>6 DEF PipelineNext

\* The invariant of the pipeline holds throughout a run.
THEOREM PipelineInvariance == PipelineSpec => []PipelineInv
<1>1. PipelineInit => PipelineInv BY PipelineInitially
<1>2. PipelineInv /\ [PipelineNext]_pipelineVars => PipelineInv' BY PipelineStepKeeps
<1> QED BY <1>1, <1>2, PTL DEF PipelineSpec

\* Receipts, index, facts, evaluation, ledger and plan keep their types.
THEOREM PipelineTypeCorrect == PipelineSpec => []PipelineTypeOK
<1>1. PipelineInv => PipelineTypeOK BY DEF PipelineInv
<1> QED BY <1>1, PipelineInvariance, PTL

\* A plan approved without conditions rests on six completed stages, a decided evaluation
\* and, for every claim of its text and of the creative text, a solid source
\* (_evaluate_final_authorization).
THEOREM PlanTheorem == PipelineSpec => []PlanIsEarned
<1>1. PipelineInv => PlanIsEarned BY DEF PipelineInv, PlanInv
<1> QED BY <1>1, PipelineInvariance, PTL

\* A fact of a hand-off never rests on a simulated or failed receipt, nor on an unverified
\* document, at any later time of the run (build_epistemic_item).
THEOREM FactsTheorem == PipelineSpec => []FactsAreSolid
<1>1. PipelineInv => FactsAreSolid
  BY DEF PipelineInv, FactInv, FactsAreSolid, Solid, SettledReal
<1> QED BY <1>1, PipelineInvariance, PTL

\* Once the run has its evidence from a capability, its receipt is the one every later
\* stage sees (_get_cached_tool_receipt).
ReceiptsSettle ==
  [][\A t \in ToolCalls : Settled(t) => toolReceipt'[t] = toolReceipt[t]]_pipelineVars

\* No stage after the one that asked changes what a capability answered it.
THEOREM ReceiptsTheorem == PipelineSpec => ReceiptsSettle
<1>1. ASSUME PipelineInv, [PipelineNext]_pipelineVars,
             NEW t \in ToolCalls, Settled(t), ~UNCHANGED pipelineVars
      PROVE  toolReceipt'[t] = toolReceipt[t]
  <2>1. CASE \E s \in SixStages : GatherEvidence(s)
    <3>1. PICK s \in SixStages : GatherEvidence(s) BY <2>1
    <3>2. CASE toolReceipt' = toolReceipt BY <3>2
    <3>3. CASE toolReceipt' \in Asked(s)
      <4>1. upTo \in 0..5 /\ (t \in Wanted(s) <=> StageOf(t) = upTo + 1)
        BY <1>1, <3>1, StagesInOrder DEF GatherEvidence
      <4>2. ~gathered BY <3>1 DEF GatherEvidence
      <4>3. t \notin Wanted(s) BY <1>1, <4>1, <4>2, PlacesFit DEF Settled
      <4> QED BY <1>1, <3>3, <4>3 DEF Asked
    <3> QED BY <3>1, <3>2, <3>3 DEF GatherEvidence, TurnedAway
  <2>2. CASE ~\E s \in SixStages : GatherEvidence(s)
    BY <1>1, <2>2 DEF PipelineNext, DispatchRefused, ModelFails, Answer, AnswerCmoInitial,
                      AnswerIntelligence, AnswerContent, AnswerCreative, AnswerPerformance,
                      AnswerFinal
  <2> QED BY <2>1, <2>2
<1>2. PipelineInv /\ [PipelineNext]_pipelineVars =>
        [\A t \in ToolCalls : Settled(t) => toolReceipt'[t] = toolReceipt[t]]_pipelineVars
  BY <1>1
<1> QED BY <1>2, PipelineInvariance, PTL DEF PipelineSpec, ReceiptsSettle
=============================================================================
