--------------------------- MODULE StagePipeline ---------------------------
(***************************************************************************)
(* What one run's six stages hand to each other (runtime/engine.py,         *)
(* runtime/context_compiler.py, runtime/handoff.py): the tool receipts a    *)
(* stage asks for, the numbered evidence package compiled for its agent,    *)
(* the run's provenance index those numbers go into, the facts a hand-off   *)
(* keeps, the performance evaluation, and the claim audit that authorizes   *)
(* the final plan.  Prompts and prose are abstracted to what they cite.     *)
(***************************************************************************)
EXTENDS Integers, Sequences, FiniteSets

CONSTANTS
  Library,     \* knowledge documents, the most relevant first
  Verified,    \* those of authority tier 1 or 2
  Readers,     \* [document -> agents whose access profile admits it]
  Followed,    \* pages a search may discover, in the order of its results
  Fits,        \* items the character budget of a package holds
  MaxFacts,    \* bound: a run with this many facts is not given more
  Uncited      \* a claim that cites nothing, a metric that resolves to nothing

\* What a package may list, in its order: the documents, the receipts a stage asks
\* for itself, and the pages read after a search.
Texts == {Library[i] : i \in DOMAIN Library}
Urls == {Followed[i] : i \in DOMAIN Followed}
ToolCalls == {"search", "image", "analytics"} \cup Urls
EvidenceSources == Texts \cup ToolCalls
Listing == Library \o <<"search", "image", "analytics">> \o Followed

\* The code reads at most three of the pages a search found, each once.
ASSUME PipelineAssumption ==
  /\ Library \in Seq(Texts) /\ Followed \in Seq(Urls) /\ Len(Followed) <= 3
  /\ \A i, j \in DOMAIN Followed : Followed[i] = Followed[j] => i = j
  /\ Texts \cap ToolCalls = {} /\ {"search", "image", "analytics"} \cap Urls = {}
  /\ Verified \subseteq Texts /\ Uncited \notin EvidenceSources
  /\ Fits \in Nat /\ MaxFacts \in Nat

VARIABLES
  upTo,        \* stages that have returned
  gathered,    \* the current stage has its evidence and asks the model
  spoiled,     \* context.status = FAILED
  outcome,     \* stage_outputs[stage]["status"]
  toolReceipt, \* mode of a successful receipt, "ERROR", or "UNSENT"
  index,       \* working_state["provenance_index"]: source id -> source
  facts,       \* facts kept in hand-offs: [ref, source] as resolved then
  evaluation,  \* the performance hand-off's evaluation
  copy,        \* claims of the creative synthesis
  ledger,      \* claim_verification_ledger: supported <<claim, source>>
  finalPlan    \* the final text and its authorization

pipelineVars == <<upTo, gathered, spoiled, outcome, toolReceipt, index, facts,
                  evaluation, copy, ledger, finalPlan>>

\* The references an answer may give: source ids, a receipt's own id, and an id of
\* nothing.
SourceIds == {"SRC", "TOOL"} \X (1 .. Len(Listing))
References == SourceIds \cup ({"EXEC"} \X EvidenceSources) \cup {<<"SRC", 0>>}

IsPackage(p) == DOMAIN p \subseteq SourceIds /\ \A id \in DOMAIN p : p[id] \in EvidenceSources

\* A fact of a hand-off, a claim of a creative text or of the plan, a verdict that
\* upholds a claim, and the audit record of the plan.
EpistemicItems == [ref : References, source : EvidenceSources]
TextClaims == [cites : SourceIds \cup EvidenceSources \cup {Uncited}, framed : BOOLEAN]
Evaluations == [status : {"SUPPORTED", "INCONCLUSIVE", "NOT_EVALUATED"},
                origin : {"REAL", "OTHER", "NO_DATA"}, prose : BOOLEAN]
Upholdings == TextClaims \X EvidenceSources
Audits == [claims : SUBSET TextClaims, boast : BOOLEAN,
           approval : {"NONE", "BLOCKED", "APPROVED_WITH_CONDITIONS", "APPROVED"}]

Order == <<"CMO_INITIAL", "INTELLIGENCE", "CONTENT", "CREATIVE", "PERFORMANCE", "FINAL_CMO">>
SixStages == {Order[i] : i \in 1..6}
AgentOf(s) == IF s \in {"CMO_INITIAL", "FINAL_CMO"} THEN "CMO" ELSE s

Deployable == {"VERIFIED_SOURCE", "SOURCE_BACKED_OBSERVATION"}

NotMeasured == [status |-> "NOT_EVALUATED", origin |-> "NO_DATA", prose |-> FALSE]
NoPlanYet == [claims |-> {}, boast |-> FALSE, approval |-> "NONE"]

PipelineInit ==
  /\ upTo = 0 /\ gathered = FALSE /\ spoiled = FALSE
  /\ outcome = [s \in SixStages |-> "NONE"]
  /\ toolReceipt = [t \in ToolCalls |-> "UNSENT"]
  /\ index = [i \in {} |-> Uncited] /\ facts = {}
  /\ evaluation = NotMeasured /\ copy = {} /\ ledger = {} /\ finalPlan = NoPlanYet

Handling(s) == upTo < 6 /\ s = Order[upTo + 1]

Returns(s, status) ==
  /\ outcome' = [outcome EXCEPT ![s] = status]
  /\ upTo' = upTo + 1 /\ gathered' = FALSE
  /\ spoiled' = (spoiled \/ status = "FAILED")

UpstreamFailed(s) ==
  \/ spoiled /\ s # "CMO_INITIAL"
  \/ s = "FINAL_CMO" /\ \E t \in SixStages : outcome[t] = "FAILED"
  \/ s \notin {"CMO_INITIAL", "FINAL_CMO"} /\ outcome[Order[upTo]] = "FAILED"

-----------------------------------------------------------------------------
(* Receipts and the package compiled from them.                             *)

\* The capabilities a stage calls.
Wanted(s) ==
  CASE s = "INTELLIGENCE" -> {"search"} \cup Urls
    [] s = "CREATIVE" -> {"image"}
    [] s = "PERFORMANCE" -> {"analytics"}
    [] OTHER -> {}

\* The receipts stage s may come to hold; pages follow a search that worked,
\* and the media adapter renders nothing real.
ReceiptModes == {"REAL", "MOCK", "ERROR", "UNSENT"}
Asked(s) ==
  {got \in [ToolCalls -> ReceiptModes] :
     \A t \in ToolCalls :
       /\ got["image"] # "REAL"
       /\ t \notin Wanted(s) => got[t] = toolReceipt[t]
       /\ t \in Wanted(s) \ Urls => got[t] # "UNSENT"
       /\ t \in Wanted(s) \cap Urls /\ got["search"] = "ERROR" => got[t] = "UNSENT"}

\* The receipts a stage offers the compiler: performance drops what is not real,
\* intelligence the pages it could not read.
Offered(s, got) ==
  {t \in Wanted(s) : /\ t = "analytics" => got[t] = "REAL"
                     /\ t \in Urls => got[t] \in {"REAL", "MOCK"}}

\* Mutant: the status of a receipt is not looked at.
EvidentialAnyStatus(t, got) == got[t] # "UNSENT" /\ t # "image"
\* Only a successful receipt of an observing capability becomes evidence.
Evidential(t, got) == got[t] \in {"REAL", "MOCK"} /\ t # "image"

TierOf(x, got) ==
  IF x \in Texts
    THEN IF x \in Verified THEN "VERIFIED_SOURCE" ELSE "UNVERIFIED_SOURCE"
    ELSE IF got[x] = "MOCK" THEN "MOCK_OR_SANDBOX" ELSE "SOURCE_BACKED_OBSERVATION"

TierRank == [VERIFIED_SOURCE |-> 1, SOURCE_BACKED_OBSERVATION |-> 2,
             MOCK_OR_SANDBOX |-> 4, UNVERIFIED_SOURCE |-> 5]

\* The places of Listing a package for stage s fills.
Listed(s, got) ==
  {i \in DOMAIN Listing :
     IF Listing[i] \in Texts THEN AgentOf(s) \in Readers[Listing[i]]
     ELSE Listing[i] \in Offered(s, got) /\ Evidential(Listing[i], got)}

\* The budget of a package goes to its best tiers first.
Kept(items, got) ==
  LET rank(i) == TierRank[TierOf(Listing[i], got)]
  IN  {i \in items :
         Cardinality({j \in items :
           rank(j) < rank(i) \/ (rank(j) = rank(i) /\ j < i)}) < Fits}

\* The items are numbered from 1 in every package, before the budget is spent.
Package(s, got) ==
  LET items == Listed(s, got)
      number(i) == Cardinality({j \in items : j <= i})
      kept == Kept(items, got)
  IN  [id \in {<<IF Listing[i] \in Texts THEN "SRC" ELSE "TOOL", number(i)>> : i \in kept} |->
         Listing[CHOOSE i \in kept : number(i) = id[2]]]

\* The run's index takes a package in: a number it knows names the new item.
Indexed(package) ==
  [id \in DOMAIN package \cup DOMAIN index |->
     IF id \in DOMAIN package THEN package[id] ELSE index[id]]

\* A failed upstream stage is noticed before any retrieval or tool call.
TurnedAway(s) ==
  /\ UpstreamFailed(s) /\ Returns(s, "FAILED")
  /\ UNCHANGED <<toolReceipt, index, facts, evaluation, copy, ledger, finalPlan>>

GatherEvidence(s) ==
  /\ Handling(s) /\ ~gathered
  /\ \/ TurnedAway(s)
     \/ /\ ~UpstreamFailed(s)
        /\ \E got \in Asked(s) :
             /\ toolReceipt' = got
             /\ index' = Indexed(Package(s, got))
        /\ gathered' = TRUE
        /\ UNCHANGED <<upTo, spoiled, outcome, facts, evaluation, copy, ledger, finalPlan>>

\* A dispatch without the Brain authority it needs raises out of the run.
DispatchRefused(s) ==
  /\ Handling(s) /\ ~gathered /\ ~UpstreamFailed(s)
  /\ s \in {"INTELLIGENCE", "CREATIVE", "PERFORMANCE"}
  /\ spoiled' = TRUE /\ upTo' = 6
  /\ UNCHANGED <<gathered, outcome, toolReceipt, index, facts, evaluation, copy,
                 ledger, finalPlan>>

-----------------------------------------------------------------------------
(* What the model's answer becomes.                                         *)

\* A reference is a source id of the index, or the id of a receipt in it.
Resolve(ref) ==
  IF ref \in DOMAIN index THEN index[ref]
  ELSE IF ref[1] = "EXEC" /\ \E id \in DOMAIN index : index[id] = ref[2] THEN ref[2]
  ELSE Uncited

Citable == DOMAIN index \cup {<<"EXEC", t>> : t \in ToolCalls} \cup {<<"SRC", 0>>}

\* A fact without deployable support is kept as an observation only.
SupportedFacts(refs) ==
  {[ref |-> r, source |-> Resolve(r)] : r \in
     {q \in refs : Resolve(q) # Uncited /\ TierOf(Resolve(q), toolReceipt) \in Deployable}}

ModelFails(s) ==
  /\ Handling(s) /\ gathered
  /\ Returns(s, "FAILED")
  /\ UNCHANGED <<toolReceipt, index, facts, evaluation, copy, ledger, finalPlan>>

\* Every stage that answers hands off facts, or none.
HandsOff ==
  \E handed \in IF Cardinality(facts) < MaxFacts
                THEN {SupportedFacts({r}) : r \in Citable} ELSE {{}} :
    facts' = facts \cup handed

\* A stage whose prose is not audited.
Answer(s) ==
  /\ Handling(s) /\ gathered
  /\ HandsOff
  /\ Returns(s, "COMPLETED")
  /\ UNCHANGED <<toolReceipt, index, evaluation, copy, ledger, finalPlan>>

AnswerCmoInitial == Answer("CMO_INITIAL")
AnswerIntelligence == Answer("INTELLIGENCE")
AnswerContent == Answer("CONTENT")

ClaimsCiting(refs) ==
  {[cites |-> r, framed |-> f] : r \in refs, f \in BOOLEAN}

AnswerCreative ==
  /\ Handling("CREATIVE") /\ gathered
  /\ \E c \in ClaimsCiting(DOMAIN index \cup {Uncited}) : copy' \in {{}, {c}}
  /\ HandsOff
  /\ Returns("CREATIVE", "COMPLETED")
  /\ UNCHANGED <<toolReceipt, index, evaluation, ledger, finalPlan>>

\* build_performance_evaluation for one metric reference.
Evaluated(requested, ref, inconclusive) ==
  LET source == Resolve(ref)
      real == /\ source \in ToolCalls \* documents carry no execution mode
              /\ TierOf(source, toolReceipt) \in Deployable
      origin == IF source = Uncited THEN "NO_DATA" ELSE IF real THEN "REAL" ELSE "OTHER"
  IN  [status |-> IF requested = "INCONCLUSIVE" THEN requested
                  ELSE IF requested = "SUPPORTED" /\ real THEN requested
                  ELSE IF inconclusive THEN "INCONCLUSIVE" ELSE "NOT_EVALUATED",
       origin |-> origin, prose |-> inconclusive]

\* Passes 5A and 5B; either one failing is ModelFails.
AnswerPerformance ==
  /\ Handling("PERFORMANCE") /\ gathered
  /\ \E requested \in {"SUPPORTED", "INCONCLUSIVE", "NOT_EVALUATED"},
        ref \in Citable, inconclusive \in BOOLEAN :
       evaluation' = Evaluated(requested, ref, inconclusive)
  /\ HandsOff
  /\ Returns("PERFORMANCE", "COMPLETED")
  /\ UNCHANGED <<toolReceipt, index, copy, ledger, finalPlan>>

-----------------------------------------------------------------------------
(* The audit of the final plan.                                             *)

\* The gate reads the index and, failing that, the knowledge repository.
CitedSource(c) ==
  IF c.cites \in DOMAIN index THEN index[c.cites]
  ELSE IF c.cites \in Texts THEN c.cites ELSE Uncited

Checkable(c) == CitedSource(c) # Uncited /\ TierOf(CitedSource(c), toolReceipt) \in Deployable

\* Performance said it cannot tell, in prose or in the hand-off.
Undecided == evaluation.prose \/ evaluation.status = "INCONCLUSIVE"
ResultObserved == evaluation.status = "SUPPORTED" /\ evaluation.origin = "REAL"

\* Mutant: the creative synthesis is not part of the audited text.
FinalTextOnly(claims) == claims
Audited(claims) == copy \cup claims

Authorization(claims, boast, breach, upheld) ==
  LET all == Audited(claims)
      refused == {c \in all : IF c.cites # Uncited THEN c \notin upheld ELSE ~c.framed}
  IN  IF Undecided \/ (boast /\ ~ResultObserved) \/ breach \/ refused # {}
        THEN "BLOCKED"
      ELSE IF \E c \in all : c.cites = Uncited THEN "APPROVED_WITH_CONDITIONS"
      ELSE "APPROVED"

\* The gate may also raise or return nothing, which blocks.
AnswerFinal ==
  /\ Handling("FINAL_CMO") /\ gathered
  /\ \E c \in ClaimsCiting(DOMAIN index \cup Texts \cup {Uncited}), boast, breach \in BOOLEAN :
       \E claims \in {{}, {c}} :
       \E upheld \in SUBSET {d \in Audited(claims) : d.cites # Uncited /\ Checkable(d)} :
       \E approval \in {"BLOCKED", Authorization(claims, boast, breach, upheld)} :
           /\ finalPlan' = [claims |-> claims, boast |-> boast, approval |-> approval]
           /\ ledger' = {<<d, CitedSource(d)>> : d \in upheld}
           /\ Returns("FINAL_CMO", IF approval = "BLOCKED" THEN "FAILED" ELSE "COMPLETED")
  /\ HandsOff
  /\ UNCHANGED <<toolReceipt, index, evaluation, copy>>

PipelineNext ==
  \/ \E s \in SixStages : GatherEvidence(s) \/ DispatchRefused(s) \/ ModelFails(s)
  \/ AnswerCmoInitial \/ AnswerIntelligence \/ AnswerContent
  \/ AnswerCreative \/ AnswerPerformance \/ AnswerFinal

PipelineSpec == PipelineInit /\ [][PipelineNext]_pipelineVars

-----------------------------------------------------------------------------
(* Properties.                                                              *)

PipelineTypeOK ==
  /\ upTo \in 0..6 /\ gathered \in BOOLEAN /\ spoiled \in BOOLEAN
  /\ outcome \in [SixStages -> {"NONE", "COMPLETED", "FAILED"}]
  /\ toolReceipt \in [ToolCalls -> ReceiptModes] /\ evaluation \in Evaluations
  /\ IsPackage(index) /\ facts \subseteq EpistemicItems
  /\ copy \subseteq TextClaims /\ ledger \subseteq Upholdings
  /\ finalPlan \in Audits

\* Real sources of this run: verified documents and successful real receipts.
Solid == Verified \cup {t \in ToolCalls : toolReceipt[t] = "REAL"}

\* A plan authorized without conditions had no failed stage and no undecided
\* evaluation; every claim of its text and of the creative text was upheld
\* against a solid source, and a result it reports as observed rests on a real
\* receipt of the run (execute_stage_final_cmo, _evaluate_final_authorization).
PlanIsEarned ==
  finalPlan.approval = "APPROVED" =>
    /\ \A s \in SixStages : outcome[s] = "COMPLETED"
    /\ evaluation.status # "INCONCLUSIVE"
    /\ finalPlan.boast => \E t \in ToolCalls \ {"image"} : toolReceipt[t] = "REAL"
    /\ \A c \in copy \cup finalPlan.claims : \E x \in Solid : <<c, x>> \in ledger

\* "MOCK/SANDBOX-tier or failed receipts can never support a fact": whatever
\* package a fact's source came in by, it is a solid one (build_epistemic_item).
FactsAreSolid == \A f \in facts : f.source \in Solid

\* A source id names one source for as long as the run lives: EvidenceItem
\* describes it as a "System-generated unique source identifier".
SourceIdsAreUnique ==
  [][\A id \in DOMAIN index : index'[id] = index[id]]_pipelineVars
=============================================================================
