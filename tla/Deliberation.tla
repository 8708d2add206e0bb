---------------------------- MODULE Deliberation ----------------------------
(***************************************************************************)
(* One decision of one Brain agent (src/brain): the evidence gathered for  *)
(* the claim it rests on, the reviews of the other permanent agents, what  *)
(* may be authorised from them, whether the goal may be called finished,   *)
(* and which move the cognitive loop asks for next.                        *)
(*                                                                         *)
(* Everything the Brain answers is recomputed from the raw evidence handed *)
(* in, so the state is that evidence; what a caller hands in beside it     *)
(* (blockers, the plan's remaining work, what it would like decided) is a  *)
(* parameter of the call.                                                  *)
(***************************************************************************)
EXTENDS Evidence

CONSTANTS Brains,      \* the permanent agents
          Author,      \* the one that owns the proposal
          Unbacked,    \* a review without an evidence request
          Quorum,      \* minimum_supporting_reviewers
          MaxSignals,  \* bound: signals gathered for one claim
          MaxBacking,  \* bound: signals one review rests on
          MaxReviews   \* bound: reviews of the proposal

ASSUME DeliberationAssumption ==
  /\ Author \in Brains
  /\ Quorum \in Nat \ {0} /\ {MaxSignals, MaxBacking, MaxReviews} \subseteq Nat

VARIABLES shown,     \* evidence for the decision's claim
          reviews,   \* the peer reviews
          ruling     \* what the last turn answered

deliberationVars == <<shown, reviews, ruling>>

NoRuling == [to |-> "NOTHING", says |-> "NOTHING", asks |-> {}]

-----------------------------------------------------------------------------
\* evaluate_collaboration

\* a review by the author is not peer review, and a peer counts once or not at all
Peers(R) == {r \in R : r.by # Author}
Duplicated(R) == {r \in Peers(R) : \E q \in Peers(R) : q # r /\ q.by = r.by}
Eligible(R) == Peers(R) \ Duplicated(R)

ReviewSources(r) == IF r.backing = Unbacked THEN {} ELSE SourcesOf(r.backing)

CommonModeWithPeer(r, E, R) ==
  \E q \in Eligible(R) \ {r} : ReviewSources(r) \cap ReviewSources(q) # {}

\* evidence shared with the proposal or with another peer is not independent
CommonMode(r, E, R) ==
  \/ ReviewSources(r) \cap SourcesOf(E) # {}
  \/ \E q \in Eligible(R) \ {r} : ReviewSources(r) \cap ReviewSources(q) # {}

Backed(r, E, R) == r.backing # Unbacked /\ ~CommonMode(r, E, R)

Supporting(E, R) == {r \in Eligible(R) : r.says = "SUPPORTED" /\ Backed(r, E, R)}

Says(R, v) == {r \in Eligible(R) : r.says = v}

Collaboration(E, R) ==
  IF Verdict(E) = "REFUTED" THEN "REVISE"
  ELSE IF Verdict(E) = "CONTESTED" THEN "ESCALATE"
  ELSE IF Verdict(E) = "INSUFFICIENT" THEN "INCONCLUSIVE"
  ELSE IF Duplicated(R) # {} THEN "INCONCLUSIVE"
  ELSE IF \E r \in Says(R, "REFUTED") : Backed(r, E, R) THEN "REVISE"
  ELSE IF Says(R, "CONTESTED") \cup Says(R, "REFUTED") # {} THEN "ESCALATE"
  ELSE IF Cardinality(Supporting(E, R)) >= Quorum THEN "ACCEPT"
  ELSE "INCONCLUSIVE"

\* synthesize_collective_cognition over the candidates' dispositions; it
\* needs every permanent agent to have taken part
Collective(ds) ==
  IF "ESCALATE" \in {d[2] : d \in ds} THEN "ARBITRATE"
  ELSE IF "INCONCLUSIVE" \in {d[2] : d \in ds} THEN "RESEARCH"
  ELSE IF Cardinality({d \in ds : d[2] = "ACCEPT"}) > 1 THEN "ARBITRATE"
  ELSE IF "ACCEPT" \in {d[2] : d \in ds} THEN "READY"
  ELSE "REVISE"

AllTookPart(R) == {Author} \cup {r.by : r \in R} = Brains

-----------------------------------------------------------------------------
\* evaluate_decision: what is asked for, whether the record cites exactly
\* verified support, and whether reviews were handed in
Decision(E, R, asked, cites, reviewed) ==
  IF asked \in {"STOP", "ESCALATE"} THEN "ESCALATE"
  ELSE IF asked = "REVISE" THEN "REVISE"
  ELSE IF Verdict(E) \in {"REFUTED", "INSUFFICIENT"} THEN "REVISE"
  ELSE IF Verdict(E) = "CONTESTED" THEN "ESCALATE"
  ELSE IF ~cites THEN "REVISE"
  ELSE IF ~reviewed THEN "ESCALATE"
  ELSE IF Collaboration(E, R) = "ACCEPT" THEN "PROCEED"
  ELSE IF Collaboration(E, R) = "REVISE" THEN "REVISE"
  ELSE "ESCALATE"

\* authorize_action_intent: bound says the intent names this decision, goal
\* and owner
Permission(decision, bound) == IF bound /\ decision = "PROCEED" THEN "ALLOW" ELSE "BLOCK"

-----------------------------------------------------------------------------
\* evaluate_trajectory, for a goal with one success criterion
Trajectory(C, work) ==
  IF Verdict(C) = "CONTESTED" THEN "ESCALATE"
  ELSE IF Verdict(C) = "REFUTED" THEN "REVISE"
  ELSE IF Verdict(C) = "SUPPORTED" THEN "STOP"
  ELSE IF work = "LEFT" THEN "CONTINUE"
  ELSE IF work = "ABANDONED" THEN "ESCALATE"
  ELSE "REVISE"

\* evaluate_stop: blockers first, then only the raw request has a say
StopReason(C, work, blocked, raw) ==
  IF blocked THEN "BLOCKED"
  ELSE IF ~raw THEN "INSUFFICIENT_EVIDENCE"
  ELSE IF Trajectory(C, work) = "STOP" THEN "GOAL_SATISFIED"
  ELSE IF Trajectory(C, work) = "CONTINUE" THEN "CONTINUE"
  ELSE IF Trajectory(C, work) = "REVISE" THEN "INSUFFICIENT_EVIDENCE"
  ELSE "HUMAN_DECISION_REQUIRED"

-----------------------------------------------------------------------------
\* assess_metacognition: gaps are [kind, blocking, testable]
GapKinds == {"UNKNOWN", "CAUSAL", "PROCEDURAL", "CONTRADICTION"}

StrategyFor(g) ==
  IF g.kind = "CAUSAL" /\ g.testable THEN "EXPERIMENT"
  ELSE IF g.kind = "PROCEDURAL" THEN "DECOMPOSE"
  ELSE IF g.kind = "CONTRADICTION" THEN "RESOLVE"
  ELSE "RESEARCH"

Knowledge(G, vs) ==
  IF \E g \in G : g.blocking THEN "BLOCKED"
  ELSE IF "CONTESTED" \in vs THEN "CONTESTED"
  ELSE IF G # {} \/ "INSUFFICIENT" \in vs THEN "INCOMPLETE"
  ELSE "SUFFICIENT"

\* the strategy of highest rank any gap or verdict asks for
NextStrategy(G, vs) ==
  LET asked == {StrategyFor(g) : g \in G}
               \cup (IF "CONTESTED" \in vs THEN {"RESOLVE"} ELSE {})
  IN IF Knowledge(G, vs) = "SUFFICIENT" THEN "NONE"
     ELSE IF "RESOLVE" \in asked THEN "RESOLVE"
     ELSE IF "EXPERIMENT" \in asked THEN "EXPERIMENT"
     ELSE IF "DECOMPOSE" \in asked THEN "DECOMPOSE"
     ELSE "RESEARCH"

\* reflect_on_decision, for a premise the decision takes as established: what
\* it asks to look at again
ScrutinyOf(E, citesDissent, confident, shared) ==
  (CASE Verdict(E) = "SUPPORTED" -> {}
     [] Verdict(E) = "REFUTED" -> {"DECISION"}
     [] OTHER -> {"RESEARCH"})
  \cup (IF (Side(E, "AGAINST") # {} /\ ~citesDissent) \/ shared THEN {"RESEARCH"} ELSE {})
  \cup (IF confident THEN {"DECISION"} ELSE {})

\* two agents' assessments that lean on one observed source
SharedSource(E, R) ==
  \E r \in R : r.backing # Unbacked
    /\ SourcesOf(Observed(r.backing)) \cap SourcesOf(Observed(E)) # {}

\* derive_autonomous_cognitive_loop, on an open goal: metacognition outranks
\* collective cognition, which outranks the cycle
LoopMove(G, vs, ds) ==
  IF Knowledge(G, vs) # "SUFFICIENT" THEN
         IF NextStrategy(G, vs) = "EXPERIMENT" THEN "DESIGN_EXPERIMENT"
         ELSE "REDUCE_KNOWLEDGE_GAP"
  ELSE IF Collective(ds) = "RESEARCH" THEN "RESEARCH_CANDIDATE"
  ELSE IF Collective(ds) = "REVISE" THEN "REVISE_CANDIDATE"
  ELSE IF Collective(ds) = "ARBITRATE" THEN "ARBITRATE_CANDIDATES"
  ELSE "FOLLOW_CYCLE"

-----------------------------------------------------------------------------
Gather ==
  /\ Cardinality(shown) < MaxSignals
  /\ \E e \in Findable \ shown : shown' = shown \cup {e}
  /\ ruling' = NoRuling
  /\ UNCHANGED reviews

\* PeerReview: with raw evidence the verdict must be the one it gives
Review ==
  /\ Cardinality(reviews) < MaxReviews
  /\ \E a \in Brains, v \in Verdicts, b \in SUBSET Findable \cup {Unbacked} :
       /\ b # Unbacked => b # {} /\ Cardinality(b) <= MaxBacking /\ Verdict(b) = v
       /\ reviews' = reviews \cup {[by |-> a, says |-> v, backing |-> b]}
  /\ ruling' = NoRuling
  /\ UNCHANGED shown

\* may the intent prepared on this decision be acted on?
Authorize ==
  /\ \E asked \in {"PROCEED", "REVISE", "STOP"}, cites, reviewed, bound \in BOOLEAN :
       ruling' = [to |-> "ACT", asks |-> {},
                  says |-> Permission(Decision(shown, reviews, asked, cites, reviewed), bound)]
  /\ UNCHANGED <<shown, reviews>>

\* may the goal be called finished, on evidence C for its criterion?
AskStop ==
  /\ \E C \in SUBSET Findable, work \in {"LEFT", "DONE", "ABANDONED"}, blocked, raw \in BOOLEAN :
       /\ Cardinality(C) <= MaxSignals
       /\ ruling' = [to |-> "STOP", says |-> StopReason(C, work, blocked, raw), asks |-> {}]
  /\ UNCHANGED <<shown, reviews>>

\* what the reflection asks to look at again
Reflect ==
  /\ \E citesDissent, confident \in BOOLEAN :
       ruling' = [to |-> "REFLECT", says |-> "NOTHING",
                  asks |-> ScrutinyOf(shown, citesDissent, confident,
                                      SharedSource(shown, reviews))]
  /\ UNCHANGED <<shown, reviews>>

\* which move the loop asks for, with at most one gap and one rival candidate
LoopTurn ==
  /\ \E G \in {{}} \cup {{g} : g \in [kind : GapKinds, blocking : BOOLEAN, testable : BOOLEAN]},
        rival \in {"NONE", "ACCEPT", "REVISE", "INCONCLUSIVE", "ESCALATE"} :
       LET ds == {<<1, Collaboration(shown, reviews)>>}
                 \cup (IF rival = "NONE" THEN {} ELSE {<<2, rival>>})
           move == LoopMove(G, {Verdict(shown)}, ds)
       IN ruling' = [to |-> "MOVE", asks |-> {},
                     says |-> IF move \in {"DESIGN_EXPERIMENT", "REDUCE_KNOWLEDGE_GAP"}
                                 \/ AllTookPart(reviews)
                              THEN move ELSE "REFUSED"]
  /\ UNCHANGED <<shown, reviews>>

DeliberationInit == shown = {} /\ reviews = {} /\ ruling = NoRuling

DeliberationNext == Gather \/ Review \/ Authorize \/ AskStop \/ Reflect \/ LoopTurn

DeliberationSpec == DeliberationInit /\ [][DeliberationNext]_deliberationVars

-----------------------------------------------------------------------------
DeliberationTypeOK ==
  /\ shown \subseteq Findable
  /\ reviews \subseteq [by : Brains, says : Verdicts, backing : SUBSET Findable \cup {Unbacked}]
  /\ DOMAIN ruling = {"to", "says", "asks"}

\* An action is allowed only on a claim that as many agents other than the
\* author support, on sources neither the claim's evidence nor each other
\* uses, as the quorum asks for, and that no other agent refutes or contests:
\* neither repetition nor a second review of one agent, nor evidence passed
\* around, makes agreement (brain/collaboration.py, decisions.py, action_policy.py).
Corroborates(r) ==
  /\ r.by # Author /\ r.says = "SUPPORTED" /\ r.backing # Unbacked
  /\ SourcesOf(r.backing) \cap SourcesOf(shown) = {}

ActionsAreCorroborated ==
  ruling.to = "ACT" /\ ruling.says = "ALLOW" =>
    /\ \E Q \in SUBSET {r \in reviews : Corroborates(r)} :
         /\ Cardinality({r.by : r \in Q}) >= Quorum
         /\ \A q, r \in Q : q # r =>
              q.by # r.by /\ SourcesOf(q.backing) \cap SourcesOf(r.backing) = {}
    /\ \A r \in reviews : r.by # Author => r.says \notin {"REFUTED", "CONTESTED"}
=============================================================================
