----------------------------- MODULE WorldModel -----------------------------
(***************************************************************************)
(* What one Brain agent holds true about a goal's world (src/brain): the   *)
(* chain of world-state snapshots and their beliefs, the temporal and      *)
(* causal model and the knowledge graph read off it, and the questions     *)
(* asked of it: which hypothesis leads, what to probe next, what experiment*)
(* tells two imagined worlds apart, how deep to reason, how a goal splits. *)
(***************************************************************************)
EXTENDS Evidence, Sequences

CONSTANTS Propositions,
          Goals,         \* a root goal and the subgoals it may be split into
          RootGoal,
          NoEvidence,    \* no evidence request for a proposition
          MaxSnapshots,  \* bound: snapshots in the chain
          MaxNews        \* bound: signals of one new assessment

ASSUME WorldAssumption ==
  RootGoal \in Goals /\ MaxSnapshots \in Nat /\ MaxNews \in Nat

VARIABLES chain,     \* the snapshots: per proposition, its belief's revisions
          question  \* the last question and its answer

worldVars == <<chain, question>>

Topics == {"NOTHING", "TEMPORAL", "LINK", "GRAPH", "PROBE", "EXPERIMENT", "DEPTH", "SPLIT"}
NoQuestion == [what |-> "NOTHING", says |-> {}]

\* evidence requests that can be made for one proposition
News == {E \in SUBSET Findable : Cardinality(E) <= MaxNews}

-----------------------------------------------------------------------------
\* world states: a belief is its revisions, each with the snapshot it was made for
Revisions == [at : 1..MaxSnapshots, on : (SUBSET Findable) \cup {NoEvidence}]
Snapshots == [Propositions -> Seq(Revisions)]

Status(b) ==
  LET last == b[Len(b)].on
  IN IF last = NoEvidence THEN "UNKNOWN"
     ELSE IF Verdict(last) = "SUPPORTED" THEN "ESTABLISHED"
     ELSE IF Verdict(last) = "INSUFFICIENT" THEN "UNKNOWN"
     ELSE Verdict(last)

\* a new assessment replaces the belief's history
RevisedAlone(b, n, e) ==
  IF e = NoEvidence /\ b # <<>> THEN b ELSE <<[at |-> n, on |-> e]>>

\* build_world_state, one proposition: a new assessment is one more revision
RevisedBelief(b, n, e) ==
  IF e = NoEvidence /\ b # <<>> THEN b ELSE Append(b, [at |-> n, on |-> e])

Held(w) == {p \in Propositions : w[p] # <<>>}

Latest == IF chain = <<>> THEN [p \in Propositions |-> <<>>] ELSE chain[Len(chain)]

\* a snapshot over at least the propositions of the one before
BuildWorld ==
  /\ Len(chain) < MaxSnapshots
  /\ \E S \in SUBSET Propositions : \E news \in [S -> News \cup {NoEvidence}] :
       /\ S # {} /\ Held(Latest) \subseteq S
       /\ chain' = Append(chain, [p \in Propositions |->
                     IF p \in S THEN RevisedBelief(Latest[p], Len(chain) + 1, news[p]) ELSE <<>>])
  /\ question' = NoQuestion

\* _validate_frame_lineage: nothing disappears and histories only grow
Lineage(frames) ==
  \A i \in 2..Len(frames) : \A p \in Held(frames[i - 1]) :
    LET before == frames[i - 1][p]
        now == frames[i][p]
    IN Len(before) <= Len(now) /\ SubSeq(now, 1, Len(before)) = before

\* the evidence for or against that a belief cites
CitedBy(b) == IF b[Len(b)].on = NoEvidence THEN {} ELSE {e \in b[Len(b)].on : e.side # "NEUTRAL"}

\* _change_kind
ChangeKind(before, now) ==
  IF before = <<>> THEN "ADDED"
  ELSE IF Status(before) # Status(now) THEN Status(now)
  ELSE IF CitedBy(now) \ CitedBy(before) # {} THEN "EVIDENCE_UPDATED"
  ELSE "STABLE"

\* build_temporal_causal_world_model over the last two snapshots or more
AskTemporal ==
  /\ Len(chain) >= 2
  /\ question' = [what |-> "TEMPORAL",
               says |-> IF Lineage(chain)
                        THEN {<<p, i, ChangeKind(chain[i - 1][p], chain[i][p])>> :
                              p \in Held(chain[1]), i \in 2..Len(chain)}
                        ELSE {"REFUSED"}]
  /\ UNCHANGED chain

\* _build_causal_link: only from a controlled experiment that names both ends
Causes(r, cause, effect, named) ==
  /\ {cause, effect} \subseteq Held(Latest) \cap named
  /\ r.causal /\ Lesson(r) = "CANDIDATE_LESSON"

AskLink ==
  /\ Len(chain) >= 2
  /\ \E r \in [causal : BOOLEAN, controlled : BOOLEAN, evidence : News],
        cause, effect \in Propositions, named \in SUBSET Propositions :
       /\ cause # effect
       /\ question' = [what |-> "LINK",
                    says |-> IF Causes(r, cause, effect, named) THEN {<<cause, effect>>}
                             ELSE {"REFUSED"}]
  /\ UNCHANGED chain

\* build_knowledge_graph: relations show the belief they name, the others are unmapped
AskGraph ==
  /\ chain # <<>>
  /\ \E named \in SUBSET Propositions :
       question' = [what |-> "GRAPH",
                 says |-> IF named \subseteq Held(Latest)
                          THEN {<<p, IF p \in named THEN Status(Latest[p]) ELSE "UNMAPPED">> :
                                p \in Held(Latest)}
                          ELSE {"REFUSED"}]
  /\ UNCHANGED chain

-----------------------------------------------------------------------------
\* hypotheses: the propositions taken as rivals

VerdictOf(p) ==
  LET last == Latest[p][Len(Latest[p])].on
  IN IF last = NoEvidence THEN "INSUFFICIENT" ELSE Verdict(last)

Rivals == {p \in Held(Latest) : VerdictOf(p) # "REFUTED"}

\* assess_hypothesis_portfolio: a leader needs every rival refuted
Leading == {p \in Rivals : VerdictOf(p) = "SUPPORTED" /\ Rivals = {p}}

\* prioritize_research_agenda: what a probe predicting f[p] under hypothesis p is worth
Value(f) ==
  LET told == DOMAIN f \cap Rivals
      differ == Cardinality({f[p] : p \in told}) >= 2
  IN IF Cardinality(Rivals) = 1 /\ told # {} THEN "LOW"
     ELSE IF differ /\ told = Rivals /\ Cardinality(told) >= 3 THEN "HIGH"
     ELSE IF differ THEN "MEDIUM"
     ELSE "NONE"

AskPortfolio ==
  /\ chain # <<>>
  /\ \E S \in SUBSET Held(Latest) : \E f \in [S -> 1..2] :
       question' = [what |-> "PROBE", says |-> Leading \cup {Value(f)}]
  /\ UNCHANGED chain

\* compare_counterfactuals and design_experiments: imagined worlds, each
\* changing beliefs of the latest one, are told apart by the outcomes that two
\* of them predict differently (f, g: 0 where a world predicts nothing)
Telling(f, g) == {o \in DOMAIN f : f[o] > 0 /\ g[o] > 0 /\ f[o] # g[o]}

AskExperiment ==
  /\ chain # <<>>
  /\ \E p \in Held(Latest), s \in {"ESTABLISHED", "CONTESTED", "REFUTED", "UNKNOWN"},
        f, g \in [{"reach"} -> 0..2] :
       question' = [what |-> "EXPERIMENT",
                 says |-> IF s = Status(Latest[p]) THEN {"REFUSED"} ELSE Telling(f, g)]
  /\ UNCHANGED chain

-----------------------------------------------------------------------------
Levels == {"LOW", "MEDIUM", "HIGH", "CRITICAL"}

\* select_reasoning_depth: FAST 1, BALANCED 2, DEEP 3, VERY_DEEP 4, MAXIMUM 5
Depth(complexity, doubt, stake, conflict, undo, causal, contradiction, floor) ==
  LET signals == <<complexity, doubt, stake, conflict>>
      grave == {i \in 1..4 : signals[i] \in {"HIGH", "CRITICAL"}}
      floors == {IF \A i \in 1..4 : signals[i] = "LOW" THEN 1 ELSE 2, floor}
                \cup (IF grave # {} \/ causal THEN {3} ELSE {})
                \cup (IF \/ \E i \in 1..4 : signals[i] = "CRITICAL"
                         \/ Cardinality(grave) >= 2 \/ conflict = "HIGH"
                         \/ undo = "COSTLY" \/ contradiction
                      THEN {4} ELSE {})
                \cup (IF "CRITICAL" \in {conflict, stake} \/ undo = "NEVER" THEN {5} ELSE {})
  IN CHOOSE d \in floors : \A e \in floors : e <= d

AskDepth ==
  /\ \E stake, conflict \in Levels, undo \in {"EASY", "COSTLY", "NEVER"} :
       question' = [what |-> "DEPTH",
                 says |-> {Depth("LOW", "LOW", stake, conflict, undo, FALSE, FALSE, 1)}]
  /\ UNCHANGED chain

\* build_goal_decomposition: every subgoal reaches the root, prerequisites form
\* no cycle, and the goals answering for the root's criterion lie below it
Acyclic(edges) ==
  \A T \in SUBSET Goals : T # {} => \E g \in T : \A h \in T : <<g, h>> \notin edges

Decomposable(parent, needs, owners) ==
  /\ DOMAIN parent # {}
  /\ Acyclic({<<g, parent[g]>> : g \in DOMAIN parent})
  /\ Acyclic(needs)
  /\ owners # {} /\ owners \subseteq DOMAIN parent

AskSplit ==
  /\ \E S \in {{}, Goals \ {RootGoal}} : \E parent \in [S -> S \cup {RootGoal}] :
       \E g, h \in S \cup {RootGoal} : \E owners \in {{}, S} :
         question' = [what |-> "SPLIT",
                   says |-> {Decomposable(parent, {<<g, h>>}, owners)}]
  /\ UNCHANGED chain

-----------------------------------------------------------------------------
WorldInit == chain = <<>> /\ question = NoQuestion

WorldNext ==
  \/ BuildWorld \/ AskTemporal \/ AskLink \/ AskGraph
  \/ AskPortfolio \/ AskExperiment \/ AskDepth \/ AskSplit

WorldSpec == WorldInit /\ [][WorldNext]_worldVars

-----------------------------------------------------------------------------
WorldTypeOK ==
  /\ chain \in Seq(Snapshots) /\ Len(chain) <= MaxSnapshots
  /\ question.what \in Topics

\* The latest snapshot alone tells what was held at every earlier one, by the last
\* revision made until then, and the temporal model takes every chain the world-state
\* builder made: what one module writes, the other accepts and reads back
\* (brain/world_state.py with temporal_world_model.py).
ReadsBack(b, n, status) ==
  \E m \in 1..Len(b) :
    /\ \A k \in 1..Len(b) : b[k].at <= n <=> k <= m
    /\ Status(SubSeq(b, 1, m)) = status

HistoryReadsBack ==
  /\ Lineage(chain)
  /\ \A i \in 1..Len(chain) : \A p \in Held(chain[i]) :
       ReadsBack(Latest[p], i, Status(chain[i][p]))
=============================================================================
