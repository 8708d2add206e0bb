------------------------------ MODULE Lessons ------------------------------
(***************************************************************************)
(* What the Brain keeps of what it learned (src/brain): learning runs, the *)
(* consolidation of repeated runs into one memory decision, the trials of  *)
(* learning strategies and the change of strategy they may propose.        *)
(*                                                                         *)
(* As everywhere in the Brain nothing is stored here: the runs and trials  *)
(* are what the caller keeps and hands in, the decision is what it is told.*)
(***************************************************************************)
EXTENDS Evidence

CONSTANTS Strategies,  \* learning strategies other than NONE
          NoStrategy,
          MaxRuns,     \* bound: learning runs recorded
          MaxEvidence, \* bound: signals of one run
          MaxTrials    \* bound: trials of the strategies together

ASSUME LessonsAssumption ==
  NoStrategy \notin Strategies /\ {MaxRuns, MaxEvidence, MaxTrials} \subseteq Nat

VARIABLES lessonRuns, \* the learning runs recorded, by number
          trials,    \* per strategy, how its trials ended
          policy,    \* [strategy, rev]: the learning policy in force
          decided    \* what the last call answered

lessonVars == <<lessonRuns, trials, policy, decided>>

Effects == {"IMPROVED", "NEUTRAL", "REGRESSED"}

\* a recorded run: its number and its episode
Runs == [no : 1..MaxRuns, causal : BOOLEAN, controlled : BOOLEAN, evidence : SUBSET Findable]

Trials == [Effects -> 0..MaxTrials]
Policies == [strategy : Strategies \cup {NoStrategy}, rev : Nat]

Nothing == [to |-> "NOTHING", says |-> "NOTHING", from |-> {}]

-----------------------------------------------------------------------------
MemoryKinds == {"WORKING", "PREFERENCE", "EXPERIMENT", "FACT"}
Authorities == {"USER_CONFIRMED", "OBSERVED", "INFERRED"}

\* the evidence the runs cite: all that takes a side, and all that supports
Cited(S) == UNION {{<<r.no, e>> : e \in {f \in r.evidence : f.side # "NEUTRAL"}} : r \in S}

InFavour(S) == {c \in Cited(S) : c[2].side = "FOR"}

\* _promotion_has_authoritative_provenance: the raw runs behind the candidate
Provenance(S) == Cardinality(S) >= 3 /\ \A r \in S : Verdict(r.evidence) = "SUPPORTED"

\* evaluate_memory_candidate, for a scope that broadens or not; count is the
\* number of runs the candidate claims, S the raw runs it carries, cited the
\* evidence it cites: at promotion that must be what supports the claim
Memory(kind, authority, broadens, verdict, count, cited, S) ==
  IF broadens THEN "REJECTED"
  ELSE IF kind = "WORKING" THEN "EPHEMERAL"
  ELSE IF kind = "PREFERENCE" THEN
         IF authority = "USER_CONFIRMED" THEN "PROMOTED" ELSE "EPHEMERAL"
  ELSE IF verdict = "REFUTED" THEN "REJECTED"
  ELSE IF verdict \in {"CONTESTED", "INSUFFICIENT"} THEN "EPHEMERAL"
  ELSE IF authority # "OBSERVED" THEN "CANDIDATE"
  ELSE IF cited = {} THEN "EPHEMERAL"
  ELSE IF count = 1 THEN "CANDIDATE"
  ELSE IF count = 2 \/ kind = "FACT" THEN "VERIFIED"
  ELSE IF Cardinality(S) >= 3 /\ count # Cardinality(S) THEN "INVALID"
  ELSE IF ~Provenance(S) THEN "CANDIDATE"
  ELSE IF verdict # "SUPPORTED" \/ cited # InFavour(S) THEN "INVALID"
  ELSE "PROMOTED"

RunSources(r) == SourcesOf(Observed(r.evidence))

OneLesson(S) ==
  /\ \A r \in S : Lesson(r) = "CANDIDATE_LESSON"
  /\ \A q, r \in S : q.causal = r.causal /\ q.controlled = r.controlled

ConsolidableOnce(S) == S # {} /\ OneLesson(S) /\ \A r \in S : RunSources(r) # {}

\* consolidate_learning: what it refuses; a source observed in two runs makes
\* no second run
Consolidable(S) ==
  /\ S # {} /\ OneLesson(S)
  /\ \A r \in S : RunSources(r) # {}
  /\ \A q, r \in S : q # r => RunSources(q) \cap RunSources(r) = {}

-----------------------------------------------------------------------------
\* evaluate_meta_learning
Total(s) == trials[s]["IMPROVED"] + trials[s]["NEUTRAL"] + trials[s]["REGRESSED"]

Tried == {s \in Strategies : Total(s) >= 3}

\* at least two thirds of the trials improved and none regressed
Strong == {s \in Tried : trials[s]["REGRESSED"] = 0 /\ trials[s]["IMPROVED"] * 3 >= Total(s) * 2}

BetterRate(s, t) == trials[s]["IMPROVED"] * Total(t) > trials[t]["IMPROVED"] * Total(s)

Best == {s \in Strong : \A t \in Strong : ~BetterRate(t, s)}

MetaLearning ==
  IF Tried = {} THEN "INSUFFICIENT_EVIDENCE"
  ELSE IF Cardinality(Best) = 1 THEN "PREFER_STRATEGY"
  ELSE IF \A s \in Tried : trials[s]["REGRESSED"] > 0
                        /\ trials[s]["REGRESSED"] >= trials[s]["IMPROVED"] THEN "REVISE_POLICY"
  ELSE "RETAIN_POLICY"

\* propose_safe_self_improvement
Improvement ==
  IF MetaLearning = "REVISE_POLICY" THEN "HUMAN_REVIEW_REQUIRED"
  ELSE IF MetaLearning = "PREFER_STRATEGY" /\ Best # {policy.strategy} THEN "PROPOSE_STRATEGY_CHANGE"
  ELSE "NO_CHANGE"

-----------------------------------------------------------------------------
RecordRun ==
  /\ Cardinality(lessonRuns) < MaxRuns
  /\ \E causal, controlled \in BOOLEAN, E \in SUBSET Findable :
       /\ Cardinality(E) \in 1..MaxEvidence
       /\ controlled => causal
       /\ lessonRuns' = lessonRuns \cup {[no |-> Cardinality(lessonRuns) + 1,
                              causal |-> causal, controlled |-> controlled, evidence |-> E]}
  /\ decided' = Nothing
  /\ UNCHANGED <<trials, policy>>

Consolidate ==
  /\ \E S \in SUBSET lessonRuns, broadens \in BOOLEAN :
       decided' = [to |-> "CONSOLIDATE", from |-> S,
                   says |-> IF Consolidable(S)
                            THEN Memory("EXPERIMENT", "OBSERVED", broadens, "SUPPORTED",
                                        Cardinality(S), Cited(S), S)
                            ELSE "INVALID"]
  /\ UNCHANGED <<lessonRuns, trials, policy>>

\* a candidate handed to the memory policy directly, whatever it claims
Remember ==
  /\ \E kind \in MemoryKinds, authority \in Authorities, broadens \in BOOLEAN,
        v \in Verdicts, n \in 1..MaxRuns, cited \in {{}, InFavour(lessonRuns)} :
       decided' = [to |-> "REMEMBER", from |-> lessonRuns,
                   says |-> Memory(kind, authority, broadens, v, n, cited, lessonRuns)]
  /\ UNCHANGED <<lessonRuns, trials, policy>>

\* StrategyTrial: one strategy tried, and what it did to what is known
Trial ==
  /\ \E s \in Strategies, e \in Effects :
       /\ \A t \in Strategies : Total(t) < MaxTrials
       /\ trials' = [trials EXCEPT ![s][e] = @ + 1]
  /\ decided' = Nothing
  /\ UNCHANGED <<lessonRuns, policy>>

Improve ==
  /\ decided' = [to |-> "IMPROVE", says |-> Improvement, from |-> {}]
  /\ UNCHANGED <<lessonRuns, trials, policy>>

\* the reviewer outside the Brain takes the proposal
Adopt ==
  /\ decided.says = "PROPOSE_STRATEGY_CHANGE"
  /\ policy' = [strategy |-> CHOOSE s \in Best : TRUE, rev |-> policy.rev + 1]
  /\ decided' = Nothing
  /\ UNCHANGED <<lessonRuns, trials>>

LessonsInit ==
  /\ lessonRuns = {} /\ decided = Nothing
  /\ trials = [s \in Strategies |-> [e \in Effects |-> 0]]
  /\ policy = [strategy |-> NoStrategy, rev |-> 1]

LessonsNext == RecordRun \/ Consolidate \/ Remember \/ Trial \/ Improve \/ Adopt

LessonsSpec == LessonsInit /\ [][LessonsNext]_lessonVars

-----------------------------------------------------------------------------
LessonsTypeOK ==
  /\ lessonRuns \subseteq Runs
  /\ trials \in [Strategies -> Trials] /\ policy \in Policies
  /\ decided.to \in {"NOTHING", "CONSOLIDATE", "REMEMBER", "IMPROVE"}
  /\ decided.from \subseteq lessonRuns

\* A lesson consolidated into durable memory was learned three times, each
\* time supported by sources observed in none of the other runs: retelling
\* one observation three times does not make it institutional knowledge
\* (brain/learning_consolidation.py with memory_policy.py and evidence.py).
DurableIsRepeated ==
  decided.to = "CONSOLIDATE" /\ decided.says = "PROMOTED" =>
    \E X \in SUBSET Observed(UNION {r.evidence : r \in decided.from}) :
      /\ Cardinality(SourcesOf(X)) >= 3
      /\ \A x \in X : x.side = "FOR"

\* Three consolidable runs, each supported on sources of its own, become
\* durable: "repeated canonically supported raw runs justify scoped
\* institutional learning" (memory_policy.py), and two of them would do as
\* verified memory.
ThreeRunsAreKept ==
  decided.to = "CONSOLIDATE" /\ Consolidable(decided.from) /\ Cardinality(decided.from) >= 3 =>
    decided.says \in {"PROMOTED", "REJECTED"}
=============================================================================
