------------------------------ MODULE Evidence ------------------------------
(***************************************************************************)
(* How the Brain weighs evidence for one claim (src/brain/evidence.py),    *)
(* and what one episode of learning teaches (learning.py).  A signal is    *)
(* what one source says for or against the claim.                          *)
(***************************************************************************)
EXTENDS Naturals, FiniteSets

CONSTANTS Sources,   \* where evidence comes from
          Findable   \* the signals that can turn up

Verdicts == {"SUPPORTED", "REFUTED", "CONTESTED", "INSUFFICIENT"}

Signals == [source : Sources, side : {"FOR", "AGAINST", "NEUTRAL"},
            grade : {"WEAK", "MODERATE", "STRONG"}, observed : BOOLEAN]

ASSUME EvidenceAssumption == Findable \subseteq Signals

SourcesOf(E) == {e.source : e \in E}

Observed(E) == {e \in E : e.observed}

Side(E, s) == {e \in E : e.side = s}

\* _side_qualifies: one strong observed source, or two moderate ones; what a
\* source repeats counts once
Qualifies(E) ==
  \/ \E e \in Observed(E) : e.grade = "STRONG"
  \/ \E e, f \in Observed(E) :
       e.source # f.source /\ {e.grade, f.grade} = {"MODERATE"}

\* assess_claim_evidence
Verdict(E) ==
  LET for == Qualifies(Side(E, "FOR"))
      against == Qualifies(Side(E, "AGAINST"))
  IN IF for /\ against THEN "CONTESTED"
     ELSE IF for THEN "SUPPORTED"
     ELSE IF against THEN "REFUTED"
     ELSE "INSUFFICIENT"

\* analyze_learning_episode
Lesson(r) ==
  IF Verdict(r.evidence) = "CONTESTED" THEN "RESOLVE_CONTRADICTION"
  ELSE IF Verdict(r.evidence) = "INSUFFICIENT" THEN "GATHER_EVIDENCE"
  ELSE IF Verdict(r.evidence) = "REFUTED" THEN "REVISE_HYPOTHESIS"
  ELSE IF r.causal /\ ~r.controlled THEN "TEST_CAUSALLY"
  ELSE "CANDIDATE_LESSON"
=============================================================================
