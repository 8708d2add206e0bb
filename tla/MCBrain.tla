------------------------------ MODULE MCBrain ------------------------------
(***************************************************************************)
(* Small instances of the Brain's parts, checked side by side: a behaviour *)
(* picks one of them (focus) and the others stay where they began.  The    *)
(* Brain keeps no state of its own, so they meet only in their caller.     *)
(***************************************************************************)
EXTENDS PlanLife, Deliberation, Lessons, WorldModel

CONSTANTS x, y, z   \* sources

VARIABLE focus

Tells(s, d, g) == [source |-> s, side |-> d, grade |-> g, observed |-> TRUE]

\* Three sources can each settle a claim, and one of them can turn against it.
Turnable == {Tells(x, "FOR", "STRONG"), Tells(y, "FOR", "STRONG"),
             Tells(z, "FOR", "STRONG"), Tells(z, "AGAINST", "STRONG")}

\* One of them can also weakly doubt it, which leaves its verdict standing.
WeaklyDoubted == (Turnable \ {Tells(z, "AGAINST", "STRONG")}) \cup {Tells(z, "AGAINST", "WEAK")}

brainVars == <<planVars, deliberationVars, lessonVars, worldVars>>

BrainParts == {"plan", "deliberation", "lessons", "strategies", "world"}

BrainInit == PlanInit /\ DeliberationInit /\ LessonsInit /\ WorldInit

\* A question changes nothing but the answer, and every other step forgets
\* the answer, so a state with an answer needs no successors.
BrainNext ==
  /\ UNCHANGED focus
  /\ \/ /\ focus = "plan" /\ resumed = "NONE" /\ PlanNext
        /\ UNCHANGED <<deliberationVars, lessonVars, worldVars>>
     \/ /\ focus = "deliberation" /\ ruling = NoRuling /\ DeliberationNext
        /\ UNCHANGED <<planVars, lessonVars, worldVars>>
     \/ /\ focus = "lessons" /\ decided = Nothing /\ (RecordRun \/ Consolidate \/ Remember)
        /\ UNCHANGED <<planVars, deliberationVars, worldVars>>
     \/ /\ focus = "strategies" /\ (Trial \/ Improve \/ Adopt)
        /\ UNCHANGED <<planVars, deliberationVars, worldVars>>
     \/ /\ focus = "world" /\ question = NoQuestion /\ WorldNext
        /\ UNCHANGED <<planVars, deliberationVars, lessonVars>>

\* The Brain's parts alone.
BrainSpec == (focus \in BrainParts /\ BrainInit) /\ [][BrainNext]_<<brainVars, focus>>

\* Only the learning from runs.
RunsSpec == (focus = "lessons" /\ BrainInit) /\ [][BrainNext]_<<brainVars, focus>>
=============================================================================
