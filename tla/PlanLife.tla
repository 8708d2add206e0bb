------------------------------ MODULE PlanLife ------------------------------
(***************************************************************************)
(* The life of one goal's plan in the Brain (src/brain): plan snapshots    *)
(* with their step graph, revisions, the cognitive cycle that reads the    *)
(* plan, and the checkpoints a suspended agent resumes from.               *)
(*                                                                         *)
(* The Brain only validates and derives; whoever drives it builds the next *)
(* artefact and hands it back.  The driver is therefore free here: it may  *)
(* propose any plan, any state of a step, any revision, and the actions    *)
(* below take the proposal only when the constructors accept it.           *)
(***************************************************************************)
EXTENDS Naturals, FiniteSets

CONSTANTS Steps,           \* identities of plan steps
          Acting,          \* the steps that carry an action intent
          Drafts,          \* the sets of steps a first plan may have
          NoPlan, NoWorld, NoCheckpoint,
          MaxPlans,     \* bound: plans built and revisions made
          MaxWorlds,       \* bound: world-state snapshots
          MaxCheckpoints   \* bound: checkpoints taken

StepStates == {"PENDING", "BLOCKED", "COMPLETED"}
PlanStatuses == {"ACTIVE", "NEEDS_REVISION", "SATISFIED", "ABANDONED"}

Plans == [id : 1..MaxPlans, rev : 1..MaxPlans, parent : 0..MaxPlans,
          status : PlanStatuses, steps : SUBSET Steps,
          deps : [Steps -> SUBSET Steps], state : [Steps -> StepStates]]

Worlds == [id : 1..MaxWorlds, prev : 0..MaxWorlds]

\* CognitiveCheckpoint
Checkpoints == [seq : 1..MaxCheckpoints, plan : Plans \cup {NoPlan}, world : Worlds \cup {NoWorld}]

ASSUME PlanAssumption ==
  /\ Acting \subseteq Steps /\ Drafts \subseteq SUBSET Steps
  /\ {MaxPlans, MaxWorlds, MaxCheckpoints} \subseteq Nat \ {0}
  /\ NoPlan \notin Plans /\ NoWorld \notin Worlds /\ NoCheckpoint \notin Checkpoints

VARIABLES plan,       \* the current plan snapshot, or NoPlan
          made,       \* how many plans and revisions were made so far
          world,      \* the latest world-state snapshot, or NoWorld
          saved,      \* the latest checkpoint, or NoCheckpoint
          resumed,    \* what the last resume answered
          moved       \* TRUE once plan or world advanced past the checkpoint

planVars == <<plan, made, world, saved, resumed, moved>>

ResumeDecisions == {"NONE", "REFUSED", "TERMINAL", "REASSESS", "RESEARCH", "REPLAN", "RESUME"}

Completed(p) == {s \in p.steps : p.state[s] = "COMPLETED"}

-----------------------------------------------------------------------------
\* PlanSnapshot: what its constructor accepts

\* _validate_graph: every dependency is a step, and every set of steps has
\* one that depends on none of the set
Graphed(p) ==
  /\ p.steps # {}
  /\ \A s \in p.steps : p.deps[s] \subseteq p.steps
  /\ \A T \in SUBSET p.steps : T # {} => \E s \in T : p.deps[s] \cap T = {}

StatesAgreeAtEnd(p) == p.status = "SATISFIED" => Completed(p) = p.steps

\* _validate_state_consistency
StatesAgree(p) ==
  /\ \A s \in Completed(p) : p.deps[s] \subseteq Completed(p)
  /\ p.status = "SATISFIED" => Completed(p) = p.steps

WellFormed(p) ==
  /\ IF p.rev = 1 THEN p.parent = 0 ELSE p.parent = p.rev - 1
  /\ Graphed(p)
  /\ StatesAgree(p)

\* ready_step_ids
Ready(p) ==
  IF p.status # "ACTIVE" THEN {}
  ELSE {s \in p.steps : p.state[s] = "PENDING" /\ p.deps[s] \subseteq Completed(p)}

-----------------------------------------------------------------------------
\* the cognitive cycle

\* what the rest of a cycle's inputs ask for: RESEARCH for a blocking need or
\* unknown or a premise to look at again, DECISION for no decision, one to
\* revise or one that does not proceed
Asks == {"RESEARCH", "DECISION", "NOTHING"}

GoalStatuses == {"OPEN", "BLOCKED", "SATISFIED", "ABANDONED"}

\* derive_cognitive_cycle; a satisfied plan under an open goal is refused
Phase(goal, asks) ==
  IF goal = "BLOCKED" THEN "BLOCKED"
  ELSE IF goal \in {"SATISFIED", "ABANDONED"} THEN "COMPLETE"
  ELSE IF asks = "RESEARCH" THEN "RESEARCH"
  ELSE IF plan = NoPlan THEN "PLANNING"
  ELSE IF plan.status = "ABANDONED" THEN "PLANNING"
  ELSE IF plan.status = "NEEDS_REVISION" THEN "REPLANNING"
  ELSE IF plan.status = "SATISFIED" THEN "INVALID"
  ELSE IF asks = "DECISION" THEN "DECISION"
  ELSE IF Ready(plan) \cap Acting = {} THEN "REPLANNING"
  ELSE "ACTION_READY"

-----------------------------------------------------------------------------
\* what the driver does to the plan

PlanStays == resumed' = "NONE" /\ UNCHANGED <<made, world, saved>>

BuildPlan ==
  /\ Phase("OPEN", "NOTHING") = "PLANNING" /\ made < MaxPlans
  /\ \E S \in Drafts : \E d \in [S -> SUBSET S] :
       LET p == [id |-> made + 1, rev |-> 1, parent |-> 0, status |-> "ACTIVE", steps |-> S,
                 deps |-> [s \in Steps |-> IF s \in S THEN d[s] ELSE {}],
                 state |-> [s \in Steps |-> "PENDING"]]
       IN /\ WellFormed(p)
          /\ plan' = p
  /\ made' = made + 1 /\ moved' = TRUE
  /\ resumed' = "NONE"
  /\ UNCHANGED <<world, saved>>

\* a step reported done, blocked or waiting again: the next snapshot of the
\* same revision, if its constructor takes it
ReportStep ==
  /\ plan # NoPlan
  /\ \E s \in plan.steps : \E v \in StepStates :
       LET p == [plan EXCEPT !.state[s] = v]
       IN /\ plan.state[s] # "COMPLETED" /\ v # plan.state[s]
          /\ WellFormed(p)
          /\ plan' = p
          /\ moved' = (moved \/ v = "COMPLETED")
  /\ PlanStays

\* the driver declares the plan satisfied, abandoned or in need of revision
DeclarePlan ==
  /\ plan # NoPlan /\ plan.status = "ACTIVE"
  /\ \E v \in PlanStatuses \ {"ACTIVE"} :
       LET p == [plan EXCEPT !.status = v]
       IN WellFormed(p) /\ plan' = p
  /\ UNCHANGED moved
  /\ PlanStays

\* apply_plan_revision: the invalidated steps leave, the others are kept as
\* they are, the replacements bring new identities
Revised(p, gone, new, d, v) ==
  [p EXCEPT !.rev = p.rev + 1, !.parent = p.rev, !.status = "ACTIVE",
            !.steps = (p.steps \ gone) \cup new,
            !.deps = [s \in Steps |-> IF s \in new THEN d[s]
                                      ELSE IF s \in gone THEN {} ELSE p.deps[s]],
            !.state = [s \in Steps |-> IF s \in new THEN v[s]
                                       ELSE IF s \in gone THEN "PENDING" ELSE p.state[s]]]

\* apply_adaptive_replan: the signal's affected steps are invalidated
Replan ==
  /\ plan # NoPlan /\ plan.status \notin {"SATISFIED", "ABANDONED"}
  /\ made < MaxPlans
  /\ \E gone \in SUBSET plan.steps : \E new \in SUBSET (Steps \ plan.steps) :
       /\ gone \cup new # {}
       /\ \E d \in [new -> SUBSET ((plan.steps \ gone) \cup new)] : \E v \in [new -> StepStates] :
            /\ WellFormed(Revised(plan, gone, new, d, v))
            /\ plan' = Revised(plan, gone, new, d, v)
  /\ made' = made + 1 /\ moved' = TRUE /\ resumed' = "NONE"
  /\ UNCHANGED <<world, saved>>

\* build_world_state: a snapshot that names the one it follows
Observe ==
  LET n == IF world = NoWorld THEN 0 ELSE world.id
  IN /\ n < MaxWorlds
     /\ world' = [id |-> n + 1, prev |-> n]
     /\ moved' = TRUE
     /\ resumed' = "NONE"
     /\ UNCHANGED <<plan, made, saved>>

-----------------------------------------------------------------------------
\* checkpoints

\* CognitiveCheckpoint: the suspended goal with its plan and world
Checkpoint ==
  LET n == IF saved = NoCheckpoint THEN 0 ELSE saved.seq
  IN n < MaxCheckpoints /\ saved' = [seq |-> n + 1, plan |-> plan, world |-> world]
  /\ moved' = FALSE /\ resumed' = "NONE"
  /\ UNCHANGED <<plan, made, world>>

PlanContinuityByRevision(old, now) ==
  IF old = NoPlan /\ now = NoPlan THEN "SAME"
  ELSE IF old = NoPlan THEN "REASSESS"
  ELSE IF now = NoPlan THEN "REFUSED"
  ELSE IF now.id # old.id THEN "REPLAN"
  ELSE IF now.rev > old.rev THEN "REASSESS"
  ELSE IF now.status \in {"NEEDS_REVISION", "ABANDONED"} THEN "REPLAN"
  ELSE "SAME"

\* _plan_continuity
PlanContinuity(old, now) ==
  IF old = NoPlan /\ now = NoPlan THEN "SAME"
  ELSE IF old = NoPlan THEN "REASSESS"
  ELSE IF now = NoPlan THEN "REFUSED"
  ELSE IF now.id # old.id THEN "REPLAN"
  ELSE IF now.rev < old.rev THEN "REFUSED"
  ELSE IF now.rev > old.rev THEN
         IF now.rev = old.rev + 1 /\ now.parent = old.rev THEN "REASSESS" ELSE "REFUSED"
  ELSE IF now.status \in {"NEEDS_REVISION", "ABANDONED"} THEN "REPLAN"
  ELSE IF now # old THEN "REASSESS"
  ELSE "SAME"

\* _world_continuity
WorldContinuity(old, now) ==
  IF old = NoWorld /\ now = NoWorld THEN "SAME"
  ELSE IF old = NoWorld THEN "REASSESS"
  ELSE IF now = NoWorld THEN "REFUSED"
  ELSE IF now.id = old.id THEN (IF now = old THEN "SAME" ELSE "REFUSED")
  ELSE IF now.prev # old.id THEN "REFUSED"
  ELSE "REASSESS"

\* resume_cognition
Resumption(c, goal, asks) ==
  LET phase == Phase(goal, asks)
      p == PlanContinuity(c.plan, plan)
      w == WorldContinuity(c.world, world)
  IN IF phase = "INVALID" THEN "REFUSED"
     ELSE IF phase = "COMPLETE" THEN "TERMINAL"
     ELSE IF phase = "BLOCKED" THEN "REASSESS"
     ELSE IF "REFUSED" \in {p, w} THEN "REFUSED"
     ELSE IF phase = "RESEARCH" THEN "RESEARCH"
     ELSE IF p = "REPLAN" \/ phase = "REPLANNING" THEN "REPLAN"
     ELSE IF "REASSESS" \in {p, w} THEN "REASSESS"
     ELSE "RESUME"

\* _validate_fresh_checkpoint: only the latest checkpoint resumes
Resume ==
  /\ saved # NoCheckpoint
  /\ \E i \in 1..saved.seq : \E goal \in GoalStatuses : \E asks \in Asks :
       resumed' = IF i = saved.seq THEN Resumption(saved, goal, asks) ELSE "REFUSED"
  /\ UNCHANGED <<plan, made, world, saved, moved>>

-----------------------------------------------------------------------------
PlanInit ==
  /\ plan = NoPlan /\ made = 0 /\ world = NoWorld
  /\ saved = NoCheckpoint /\ resumed = "NONE" /\ moved = FALSE

PlanNext ==
  \/ BuildPlan \/ ReportStep \/ DeclarePlan \/ Replan
  \/ Observe \/ Checkpoint \/ Resume

PlanSpec == PlanInit /\ [][PlanNext]_planVars

-----------------------------------------------------------------------------
PlanTypeOK ==
  /\ plan \in Plans \cup {NoPlan} /\ made \in 0..MaxPlans
  /\ world \in Worlds \cup {NoWorld}
  /\ saved \in Checkpoints \cup {NoCheckpoint}
  /\ resumed \in ResumeDecisions
  /\ moved \in BOOLEAN

\* A step the cycle hands out for action rests on finished work all the way
\* down: its dependencies, theirs, and so on are completed, through every
\* report, revision and replacement (planning.py: ready_step_ids looks one
\* level down and leaves the rest to what each snapshot's constructor took).
ReadyRestsOnDone ==
  plan # NoPlan =>
    \A s \in Ready(plan) :
      \E U \in SUBSET Completed(plan) :
        /\ plan.deps[s] \subseteq U
        /\ \A u \in U : plan.deps[u] \subseteq U

\* An agent told to resume finds the plan and the world it was suspended
\* with: no step was finished, no revision or new plan was made and nothing
\* was observed since the checkpoint (checkpoint_resume.py).
ResumeFindsNothingMoved ==
  [][resumed' = "RESUME" /\ resumed # "RESUME" => ~moved]_planVars
=============================================================================
