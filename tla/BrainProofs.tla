----------------------------- MODULE BrainProofs -----------------------------
(***************************************************************************)
(* TLAPS proofs about the Brain: plans and checkpoints (PlanLife), what an   *)
(* agent may do (Deliberation), what it keeps of its runs (Lessons) and what *)
(* it holds true (WorldModel), for any steps, agents, sources, signals,      *)
(* propositions and bounds.  The four share no state; each has an inductive  *)
(* invariant of its own.                                                     *)
(***************************************************************************)
EXTENDS PlanLife, Deliberation, Lessons, WorldModel, FiniteSetTheorems, SequenceTheorems, TLAPS

-----------------------------------------------------------------------------
(* Plans and checkpoints: what the constructors have accepted stays well     *)
(* formed, and the present is ahead of the saved checkpoint, strictly so     *)
(* once something has moved.                                                 *)
\* Plans are numbered as they are made, and a revision is counted too.
Numbered(p) == p # NoPlan => p.id <= made /\ p.rev <= made

\* Later in the life of the goal's plan; a finished step stays finished.
NotBefore(now, old) ==
  old # NoPlan =>
    /\ now # NoPlan
    /\ now.id >= old.id
    /\ now.id = old.id => now.rev >= old.rev
    /\ now.id = old.id /\ now.rev = old.rev =>
         \A s \in Steps : old.state[s] = "COMPLETED" => now.state[s] = "COMPLETED"

\* Strictly later.
After(now, old) ==
  \/ old = NoPlan /\ now # NoPlan
  \/ /\ old # NoPlan /\ now # NoPlan
     /\ \/ now.id > old.id
        \/ now.id = old.id /\ now.rev > old.rev
        \/ /\ now.id = old.id /\ now.rev = old.rev
           /\ \E s \in Steps : now.state[s] = "COMPLETED" /\ old.state[s] # "COMPLETED"

WorldNotBefore(now, old) == old # NoWorld => now # NoWorld /\ now.id >= old.id
WorldAfter(now, old) ==
  \/ old = NoWorld /\ now # NoWorld
  \/ old # NoWorld /\ now # NoWorld /\ now.id > old.id

SavedInv ==
  saved # NoCheckpoint =>
    /\ Numbered(saved.plan)
    /\ NotBefore(plan, saved.plan) /\ WorldNotBefore(world, saved.world)
    /\ moved => After(plan, saved.plan) \/ WorldAfter(world, saved.world)

PlanInv ==
  /\ PlanTypeOK /\ Numbered(plan)
  /\ plan # NoPlan => WellFormed(plan)
  /\ SavedInv

LEMMA BoundsAreNat == MaxPlans \in Nat /\ MaxWorlds \in Nat /\ MaxCheckpoints \in Nat
BY PlanAssumption

LEMMA PlanInitially == PlanInit => PlanInv
<1> SUFFICES ASSUME PlanInit PROVE PlanInv OBVIOUS
<1>1. plan = NoPlan /\ saved = NoCheckpoint BY DEF PlanInit
<1>2. 0 \in 0..MaxPlans BY BoundsAreNat
<1>3. PlanTypeOK BY <1>2, Zenon DEF PlanInit, PlanTypeOK, ResumeDecisions
<1> QED BY <1>1, <1>3 DEF PlanInv, Numbered, SavedInv

\* A new plan, or a new snapshot of the plan, takes the place of the old one.
LEMMA PlanMoves ==
  ASSUME PlanInv, NEW p \in Plans, NEW n \in 0..MaxPlans, plan' = p, made' = n, made <= n,
         UNCHANGED <<world, saved>>, resumed' = "NONE", moved' \in BOOLEAN,
         WellFormed(p), p.id <= n, p.rev <= n,
         saved # NoCheckpoint =>
           /\ NotBefore(p, saved.plan)
           /\ moved' => After(p, saved.plan) \/ (moved /\ WorldAfter(world, saved.world))
  PROVE  PlanInv'
<1>1. p # NoPlan BY PlanAssumption
<1>2. PlanTypeOK' BY DEF PlanInv, PlanTypeOK, ResumeDecisions
<1>3. Numbered(plan)' /\ WellFormed(plan)'
  BY DEF Numbered, WellFormed, Graphed, StatesAgree, Completed
<1>4. SavedInv'
  <2> SUFFICES ASSUME saved # NoCheckpoint PROVE SavedInv' BY DEF SavedInv
  <2>1. SavedInv BY DEF PlanInv
  <2>2. saved.plan # NoPlan => saved.plan \in Plans
    BY DEF PlanInv, PlanTypeOK, Checkpoints
  <2>3. Numbered(saved.plan)'
    BY <2>1, <2>2, BoundsAreNat DEF SavedInv, Numbered, PlanInv, PlanTypeOK, Plans
  <2>4. NotBefore(plan, saved.plan)' BY DEF NotBefore
  <2>5. WorldNotBefore(world, saved.world)' BY <2>1 DEF SavedInv, WorldNotBefore
  <2>6. moved' => (After(plan, saved.plan) \/ WorldAfter(world, saved.world))'
    BY DEF After, WorldAfter
  <2> QED BY <2>3, <2>4, <2>5, <2>6 DEF SavedInv
<1> QED BY <1>1, <1>2, <1>3, <1>4 DEF PlanInv

LEMMA BuildStep == PlanInv /\ BuildPlan => PlanInv'
<1> SUFFICES ASSUME PlanInv, BuildPlan PROVE PlanInv' OBVIOUS
<1>1. PICK S \in Drafts : \E d \in [S -> SUBSET S] :
        LET p == [id |-> made + 1, rev |-> 1, parent |-> 0, status |-> "ACTIVE", steps |-> S,
                  deps |-> [s \in Steps |-> IF s \in S THEN d[s] ELSE {}],
                  state |-> [s \in Steps |-> "PENDING"]]
        IN WellFormed(p) /\ plan' = p
  BY DEF BuildPlan
<1>2. PICK d \in [S -> SUBSET S] :
        LET p == [id |-> made + 1, rev |-> 1, parent |-> 0, status |-> "ACTIVE", steps |-> S,
                  deps |-> [s \in Steps |-> IF s \in S THEN d[s] ELSE {}],
                  state |-> [s \in Steps |-> "PENDING"]]
        IN WellFormed(p) /\ plan' = p
  BY <1>1
<1> DEFINE p == [id |-> made + 1, rev |-> 1, parent |-> 0, status |-> "ACTIVE", steps |-> S,
                 deps |-> [s \in Steps |-> IF s \in S THEN d[s] ELSE {}],
                 state |-> [s \in Steps |-> "PENDING"]]
<1>3. /\ made \in 0..MaxPlans /\ made < MaxPlans /\ made' = made + 1 /\ moved' = TRUE
      /\ resumed' = "NONE" /\ UNCHANGED <<world, saved>> /\ S \subseteq Steps
  BY PlanAssumption DEF BuildPlan, PlanInv, PlanTypeOK
<1>4. made + 1 \in 1..MaxPlans /\ 1 \in 1..MaxPlans /\ 0 \in 0..MaxPlans
  BY <1>3, BoundsAreNat
<1>5. p \in Plans
  <2>1. [s \in Steps |-> IF s \in S THEN d[s] ELSE {}] \in [Steps -> SUBSET Steps] BY <1>3
  <2> QED BY <1>3, <1>4, <2>1 DEF Plans, PlanStatuses, StepStates
<1>6. ASSUME saved # NoCheckpoint PROVE NotBefore(p, saved.plan) /\ After(p, saved.plan)
  <2>1. saved.plan # NoPlan => saved.plan \in Plans /\ saved.plan.id <= made
    BY <1>6 DEF PlanInv, PlanTypeOK, Checkpoints, SavedInv, Numbered
  <2>2. p # NoPlan /\ p.id = made + 1 BY <1>5, PlanAssumption
  <2>3. saved.plan # NoPlan => saved.plan.id \in 1..MaxPlans /\ saved.plan.id < p.id
    BY <1>3, <2>1, <2>2, BoundsAreNat DEF Plans
  <2> HIDE DEF p
  <2>4. saved.plan # NoPlan => p.id >= saved.plan.id /\ p.id # saved.plan.id /\ p.id > saved.plan.id
    BY <1>3, <2>2, <2>3
  <2> QED BY <2>2, <2>4 DEF NotBefore, After
<1>7. WellFormed(p) /\ plan' = p /\ p.id = made + 1 /\ p.rev = 1 BY <1>2
<1> HIDE DEF p
<1>8. p.id <= made + 1 /\ p.rev <= made + 1 /\ made <= made + 1 /\ made + 1 \in 0..MaxPlans
  BY <1>3, <1>4, <1>7
<1> QED BY <1>3, <1>5, <1>6, <1>7, <1>8, PlanMoves

LEMMA ReportStepKeeps == PlanInv /\ ReportStep => PlanInv'
<1> SUFFICES ASSUME PlanInv, ReportStep PROVE PlanInv' OBVIOUS
<1>1. PICK s \in plan.steps, v \in StepStates :
        /\ WellFormed([plan EXCEPT !.state[s] = v]) /\ plan.state[s] # "COMPLETED"
        /\ plan' = [plan EXCEPT !.state[s] = v] /\ moved' = (moved \/ v = "COMPLETED")
  BY DEF ReportStep
<1>2. /\ plan \in Plans /\ made \in 0..MaxPlans /\ plan.id <= made /\ plan.rev <= made
      /\ moved \in BOOLEAN /\ plan # NoPlan
      /\ resumed' = "NONE" /\ UNCHANGED <<made, world, saved>>
  BY DEF ReportStep, PlanStays, PlanInv, PlanTypeOK, Numbered
<1>3. PICK p : p = [plan EXCEPT !.state[s] = v] OBVIOUS
<1>4. /\ p.id = plan.id /\ p.rev = plan.rev /\ p.state = [plan.state EXCEPT ![s] = v]
      /\ plan.state \in [Steps -> StepStates] /\ s \in Steps
  BY <1>2, <1>3 DEF Plans
<1>5. p \in Plans BY <1>2, <1>3, <1>4 DEF Plans
<1>6. ASSUME saved # NoCheckpoint
      PROVE  /\ NotBefore(p, saved.plan)
             /\ moved' => After(p, saved.plan) \/ (moved /\ WorldAfter(world, saved.world))
  <2>0. SavedInv /\ p # NoPlan BY <1>5, PlanAssumption DEF PlanInv
  <2>1. \A t \in Steps : plan.state[t] = "COMPLETED" => p.state[t] = "COMPLETED"
    BY <1>1, <1>4
  <2>2. v = "COMPLETED" => p.state[s] = "COMPLETED" /\ plan.state[s] # "COMPLETED"
    BY <1>1, <1>4
  <2>3. NotBefore(p, saved.plan)
    BY <1>4, <1>6, <2>0, <2>1 DEF SavedInv, NotBefore
  <2>4. After(plan, saved.plan) => After(p, saved.plan)
    BY <1>4, <2>0, <2>1 DEF After
  <2>5. v = "COMPLETED" => After(p, saved.plan)
    <3> SUFFICES ASSUME v = "COMPLETED", saved.plan # NoPlan PROVE After(p, saved.plan)
      BY <2>0 DEF After
    <3>1. /\ plan.id >= saved.plan.id
          /\ plan.id = saved.plan.id => plan.rev >= saved.plan.rev
          /\ plan.id = saved.plan.id /\ plan.rev = saved.plan.rev =>
               saved.plan.state[s] # "COMPLETED"
      BY <1>4, <1>6, <2>0, <2>2 DEF SavedInv, NotBefore
    <3>2. saved.plan \in Plans BY <1>6 DEF PlanInv, PlanTypeOK, Checkpoints
    <3>3. /\ plan.id \in Nat /\ saved.plan.id \in Nat /\ plan.rev \in Nat /\ saved.plan.rev \in Nat
      BY <1>2, <3>2, BoundsAreNat DEF Plans
    <3> QED BY <1>4, <2>0, <2>2, <3>1, <3>3 DEF After
  <2> QED BY <1>1, <1>6, <2>0, <2>3, <2>4, <2>5 DEF SavedInv
<1>7. WellFormed(p) /\ plan' = p /\ moved' \in BOOLEAN BY <1>1, <1>2, <1>3
<1>8. p.id <= made /\ p.rev <= made /\ made <= made BY <1>2, <1>4
<1> QED BY <1>2, <1>5, <1>6, <1>7, <1>8, PlanMoves

LEMMA DeclareStep == PlanInv /\ DeclarePlan => PlanInv'
<1> SUFFICES ASSUME PlanInv, DeclarePlan PROVE PlanInv' OBVIOUS
<1>1. PICK v \in PlanStatuses : WellFormed([plan EXCEPT !.status = v])
                                /\ plan' = [plan EXCEPT !.status = v]
  BY DEF DeclarePlan
<1>2. /\ plan \in Plans /\ made \in 0..MaxPlans /\ plan.id <= made /\ plan.rev <= made
      /\ moved \in BOOLEAN /\ plan # NoPlan
      /\ resumed' = "NONE" /\ UNCHANGED <<made, world, saved, moved>>
  BY DEF DeclarePlan, PlanStays, PlanInv, PlanTypeOK, Numbered
<1>3. PICK p : p = [plan EXCEPT !.status = v] OBVIOUS
<1>4. p \in Plans /\ p.id = plan.id /\ p.rev = plan.rev /\ p.state = plan.state
  BY <1>2, <1>3 DEF Plans
<1>5. ASSUME saved # NoCheckpoint
      PROVE  /\ NotBefore(p, saved.plan)
             /\ moved' => After(p, saved.plan) \/ (moved /\ WorldAfter(world, saved.world))
  <2>1. SavedInv /\ p # NoPlan BY <1>4, PlanAssumption DEF PlanInv
  <2> QED BY <1>2, <1>4, <1>5, <2>1 DEF SavedInv, NotBefore, After
<1>6. WellFormed(p) /\ plan' = p BY <1>1, <1>3
<1>7. p.id <= made /\ p.rev <= made /\ made <= made BY <1>2, <1>4
<1> QED BY <1>2, <1>4, <1>5, <1>6, <1>7, PlanMoves

LEMMA ReplanStep == PlanInv /\ Replan => PlanInv'
<1> SUFFICES ASSUME PlanInv, Replan PROVE PlanInv' OBVIOUS
<1>1. PICK gone \in SUBSET plan.steps, new \in SUBSET (Steps \ plan.steps) :
        \E d \in [new -> SUBSET ((plan.steps \ gone) \union new)] : \E v \in [new -> StepStates] :
          /\ WellFormed(Revised(plan, gone, new, d, v))
          /\ plan' = Revised(plan, gone, new, d, v)
  BY DEF Replan
<1>2. PICK d \in [new -> SUBSET ((plan.steps \ gone) \union new)], v \in [new -> StepStates] :
        /\ WellFormed(Revised(plan, gone, new, d, v))
        /\ plan' = Revised(plan, gone, new, d, v)
  BY <1>1
<1>3. /\ plan \in Plans /\ made \in 0..MaxPlans /\ made < MaxPlans /\ plan.id <= made
      /\ plan.rev <= made /\ plan # NoPlan /\ moved' = TRUE
      /\ resumed' = "NONE" /\ made' = made + 1 /\ UNCHANGED <<world, saved>>
  BY DEF Replan, PlanInv, PlanTypeOK, Numbered
<1>4. PICK p : p = Revised(plan, gone, new, d, v) OBVIOUS
<1> DEFINE deps == [s \in Steps |-> IF s \in new THEN d[s] ELSE IF s \in gone THEN {} ELSE plan.deps[s]]
           state == [s \in Steps |-> IF s \in new THEN v[s]
                                     ELSE IF s \in gone THEN "PENDING" ELSE plan.state[s]]
<1>5. /\ plan.id \in 1..MaxPlans /\ plan.rev \in 1..MaxPlans /\ plan.steps \subseteq Steps
      /\ plan.deps \in [Steps -> SUBSET Steps] /\ plan.state \in [Steps -> StepStates]
      /\ plan.rev + 1 \in 1..MaxPlans /\ plan.rev \in 0..MaxPlans
      /\ plan.id <= made + 1 /\ plan.rev + 1 <= made + 1 /\ made <= made + 1
      /\ made + 1 \in 0..MaxPlans /\ plan.rev \in Nat /\ plan.id \in Nat
  BY <1>3, BoundsAreNat DEF Plans
<1>6. deps \in [Steps -> SUBSET Steps]
  <2> SUFFICES ASSUME NEW s \in Steps PROVE deps[s] \subseteq Steps OBVIOUS
  <2>1. CASE s \in new BY <1>5, <2>1
  <2>2. CASE s \notin new BY <1>5, <2>2
  <2> QED BY <2>1, <2>2
<1>7. state \in [Steps -> StepStates] BY <1>5 DEF StepStates
<1>8. p = [plan EXCEPT !.rev = plan.rev + 1, !.parent = plan.rev, !.status = "ACTIVE",
                       !.steps = (plan.steps \ gone) \union new, !.deps = deps, !.state = state]
  BY <1>4 DEF Revised
<1> HIDE DEF deps, state
<1>9. p = [id |-> plan.id, rev |-> plan.rev + 1, parent |-> plan.rev, status |-> "ACTIVE",
           steps |-> (plan.steps \ gone) \union new, deps |-> deps, state |-> state]
  BY <1>3, <1>8 DEF Plans
<1>10. p \in Plans /\ p.id = plan.id /\ p.rev = plan.rev + 1
  BY <1>5, <1>6, <1>7, <1>9 DEF Plans, PlanStatuses
<1>11. ASSUME saved # NoCheckpoint PROVE NotBefore(p, saved.plan) /\ After(p, saved.plan)
  <2>1. SavedInv /\ p # NoPlan BY <1>10, PlanAssumption DEF PlanInv
  <2>2. saved.plan # NoPlan =>
          /\ saved.plan.id \in Nat /\ saved.plan.rev \in Nat /\ plan.id >= saved.plan.id
          /\ plan.id = saved.plan.id => plan.rev >= saved.plan.rev
    BY <1>11, <2>1, BoundsAreNat DEF SavedInv, NotBefore, PlanInv, PlanTypeOK, Checkpoints, Plans
  <2>3. saved.plan # NoPlan =>
          /\ p.id >= saved.plan.id
          /\ p.id = saved.plan.id => p.rev > saved.plan.rev /\ p.rev >= saved.plan.rev
          /\ p.id = saved.plan.id => p.rev # saved.plan.rev
          /\ p.id > saved.plan.id \/ p.id = saved.plan.id
    BY <1>5, <1>10, <2>2
  <2> QED BY <2>1, <2>3 DEF NotBefore, After
<1>12. WellFormed(p) /\ plan' = p BY <1>2, <1>4
<1> QED BY <1>3, <1>5, <1>10, <1>11, <1>12, PlanMoves

\* The plan stays what it is.
LEMMA PlanKept ==
  ASSUME PlanInv, UNCHANGED <<plan, made>>, PlanTypeOK', SavedInv'
  PROVE  PlanInv'
BY DEF PlanInv, Numbered, WellFormed, Graphed, StatesAgree, Completed

LEMMA ObserveStep == PlanInv /\ Observe => PlanInv'
<1> SUFFICES ASSUME PlanInv, Observe PROVE PlanInv' OBVIOUS
<1> DEFINE n == IF world = NoWorld THEN 0 ELSE world.id
<1>1. /\ n < MaxWorlds /\ world' = [id |-> n + 1, prev |-> n] /\ moved' = TRUE
      /\ resumed' = "NONE" /\ UNCHANGED <<plan, made, saved>>
  BY DEF Observe
<1>2. world # NoWorld => world.id \in 1..MaxWorlds
  BY DEF PlanInv, PlanTypeOK, Worlds
<1>3. n \in 0..MaxWorlds /\ n + 1 \in 1..MaxWorlds BY <1>1, <1>2, BoundsAreNat
<1>4. world' \in Worlds /\ world' # NoWorld /\ world'.id = n + 1
  BY <1>1, <1>3, PlanAssumption DEF Worlds
<1>5. PlanTypeOK' BY <1>1, <1>4 DEF PlanInv, PlanTypeOK, ResumeDecisions
<1>6. SavedInv'
  <2> SUFFICES ASSUME saved # NoCheckpoint PROVE SavedInv' BY <1>1 DEF SavedInv
  <2>1. SavedInv BY DEF PlanInv
  <2>2. saved.world # NoWorld =>
          saved.world.id \in Nat /\ world # NoWorld /\ world.id >= saved.world.id
    BY <2>1, BoundsAreNat DEF SavedInv, WorldNotBefore, PlanInv, PlanTypeOK, Checkpoints, Worlds
  <2>3. saved.world # NoWorld => n + 1 > saved.world.id /\ n + 1 >= saved.world.id
    BY <1>2, <2>2, BoundsAreNat
  <2>4. WorldNotBefore(world', saved.world) /\ WorldAfter(world', saved.world)
    BY <1>4, <2>3 DEF WorldNotBefore, WorldAfter
  <2> QED BY <1>1, <2>1, <2>4 DEF SavedInv, Numbered, NotBefore, WorldNotBefore, WorldAfter
<1> QED BY <1>1, <1>5, <1>6, PlanKept

LEMMA CheckpointStep == PlanInv /\ Checkpoint => PlanInv'
<1> SUFFICES ASSUME PlanInv, Checkpoint PROVE PlanInv' OBVIOUS
<1> DEFINE n == IF saved = NoCheckpoint THEN 0 ELSE saved.seq
<1>1. /\ n < MaxCheckpoints /\ saved' = [seq |-> n + 1, plan |-> plan, world |-> world]
      /\ moved' = FALSE /\ resumed' = "NONE" /\ UNCHANGED <<plan, made, world>>
  BY DEF Checkpoint
<1>2. n + 1 \in 1..MaxCheckpoints
  BY <1>1, BoundsAreNat DEF PlanInv, PlanTypeOK, Checkpoints
<1> HIDE DEF n
<1>3. PlanTypeOK' BY <1>1, <1>2 DEF PlanInv, PlanTypeOK, Checkpoints, ResumeDecisions
<1>4. /\ plan # NoPlan => plan.id \in Nat /\ plan.rev \in Nat
      /\ world # NoWorld => world.id \in Nat
  BY BoundsAreNat DEF PlanInv, PlanTypeOK, Plans, Worlds
<1>5. NotBefore(plan, plan) /\ WorldNotBefore(world, world)
  BY <1>4 DEF NotBefore, WorldNotBefore
<1>6. Numbered(plan) BY DEF PlanInv
<1>7. SavedInv'
  BY <1>1, <1>5, <1>6 DEF SavedInv, Numbered, NotBefore, WorldNotBefore
<1> QED BY <1>1, <1>3, <1>7, PlanKept

LEMMA PlanStep == PlanInv /\ [PlanNext]_planVars => PlanInv'
<1> SUFFICES ASSUME PlanInv, [PlanNext]_planVars PROVE PlanInv' OBVIOUS
<1>1. CASE BuildPlan BY <1>1, BuildStep
<1>2. CASE ReportStep BY <1>2, ReportStepKeeps
<1>3. CASE DeclarePlan BY <1>3, DeclareStep
<1>4. CASE Replan BY <1>4, ReplanStep
<1>5. CASE Observe BY <1>5, ObserveStep
<1>6. CASE Checkpoint BY <1>6, CheckpointStep
<1>7. CASE Resume
  <2>1. UNCHANGED <<plan, made, world, saved, moved>> BY <1>7 DEF Resume
  <2>2. resumed' \in ResumeDecisions
    BY <1>7 DEF Resume, Resumption, ResumeDecisions
  <2>3. PlanTypeOK' BY <2>1, <2>2 DEF PlanInv, PlanTypeOK
  <2>4. SavedInv'
    BY <2>1 DEF PlanInv, SavedInv, Numbered, NotBefore, After, WorldNotBefore, WorldAfter
  <2> QED BY <2>1, <2>3, <2>4, PlanKept
<1>8. CASE UNCHANGED planVars
  <2>1. PlanTypeOK' BY <1>8 DEF planVars, PlanInv, PlanTypeOK
  <2>2. SavedInv'
    BY <1>8 DEF planVars, PlanInv, SavedInv, Numbered, NotBefore, After, WorldNotBefore, WorldAfter
  <2> QED BY <1>8, <2>1, <2>2, PlanKept DEF planVars
<1> QED BY <1>1, <1>2, <1>3, <1>4, <1>5, <1>6, <1>7, <1>8 DEF PlanNext

----------------------------------------------------------------------------
(* The theorems *)

\* The invariant holds of every reachable state.
THEOREM PlanInvariance == PlanSpec => []PlanInv
<1> QED BY PlanInitially, PlanStep, PTL DEF PlanSpec

\* Plans, worlds and checkpoints keep their types.
THEOREM PlanTypeCorrect == PlanSpec => []PlanTypeOK
<1>1. PlanInv => PlanTypeOK BY DEF PlanInv
<1> QED BY <1>1, PlanInvariance, PTL

\* What is handed out for action rests on finished work all the way down: the finished
\* steps themselves are the set that is asked for, closed under dependencies because every
\* snapshot's constructor looks at them.
THEOREM ReadyTheorem == PlanSpec => []ReadyRestsOnDone
<1>1. ASSUME PlanInv PROVE ReadyRestsOnDone
  <2> SUFFICES ASSUME plan # NoPlan, NEW s \in Ready(plan)
               PROVE  \E U \in SUBSET Completed(plan) :
                        plan.deps[s] \subseteq U /\ \A u \in U : plan.deps[u] \subseteq U
    BY DEF ReadyRestsOnDone
  <2>1. plan.deps[s] \subseteq Completed(plan) BY DEF Ready
  <2>2. \A u \in Completed(plan) : plan.deps[u] \subseteq Completed(plan)
    BY <1>1 DEF PlanInv, WellFormed, StatesAgree
  <2> QED BY <2>1, <2>2
<1> QED BY <1>1, PlanInvariance, PTL

\* An agent told to resume finds nothing moved: RESUME is answered only when plan and world
\* are the saved ones, and what has moved is strictly ahead of them.
THEOREM ResumeTheorem == PlanSpec => ResumeFindsNothingMoved
<1>1. ASSUME PlanInv, [PlanNext]_planVars, resumed' = "RESUME", resumed # "RESUME" PROVE ~moved
  <2>1. Resume
    BY <1>1 DEF PlanNext, planVars, BuildPlan, ReportStep, DeclarePlan, PlanStays, Replan, Observe,
                Checkpoint
  <2>2. /\ saved # NoCheckpoint
        /\ \E goal \in GoalStatuses, asks \in Asks : Resumption(saved, goal, asks) = "RESUME"
    BY <1>1, <2>1 DEF Resume
  <2>3. PlanContinuity(saved.plan, plan) \notin {"REFUSED", "REPLAN", "REASSESS"}
        /\ WorldContinuity(saved.world, world) \notin {"REFUSED", "REASSESS"}
    BY <2>2 DEF Resumption
  <2>4. plan = saved.plan BY <2>3 DEF PlanContinuity
  <2>5. world = saved.world BY <2>3 DEF WorldContinuity
  <2>6. /\ plan # NoPlan => plan.id \in Nat /\ plan.rev \in Nat
        /\ world # NoWorld => world.id \in Nat
    BY <1>1, BoundsAreNat DEF PlanInv, PlanTypeOK, Plans, Worlds
  <2>7. ~After(plan, saved.plan) /\ ~WorldAfter(world, saved.world)
    BY <2>4, <2>5, <2>6 DEF After, WorldAfter
  <2> QED BY <1>1, <2>2, <2>7 DEF PlanInv, SavedInv
<1> QED BY <1>1, PlanInvariance, PTL DEF PlanSpec, ResumeFindsNothingMoved

-----------------------------------------------------------------------------
(* Deliberation *)

DeliberationInv ==
  /\ DeliberationTypeOK /\ IsFiniteSet(reviews)
  /\ ActionsAreCorroborated

\* Without duplicates every peer's review is eligible, and a peer speaks once.
LEMMA EachPeerOnce ==
  ASSUME NEW R, Duplicated(R) = {}
  PROVE  /\ Eligible(R) = Peers(R)
         /\ \A q, r \in Eligible(R) : q # r => q.by # r.by
BY DEF Eligible, Duplicated, Peers

\* What supports a proposal comes from different peers and from different sources, none of
\* them the proposal's own.
LEMMA SupportIsIndependent ==
  ASSUME NEW E, NEW R, Duplicated(R) = {}
  PROVE  /\ \A r \in Supporting(E, R) :
              /\ r \in R /\ r.by # Author /\ r.says = "SUPPORTED" /\ r.backing # Unbacked
              /\ SourcesOf(r.backing) \intersect SourcesOf(E) = {}
         /\ \A q, r \in Supporting(E, R) :
              q # r => q.by # r.by /\ SourcesOf(q.backing) \intersect SourcesOf(r.backing) = {}
<1>1. ASSUME NEW r \in Supporting(E, R)
      PROVE  /\ r \in Eligible(R) /\ r \in R /\ r.by # Author /\ r.says = "SUPPORTED"
             /\ r.backing # Unbacked /\ ~CommonMode(r, E, R)
             /\ ReviewSources(r) = SourcesOf(r.backing)
  BY <1>1 DEF Supporting, Eligible, Peers, Backed, ReviewSources
<1>2. ASSUME NEW r \in Supporting(E, R) PROVE SourcesOf(r.backing) \intersect SourcesOf(E) = {}
  BY <1>1, <1>2 DEF CommonMode
<1>3. ASSUME NEW q \in Supporting(E, R), NEW r \in Supporting(E, R), q # r
      PROVE  q.by # r.by /\ SourcesOf(q.backing) \intersect SourcesOf(r.backing) = {}
  BY <1>1, <1>3, EachPeerOnce DEF CommonMode
<1> QED BY <1>1, <1>2, <1>3

\* As many agents as reviews, when no two reviews are by one agent.
LEMMA ReviewersCounted ==
  ASSUME NEW Q, IsFiniteSet(Q), \A q, r \in Q : q # r => q.by # r.by
  PROVE  Cardinality({r.by : r \in Q}) = Cardinality(Q)
<1> DEFINE f == [r \in Q |-> r.by]
           T == {r.by : r \in Q}
<1>1. f \in [Q -> T] OBVIOUS
<1>2. \A q, r \in Q : f[q] = f[r] => q = r OBVIOUS
<1>3. \A t \in T : \E r \in Q : f[r] = t OBVIOUS
<1> HIDE DEF f, T
<1>4. f \in Bijection(Q, T)
  BY <1>1, <1>2, <1>3 DEF Bijection, Injection, Surjection, IsInjective
<1>5. Cardinality(T) = Cardinality(Q) BY <1>4, FS_Bijection DEF ExistsBijection
<1> QED BY <1>5 DEF T

\* Only a decision to proceed is allowed to act, and that needs acceptance by the peers.
LEMMA AllowedIsAccepted ==
  ASSUME NEW E, NEW R, NEW asked \in {"PROCEED", "REVISE", "STOP"}, NEW cites \in BOOLEAN,
         NEW reviewed \in BOOLEAN, NEW bound \in BOOLEAN,
         Permission(Decision(E, R, asked, cites, reviewed), bound) = "ALLOW"
  PROVE  Collaboration(E, R) = "ACCEPT"
BY DEF Permission, Decision

LEMMA AcceptedIsSound ==
  ASSUME NEW E, NEW R, Collaboration(E, R) = "ACCEPT"
  PROVE  /\ Duplicated(R) = {} /\ Cardinality(Supporting(E, R)) >= Quorum
         /\ \A r \in R : r.by # Author => r.says \notin {"REFUTED", "CONTESTED"}
<1>1. /\ Duplicated(R) = {} /\ Cardinality(Supporting(E, R)) >= Quorum
      /\ Says(R, "CONTESTED") \union Says(R, "REFUTED") = {}
  <2>1. Verdict(E) \notin {"REFUTED", "CONTESTED", "INSUFFICIENT"} /\ Duplicated(R) = {}
    BY DEF Collaboration
  <2>2. ~\E r \in Says(R, "REFUTED") : Backed(r, E, R) BY <2>1 DEF Collaboration
  <2>3. Says(R, "CONTESTED") \union Says(R, "REFUTED") = {} BY <2>1, <2>2 DEF Collaboration
  <2>4. Cardinality(Supporting(E, R)) >= Quorum BY <2>1, <2>2, <2>3 DEF Collaboration
  <2> QED BY <2>1, <2>3, <2>4
<1>2. ASSUME NEW r \in R, r.by # Author PROVE r.says \notin {"REFUTED", "CONTESTED"}
  <2>1. r \in Eligible(R) BY <1>1, <1>2, EachPeerOnce DEF Peers
  <2> QED BY <1>1, <2>1 DEF Says
<1> QED BY <1>1, <1>2

LEMMA DeliberationInitially == DeliberationInit => DeliberationInv
BY FS_EmptySet
DEF DeliberationInit, DeliberationInv, DeliberationTypeOK, NoRuling, ActionsAreCorroborated

LEMMA AuthorizeStep == DeliberationInv /\ Authorize => DeliberationInv'
<1> SUFFICES ASSUME DeliberationInv, Authorize PROVE DeliberationInv' OBVIOUS
<1>1. PICK asked \in {"PROCEED", "REVISE", "STOP"}, cites \in BOOLEAN, reviewed \in BOOLEAN,
           bound \in BOOLEAN :
        ruling' = [to |-> "ACT", asks |-> {},
                   says |-> Permission(Decision(shown, reviews, asked, cites, reviewed), bound)]
  BY DEF Authorize
<1>2. UNCHANGED <<shown, reviews>> /\ IsFiniteSet(reviews)
  BY DEF Authorize, DeliberationInv
<1>3. DeliberationTypeOK'
  BY <1>1, <1>2 DEF DeliberationInv, DeliberationTypeOK
<1>4. ActionsAreCorroborated'
  <2> SUFFICES ASSUME ruling'.says = "ALLOW" PROVE ActionsAreCorroborated'
    BY DEF ActionsAreCorroborated
  <2> DEFINE Q == Supporting(shown, reviews)
  <2>1. Collaboration(shown, reviews) = "ACCEPT" BY <1>1, AllowedIsAccepted
  <2>2. /\ Duplicated(reviews) = {} /\ Cardinality(Q) >= Quorum
        /\ \A r \in reviews : r.by # Author => r.says \notin {"REFUTED", "CONTESTED"}
    BY <2>1, AcceptedIsSound
  <2>3. /\ \A r \in Q : r \in reviews /\ Corroborates(r)
        /\ \A q, r \in Q :
             q # r => q.by # r.by /\ SourcesOf(q.backing) \intersect SourcesOf(r.backing) = {}
    BY <2>2, SupportIsIndependent DEF Corroborates
  <2>4. IsFiniteSet(Q)
    BY <1>2, <2>3, FS_Subset
  <2>5. Cardinality({r.by : r \in Q}) >= Quorum BY <2>2, <2>3, <2>4, ReviewersCounted
  <2> HIDE DEF Q
  <2>6. Q \in SUBSET {r \in reviews : Corroborates(r)} BY <2>3
  <2>7. \A r \in reviews : Corroborates(r)' <=> Corroborates(r) BY <1>2 DEF Corroborates
  <2> QED BY <1>2, <2>2, <2>3, <2>5, <2>6, <2>7 DEF ActionsAreCorroborated
<1> QED BY <1>2, <1>3, <1>4 DEF DeliberationInv

\* Every other turn forgets the answer or answers something else.
LEMMA DeliberationStep == DeliberationInv /\ [DeliberationNext]_deliberationVars => DeliberationInv'
<1> SUFFICES ASSUME DeliberationInv, [DeliberationNext]_deliberationVars PROVE DeliberationInv'
  OBVIOUS
<1>1. CASE Gather
  BY <1>1 DEF DeliberationInv, DeliberationTypeOK, Gather, NoRuling, ActionsAreCorroborated
<1>2. CASE Review
  <2>1. PICK a \in Brains, v \in Verdicts, b \in SUBSET Findable \union {Unbacked} :
          reviews' = reviews \union {[by |-> a, says |-> v, backing |-> b]}
    BY <1>2 DEF Review
  <2>2. IsFiniteSet(reviews') BY <2>1, FS_AddElement DEF DeliberationInv
  <2>3. reviews' \subseteq [by : Brains, says : Verdicts, backing : SUBSET Findable \union {Unbacked}]
    BY <2>1 DEF DeliberationInv, DeliberationTypeOK
  <2> QED
    BY <1>2, <2>2, <2>3
    DEF DeliberationInv, DeliberationTypeOK, Review, NoRuling, ActionsAreCorroborated
<1>3. CASE Authorize BY <1>3, AuthorizeStep
<1>4. CASE AskStop \/ Reflect \/ LoopTurn
  <2>1. /\ UNCHANGED <<shown, reviews>> /\ ruling'.to # "ACT"
        /\ DOMAIN ruling' = {"to", "says", "asks"}
    BY <1>4 DEF AskStop, Reflect, LoopTurn
  <2> QED BY <2>1 DEF DeliberationInv, DeliberationTypeOK, ActionsAreCorroborated
<1>5. CASE UNCHANGED deliberationVars
  <2>1. UNCHANGED <<shown, reviews, ruling>> BY <1>5 DEF deliberationVars
  <2>2. \A r \in reviews : Corroborates(r)' <=> Corroborates(r) BY <2>1 DEF Corroborates
  <2>3. {r \in reviews : Corroborates(r)}' = {r \in reviews : Corroborates(r)} BY <2>1, <2>2
  <2>4. ActionsAreCorroborated'
    BY <2>1, <2>3 DEF DeliberationInv, ActionsAreCorroborated
  <2> QED BY <2>1, <2>4 DEF DeliberationInv, DeliberationTypeOK
<1> QED BY <1>1, <1>2, <1>3, <1>4, <1>5 DEF DeliberationNext

\* The invariant holds of every reachable state.
THEOREM DeliberationInvariance == DeliberationSpec => []DeliberationInv
<1> QED BY DeliberationInitially, DeliberationStep, PTL DEF DeliberationSpec

\* An action is allowed only on a claim that enough agents other than its author support,
\* each on sources of its own, and that no other agent refutes or contests.
THEOREM CorroborationTheorem == DeliberationSpec => []ActionsAreCorroborated
<1>1. DeliberationInv => ActionsAreCorroborated BY DEF DeliberationInv
<1> QED BY <1>1, DeliberationInvariance, PTL

-----------------------------------------------------------------------------
(* Lessons *)

\* A proposal names the best strategy of the trials it was made on.
LessonsInv ==
  /\ LessonsTypeOK /\ IsFiniteSet(lessonRuns)
  /\ decided.says = "PROPOSE_STRATEGY_CHANGE" => Best # {}
  /\ DurableIsRepeated

\* Support is observed: a supported verdict has a signal in favour that its source made.
LEMMA SupportIsObserved ==
  ASSUME NEW E, Verdict(E) = "SUPPORTED"
  PROVE  \E e \in Observed(E) : e.side = "FOR"
BY DEF Verdict, Qualifies, Observed, Side

\* As many sources as runs, when no two runs share one.
LEMMA SourcesCounted ==
  ASSUME NEW S, IsFiniteSet(S), NEW f \in [S -> Findable],
         \A r \in S : f[r] \in Observed(r.evidence),
         \A q, r \in S : q # r => RunSources(q) \cap RunSources(r) = {}
  PROVE  Cardinality(SourcesOf({f[r] : r \in S})) = Cardinality(S)
<1> DEFINE T == SourcesOf({f[r] : r \in S})
           g == [r \in S |-> f[r].source]
<1>1. g \in [S -> T] BY DEF SourcesOf
<1>2. \A r \in S : g[r] \in RunSources(r) BY DEF RunSources, SourcesOf
<1>3. \A q, r \in S : g[q] = g[r] => q = r BY <1>2
<1>4. \A t \in T : \E r \in S : g[r] = t BY DEF SourcesOf
<1> HIDE DEF g, T
<1>5. g \in Bijection(S, T)
  BY <1>1, <1>3, <1>4 DEF Bijection, Injection, Surjection, IsInjective
<1>6. Cardinality(T) = Cardinality(S) BY <1>5, FS_Bijection DEF ExistsBijection
<1> QED BY <1>6 DEF T

\* What consolidation promotes has three runs behind it, each supported on its own.
LEMMA PromotedIsRepeated ==
  ASSUME NEW S \in SUBSET lessonRuns, IsFiniteSet(S), lessonRuns \subseteq Runs,
         Consolidable(S), NEW broadens \in BOOLEAN,
         Memory("EXPERIMENT", "OBSERVED", broadens, "SUPPORTED",
                Cardinality(S), Cited(S), S) = "PROMOTED"
  PROVE  \E X \in SUBSET Observed(UNION {r.evidence : r \in S}) :
           Cardinality(SourcesOf(X)) >= 3 /\ \A x \in X : x.side = "FOR"
<1>1. Cardinality(S) >= 3 /\ \A r \in S : Verdict(r.evidence) = "SUPPORTED"
  BY DEF Memory, Provenance
<1> DEFINE f == [r \in S |-> CHOOSE e \in Observed(r.evidence) : e.side = "FOR"]
           X == {f[r] : r \in S}
<1>2. \A r \in S : f[r] \in Observed(r.evidence) /\ f[r].side = "FOR"
  BY <1>1, SupportIsObserved
<1>3. f \in [S -> Findable] BY <1>2 DEF Runs, Observed
<1> HIDE DEF f
<1>4. Cardinality(SourcesOf(X)) = Cardinality(S)
  BY <1>2, <1>3, SourcesCounted DEF Consolidable
<1>5. X \in SUBSET Observed(UNION {r.evidence : r \in S}) /\ \A x \in X : x.side = "FOR"
  BY <1>2 DEF Observed
<1> QED BY <1>1, <1>4, <1>5

LEMMA RunRecorded == LessonsInv /\ RecordRun => LessonsInv'
<1> SUFFICES ASSUME LessonsInv, RecordRun PROVE LessonsInv' OBVIOUS
<1>1. PICK causal \in BOOLEAN, controlled \in BOOLEAN, E \in SUBSET Findable :
        lessonRuns' = lessonRuns \cup {[no |-> Cardinality(lessonRuns) + 1, causal |-> causal,
                                        controlled |-> controlled, evidence |-> E]}
  BY DEF RecordRun
<1>2. Cardinality(lessonRuns) \in Nat BY FS_CardinalityType DEF LessonsInv
<1>3. Cardinality(lessonRuns) + 1 \in 1..MaxRuns BY <1>2, LessonsAssumption DEF RecordRun
<1>4. lessonRuns' \subseteq Runs BY <1>1, <1>3 DEF Runs, LessonsInv, LessonsTypeOK
<1>5. IsFiniteSet(lessonRuns') BY <1>1, FS_AddElement DEF LessonsInv
<1> QED BY <1>4, <1>5 DEF RecordRun, LessonsInv, LessonsTypeOK, DurableIsRepeated, Nothing

LEMMA Consolidated == LessonsInv /\ Consolidate => LessonsInv'
<1> SUFFICES ASSUME LessonsInv, Consolidate PROVE LessonsInv' OBVIOUS
<1>1. PICK S \in SUBSET lessonRuns, broadens \in BOOLEAN :
        decided' = [to |-> "CONSOLIDATE", from |-> S,
                    says |-> IF Consolidable(S)
                             THEN Memory("EXPERIMENT", "OBSERVED", broadens, "SUPPORTED",
                                         Cardinality(S), Cited(S), S)
                             ELSE "INVALID"]
  BY DEF Consolidate
<1>2. IsFiniteSet(S) BY FS_Subset DEF LessonsInv
<1>3. DurableIsRepeated'
  <2> SUFFICES ASSUME decided'.says = "PROMOTED" PROVE DurableIsRepeated' BY DEF DurableIsRepeated
  <2>1. decided'.from = S /\ Consolidable(S)
        /\ Memory("EXPERIMENT", "OBSERVED", broadens, "SUPPORTED", Cardinality(S), Cited(S), S) = "PROMOTED"
    BY <1>1
  <2>2. \E X \in SUBSET Observed(UNION {r.evidence : r \in S}) :
          Cardinality(SourcesOf(X)) >= 3 /\ \A x \in X : x.side = "FOR"
    BY <1>2, <2>1, PromotedIsRepeated DEF LessonsInv, LessonsTypeOK
  <2> QED BY <2>1, <2>2 DEF DurableIsRepeated
<1>4. decided'.says # "PROPOSE_STRATEGY_CHANGE" BY <1>1 DEF Memory
<1> QED BY <1>1, <1>3, <1>4 DEF Consolidate, LessonsInv, LessonsTypeOK

LEMMA TrialCounted == LessonsInv /\ Trial => LessonsInv'
<1> SUFFICES ASSUME LessonsInv, Trial PROVE LessonsInv' OBVIOUS
<1>1. PICK s \in Strategies, e \in Effects :
        (\A t \in Strategies : Total(t) < MaxTrials) /\ trials' = [trials EXCEPT ![s][e] = @ + 1]
  BY DEF Trial
<1>2. trials \in [Strategies -> Trials] BY DEF LessonsInv, LessonsTypeOK
<1>3. trials[s][e] + 1 \in 0..MaxTrials
  BY <1>1, <1>2, LessonsAssumption DEF Total, Trials, Effects
<1>4. trials' \in [Strategies -> Trials] BY <1>1, <1>2, <1>3 DEF Trials
<1> QED BY <1>4 DEF Trial, LessonsInv, LessonsTypeOK, DurableIsRepeated, Nothing

LEMMA LessonsInitially == LessonsInit => LessonsInv
BY FS_EmptySet, LessonsAssumption
   DEF LessonsInit, LessonsInv, LessonsTypeOK, DurableIsRepeated, Nothing, Trials, Policies

LEMMA LessonsKept == LessonsInv /\ [LessonsNext]_lessonVars => LessonsInv'
<1> SUFFICES ASSUME LessonsInv, [LessonsNext]_lessonVars PROVE LessonsInv' OBVIOUS
<1>1. CASE Remember
  <2>1. decided'.says # "PROPOSE_STRATEGY_CHANGE" BY <1>1 DEF Remember, Memory
  <2> QED BY <1>1, <2>1 DEF Remember, LessonsInv, LessonsTypeOK, DurableIsRepeated
<1>2. CASE Improve
  <2>1. Improvement = "PROPOSE_STRATEGY_CHANGE" => Cardinality(Best) = 1
    BY DEF Improvement, MetaLearning
  <2>2. decided'.says = "PROPOSE_STRATEGY_CHANGE" => Best' # {}
    BY <1>2, <2>1, FS_EmptySet DEF Improve, Best, Strong, Tried, Total, BetterRate
  <2> QED BY <1>2, <2>2 DEF Improve, LessonsInv, LessonsTypeOK, DurableIsRepeated
<1>3. CASE Adopt
  <2>1. Strong \subseteq Strategies /\ Best \subseteq Strategies BY DEF Best, Strong, Tried
  <2>2. Best # {} BY <1>3 DEF Adopt, LessonsInv
  <2>3. policy' \in Policies
    BY <1>3, <2>1, <2>2 DEF Adopt, LessonsInv, LessonsTypeOK, Policies
  <2> QED BY <1>3, <2>3 DEF Adopt, LessonsInv, LessonsTypeOK, DurableIsRepeated, Nothing
<1>4. CASE UNCHANGED lessonVars
  <2>1. Best' = Best BY <1>4 DEF lessonVars, Best, Strong, Tried, Total, BetterRate
  <2> QED BY <1>4, <2>1 DEF lessonVars, LessonsInv, LessonsTypeOK, DurableIsRepeated
<1> QED BY <1>1, <1>2, <1>3, <1>4, RunRecorded, Consolidated, TrialCounted DEF LessonsNext

\* Runs, trials and the learning policy keep their types, a change of policy included.
THEOREM LessonsTypeCorrect == LessonsSpec => []LessonsTypeOK
<1>1. LessonsInv => LessonsTypeOK BY DEF LessonsInv
<1> QED BY <1>1, LessonsInitially, LessonsKept, PTL DEF LessonsSpec

\* Durable lessons rest on three observations of different sources, whatever runs are
\* consolidated, and for any number of runs, signals and sources.
THEOREM DurableTheorem == LessonsSpec => []DurableIsRepeated
<1>1. LessonsInv => DurableIsRepeated BY DEF LessonsInv
<1> QED BY <1>1, LessonsInitially, LessonsKept, PTL DEF LessonsSpec

-----------------------------------------------------------------------------
(* World states *)

\* The beliefs of the chain: revisions are dated, the dates grow, none is later than its
\* snapshot, and a later snapshot adds to a belief only revisions made since.
Dated(b, n) == \A k \in DOMAIN b : b[k].at <= n /\ \A l \in 1..k : b[l].at <= b[k].at

Extends(now, before, n) ==
  /\ Len(before) <= Len(now)
  /\ \A k \in DOMAIN before : now[k] = before[k]
  /\ \A k \in DOMAIN now : k > Len(before) => now[k].at > n

WorldInv ==
  /\ WorldTypeOK
  /\ \A i \in DOMAIN chain, p \in Propositions : Dated(chain[i][p], i)
  /\ \A i, j \in DOMAIN chain, p \in Propositions :
       i <= j => Extends(chain[j][p], chain[i][p], i)

LEMMA RevisionType ==
  ASSUME NEW b \in Seq(Revisions)
  PROVE  Len(b) \in Nat /\ DOMAIN b = 1..Len(b) /\ \A k \in DOMAIN b : b[k].at \in Nat
<1>1. \A k \in DOMAIN b : b[k] \in Revisions OBVIOUS
<1> QED BY <1>1, WorldAssumption DEF Revisions

\* One more assessment extends a belief.
LEMMA RevisionExtends ==
  ASSUME NEW b \in Seq(Revisions), NEW n \in 1..MaxSnapshots, NEW m \in Nat, n = m + 1,
         NEW e \in News \cup {NoEvidence}, Dated(b, m)
  PROVE  /\ RevisedBelief(b, n, e) \in Seq(Revisions)
         /\ Dated(RevisedBelief(b, n, e), n)
         /\ Extends(RevisedBelief(b, n, e), b, m)
<1> DEFINE v == [at |-> n, on |-> e]
<1>1. v \in Revisions
  <2>2. e \in (SUBSET Findable) \cup {NoEvidence} BY DEF News
  <2> QED BY <2>2 DEF Revisions
<1>2. CASE e = NoEvidence /\ b # <<>>
  <2>1. RevisedBelief(b, n, e) = b BY <1>2 DEF RevisedBelief
  <2>2. Dated(b, n) BY RevisionType DEF Dated
  <2>3. Extends(b, b, m) BY RevisionType DEF Extends
  <2> QED BY <2>1, <2>2, <2>3
<1>3. CASE ~(e = NoEvidence /\ b # <<>>)
  <2>1. RevisedBelief(b, n, e) = Append(b, v) BY <1>3 DEF RevisedBelief
  <2>2. /\ Append(b, v) \in Seq(Revisions) /\ Len(Append(b, v)) = Len(b) + 1
        /\ \A k \in 1..Len(b) : Append(b, v)[k] = b[k] /\ Append(b, v)[Len(b) + 1] = v
    BY <1>1, AppendProperties
  <2>3. Append(b, v)[Len(b) + 1] = v BY <1>1, AppendProperties
  <2>4. \A k \in DOMAIN b : b[k].at \in Nat /\ b[k].at <= m BY RevisionType DEF Dated
  <2> HIDE DEF v
  <2>5. v.at = n BY DEF v
  <2>6. Dated(Append(b, v), n) BY <2>2, <2>3, <2>4, <2>5 DEF Dated
  <2>7. Extends(Append(b, v), b, m) BY <2>2, <2>3, <2>5 DEF Extends
  <2> QED BY <2>1, <2>2, <2>6, <2>7
<1> QED BY <1>2, <1>3

\* A belief that extends another is read back from it by date.
LEMMA ExtensionReadsBack ==
  ASSUME NEW b \in Seq(Revisions), NEW a \in Seq(Revisions), a # <<>>, NEW i \in Nat,
         Dated(a, i), Extends(b, a, i)
  PROVE  SubSeq(b, 1, Len(a)) = a /\ ReadsBack(b, i, Status(a))
<1>1. Len(a) \in 1..Len(b) /\ DOMAIN a = 1..Len(a) /\ DOMAIN b = 1..Len(b) BY DEF Extends
<1>2. \A k \in 1..Len(a) : b[k] = a[k] /\ a[k].at <= i BY <1>1 DEF Extends, Dated
<1>3. \A k \in 1..Len(b) : b[k].at <= i <=> k <= Len(a)
  <2> SUFFICES ASSUME NEW k \in 1..Len(b) PROVE b[k].at <= i <=> k <= Len(a) OBVIOUS
  <2>1. b[k].at \in Nat BY <1>1, RevisionType
  <2>2. k > Len(a) => b[k].at > i BY <1>1 DEF Extends
  <2>3. k <= Len(a) => b[k].at <= i BY <1>1, <1>2
  <2> QED BY <1>1, <2>1, <2>2, <2>3
<1>4. /\ SubSeq(b, 1, Len(a)) \in Seq(Revisions) /\ Len(SubSeq(b, 1, Len(a))) = Len(a)
      /\ \A k \in 1..Len(a) : SubSeq(b, 1, Len(a))[k] = b[k]
  <2>1. \A k \in 1..Len(a) : b[k] \in Revisions BY <1>1
  <2> QED BY <1>1, <2>1, SubSeqProperties
<1>5. SubSeq(b, 1, Len(a)) = a BY <1>2, <1>4, SeqEqual
<1> QED BY <1>1, <1>3, <1>5 DEF ReadsBack

LEMMA WorldImplies == WorldInv => HistoryReadsBack
<1> SUFFICES ASSUME WorldInv PROVE HistoryReadsBack OBVIOUS
<1>1. chain \in Seq(Snapshots) /\ DOMAIN chain = 1..Len(chain) /\ Len(chain) \in Nat
  BY DEF WorldInv, WorldTypeOK
<1>2. \A i \in 1..Len(chain), p \in Propositions : chain[i][p] \in Seq(Revisions)
  BY <1>1 DEF Snapshots
<1>3. ASSUME NEW i \in 1..Len(chain), NEW j \in 1..Len(chain), i <= j, NEW p \in Held(chain[i])
      PROVE  /\ Len(chain[i][p]) <= Len(chain[j][p])
             /\ SubSeq(chain[j][p], 1, Len(chain[i][p])) = chain[i][p]
             /\ ReadsBack(chain[j][p], i, Status(chain[i][p]))
  <2>1. p \in Propositions /\ chain[i][p] # <<>> BY <1>3 DEF Held
  <2>2. Dated(chain[i][p], i) /\ Extends(chain[j][p], chain[i][p], i)
    BY <1>1, <1>3, <2>1 DEF WorldInv
  <2>3. chain[i][p] \in Seq(Revisions) /\ chain[j][p] \in Seq(Revisions) /\ i \in Nat
    BY <1>2, <2>1
  <2>4. Len(chain[i][p]) <= Len(chain[j][p]) BY <2>2 DEF Extends
  <2>5. /\ SubSeq(chain[j][p], 1, Len(chain[i][p])) = chain[i][p]
        /\ ReadsBack(chain[j][p], i, Status(chain[i][p]))
    BY <2>1, <2>2, <2>3, ExtensionReadsBack, Zenon
  <2> QED BY <2>4, <2>5
<1>4. Lineage(chain) BY <1>1, <1>3 DEF Lineage
<1>5. ASSUME NEW i \in 1..Len(chain), NEW p \in Held(chain[i])
      PROVE  ReadsBack(Latest[p], i, Status(chain[i][p]))
  <2>1. Latest = chain[Len(chain)] /\ Len(chain) \in 1..Len(chain) /\ i <= Len(chain)
    BY <1>1 DEF Latest
  <2> QED BY <1>3, <2>1
<1> QED BY <1>4, <1>5 DEF HistoryReadsBack

LEMMA WorldBuilt == WorldInv /\ BuildWorld => WorldInv'
<1> SUFFICES ASSUME WorldInv, BuildWorld PROVE WorldInv' OBVIOUS
<1> DEFINE n == Len(chain) + 1
<1>1. chain \in Seq(Snapshots) /\ Len(chain) \in Nat /\ DOMAIN chain = 1..Len(chain)
  BY DEF WorldInv, WorldTypeOK
<1>2. n \in 1..MaxSnapshots BY <1>1, WorldAssumption DEF BuildWorld
<1>3. PICK S \in SUBSET Propositions : \E news \in [S -> News \cup {NoEvidence}] :
        /\ Held(Latest) \subseteq S
        /\ chain' = Append(chain, [p \in Propositions |->
             IF p \in S THEN RevisedBelief(Latest[p], n, news[p]) ELSE <<>>])
  BY DEF BuildWorld
<1>0. PICK news \in [S -> News \cup {NoEvidence}] :
        /\ Held(Latest) \subseteq S
        /\ chain' = Append(chain, [p \in Propositions |->
             IF p \in S THEN RevisedBelief(Latest[p], n, news[p]) ELSE <<>>])
  BY <1>3
<1> DEFINE w == [p \in Propositions |->
                   IF p \in S THEN RevisedBelief(Latest[p], n, news[p]) ELSE <<>>]
<1>4. \A p \in Propositions : Latest[p] \in Seq(Revisions) /\ Dated(Latest[p], Len(chain))
  <2>1. CASE chain = <<>> BY <2>1 DEF Latest, Dated
  <2>2. CASE chain # <<>>
    <3>1. Latest = chain[Len(chain)] /\ Len(chain) \in DOMAIN chain BY <1>1, <2>2 DEF Latest
    <3>2. chain[Len(chain)] \in Snapshots BY <1>1, <3>1
    <3> QED BY <3>1, <3>2 DEF WorldInv, Snapshots
  <2> QED BY <2>1, <2>2
<1>5. ASSUME NEW p \in Propositions
      PROVE  w[p] \in Seq(Revisions) /\ Dated(w[p], n) /\ Extends(w[p], Latest[p], Len(chain))
  <2>1. CASE p \in S BY <1>1, <1>2, <1>4, <2>1, RevisionExtends
  <2>2. CASE p \notin S
    <3>1. Latest[p] = <<>> /\ w[p] = <<>> BY <1>0, <2>2 DEF Held
    <3>2. /\ <<>> \in Seq(Revisions) /\ Dated(<<>>, n)
          /\ Extends(<<>>, <<>>, Len(chain))
      BY DEF Dated, Extends
    <3> QED BY <3>1, <3>2
  <2> QED BY <2>1, <2>2
<1>6. w \in Snapshots BY <1>5 DEF Snapshots
<1> HIDE DEF w
<1>7. /\ chain' \in Seq(Snapshots) /\ Len(chain') = n /\ chain'[n] = w
      /\ \A i \in 1..Len(chain) : chain'[i] = chain[i]
  BY <1>1, <1>0, <1>6, AppendProperties DEF w
<1>8. WorldTypeOK' BY <1>2, <1>7 DEF BuildWorld, WorldTypeOK, NoQuestion, Topics
<1>9. ASSUME NEW i \in 1..Len(chain), NEW p \in Propositions
      PROVE  Extends(w[p], chain[i][p], i)
  <2>1. Latest = chain[Len(chain)] /\ Len(chain) \in DOMAIN chain /\ i <= Len(chain)
    BY <1>1 DEF Latest
  <2>2. Extends(Latest[p], chain[i][p], i) BY <1>1, <2>1 DEF WorldInv
  <2>3. chain[i][p] \in Seq(Revisions) /\ Latest[p] \in Seq(Revisions) /\ w[p] \in Seq(Revisions)
    BY <1>1, <1>4, <1>5 DEF Snapshots
  <2>4. Extends(w[p], Latest[p], Len(chain)) BY <1>5
  <2> DEFINE a == chain[i][p]
             b == Latest[p]
             d == w[p]
  <2>5. /\ Len(a) \in Nat /\ DOMAIN a = 1..Len(a) /\ Len(b) \in Nat /\ DOMAIN b = 1..Len(b)
        /\ Len(d) \in Nat /\ DOMAIN d = 1..Len(d) /\ \A k \in DOMAIN d : d[k].at \in Nat
    BY <2>3, RevisionType
  <2>6. Extends(b, a, i) /\ Extends(d, b, Len(chain)) BY <2>2, <2>4
  <2> HIDE DEF a, b, d
  <2>7. \A k \in DOMAIN a : d[k] = a[k] BY <2>5, <2>6 DEF Extends
  <2>8. \A k \in DOMAIN d : k > Len(a) => d[k].at > i
    BY <1>1, <2>1, <2>5, <2>6 DEF Extends
  <2>9. Extends(d, a, i) BY <2>5, <2>6, <2>7, <2>8 DEF Extends
  <2> QED BY <2>9 DEF a, d
<1>10. \A p \in Propositions : Extends(w[p], w[p], n) BY <1>5 DEF Extends
<1>11. \A i \in 1..n, p \in Propositions : Dated(chain'[i][p], i)
  <2> SUFFICES ASSUME NEW i \in 1..n, NEW p \in Propositions PROVE Dated(chain'[i][p], i)
    OBVIOUS
  <2>1. CASE i = n
    <3>1. chain'[i] = w BY <1>7, <2>1
    <3> QED BY <1>5, <2>1, <3>1
  <2>2. CASE i # n
    <3>1. i \in 1..Len(chain) /\ chain'[i] = chain[i] BY <1>1, <1>7, <2>2
    <3> QED BY <1>1, <3>1 DEF WorldInv
  <2> QED BY <2>1, <2>2
<1>12. \A i, j \in 1..n, p \in Propositions : i <= j => Extends(chain'[j][p], chain'[i][p], i)
  <2> SUFFICES ASSUME NEW i \in 1..n, NEW j \in 1..n, NEW p \in Propositions, i <= j
               PROVE  Extends(chain'[j][p], chain'[i][p], i)
    OBVIOUS
  <2>1. CASE i = n
    <3>1. j = n /\ chain'[j] = w /\ chain'[i] = w BY <1>1, <1>7, <2>1
    <3> QED BY <1>10, <2>1, <3>1
  <2>2. CASE i # n /\ j = n
    <3>1. i \in 1..Len(chain) /\ chain'[j] = w /\ chain'[i] = chain[i] BY <1>1, <1>7, <2>2
    <3> QED BY <1>9, <3>1
  <2>3. CASE i # n /\ j # n
    <3>1. /\ i \in 1..Len(chain) /\ j \in 1..Len(chain)
          /\ chain'[j] = chain[j] /\ chain'[i] = chain[i]
      BY <1>1, <1>7, <2>3
    <3> QED BY <1>1, <3>1 DEF WorldInv
  <2> QED BY <2>1, <2>2, <2>3
<1>13. DOMAIN chain' = 1..n BY <1>7
<1> QED BY <1>8, <1>11, <1>12, <1>13 DEF WorldInv

\* What one agent's world model writes it reads back, for any propositions, evidence
\* and number of snapshots.
THEOREM HistoryTheorem == WorldSpec => []HistoryReadsBack
<1>1. WorldInit => WorldInv
  BY WorldAssumption DEF WorldInit, WorldInv, WorldTypeOK, NoQuestion, Topics
<1>2. WorldInv /\ [WorldNext]_worldVars => WorldInv'
  <2> SUFFICES ASSUME WorldInv, [WorldNext]_worldVars PROVE WorldInv' OBVIOUS
  <2>1. CASE BuildWorld BY <2>1, WorldBuilt
  <2>2. CASE UNCHANGED chain /\ question'.what \in Topics
    BY <2>2 DEF WorldInv, WorldTypeOK
  <2>3. AskTemporal \/ AskLink \/ AskGraph \/ AskPortfolio => UNCHANGED chain /\ question'.what \in Topics
    BY DEF AskTemporal, AskLink, AskGraph, AskPortfolio, Topics
  <2>4. AskExperiment => UNCHANGED chain /\ question'.what \in Topics
    <3>1. AskExperiment => UNCHANGED chain /\ \E v : question' = [what |-> "EXPERIMENT", says |-> v]
      BY Zenon DEF AskExperiment
    <3> QED BY <3>1 DEF Topics
  <2>7. AskDepth => UNCHANGED chain /\ question'.what \in Topics BY DEF AskDepth, Topics
  <2>6. AskSplit => UNCHANGED chain /\ question'.what \in Topics
    BY DEF AskSplit, Topics
  <2>5. UNCHANGED worldVars => UNCHANGED chain /\ question'.what \in Topics
    BY DEF worldVars, WorldInv, WorldTypeOK
  <2> QED BY <2>1, <2>2, <2>3, <2>4, <2>5, <2>6, <2>7 DEF WorldNext
<1> QED BY <1>1, <1>2, WorldImplies, PTL DEF WorldSpec
=============================================================================
