---------------------------- MODULE DispatchOnce ----------------------------
(***************************************************************************)
(* What the job queue promises about every run id: it is admitted at most    *)
(* once, an admitted run is either dispatched to the runtime once or closed  *)
(* without ever having been dispatched, and neither is ever undone -- over   *)
(* crashes, restarts and failed saves.                                       *)
(***************************************************************************)
CONSTANT Runs

VARIABLE phase

Init == phase = [r \in Runs |-> "unknown"]

Admit(r) ==
  /\ phase[r] = "unknown"
  /\ phase' = [phase EXCEPT ![r] = "admitted"]

Dispatch(r) ==
  /\ phase[r] = "admitted"
  /\ phase' = [phase EXCEPT ![r] = "dispatched"]

\* A cancellation or a failed start closes one run, a crash or a shutdown
\* closes several.
Close(S) ==
  /\ \A r \in S : phase[r] = "admitted"
  /\ phase' = [r \in Runs |-> IF r \in S THEN "closed" ELSE phase[r]]

Next ==
  \/ \E r \in Runs : Admit(r) \/ Dispatch(r)
  \/ \E S \in SUBSET Runs : Close(S)

Spec == Init /\ [][Next]_phase
=============================================================================
