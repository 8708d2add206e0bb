----------------------------- MODULE MCServices -----------------------------
(***************************************************************************)
(* Small instances of services that share no state, checked side by side:  *)
(* a behaviour picks one of them (focus) and the others stay where they    *)
(* began.  Nothing is claimed about how they interact.                     *)
(***************************************************************************)
EXTENDS ModelGateway, MarketingLive, MCBrain, MCPipeline, TLC

CONSTANTS free, paid

TwoProviders == {free, paid}
OnlyPaid == {paid}
\* A new key with paid models allowed, and a target that free-only blocks.
TwoUpdates == {[p |-> free, rotate |-> TRUE, t |-> paid, f |-> FALSE],
               [p |-> paid, rotate |-> FALSE, t |-> paid, f |-> TRUE]}
PaidThenFree == <<paid, free>>

\* Beside calls, one settings change without faults and stops is enough to meet.
OneChangeGoesWell ==
  /\ SettingsBesideCall
  /\ setFaults' = 0 /\ setCrashes' = 0 /\ tx'.new.rev <= 2

ServicesInit ==
  /\ focus \in {"settings", "models", "marketing", "pipeline"} \cup BrainParts
  /\ GatewayInit /\ (focus \notin {"settings", "models"} => ~consented)
  /\ LiveInit /\ PipelineInit
  /\ BrainInit

ServicesNext ==
  \/ /\ UNCHANGED <<focus, brainVars>>
     /\ \/ focus = "settings" /\ SettingsStep /\ UNCHANGED <<callVars, liveVars, pipelineVars>>
        \/ /\ focus = "models" /\ (OneChangeGoesWell \/ CallStep)
           /\ UNCHANGED <<liveVars, pipelineVars>>
        \/ focus = "marketing" /\ LiveNext /\ UNCHANGED <<gatewayVars, pipelineVars>>
        \/ focus = "pipeline" /\ PipelineNext /\ UNCHANGED <<gatewayVars, liveVars>>
  \/ BrainNext /\ UNCHANGED <<gatewayVars, liveVars, pipelineVars>>

ServicesSpec ==
  ServicesInit
    /\ [][ServicesNext]_<<gatewayVars, liveVars, pipelineVars, brainVars, focus>>
=============================================================================
