---------------------------- MODULE MCWorkspace ----------------------------
(***************************************************************************)
(* Small instances of the parts a user's session meets, side by side as in *)
(* MCServices: a behaviour picks one of them and the others stand still.   *)
(***************************************************************************)
EXTENDS DepartmentRuntime, ChatStore, VerifierWorker, DesktopShell, Observation, TLC

CONSTANTS w1, w2, w3   \* the subject's own page, a thread and a video

VARIABLE focus

OneEarlier == <<"m1">>
KindOfPage == (w1 :> "web") @@ (w2 :> "hacker_news") @@ (w3 :> "video")
SaidOnPage ==
  (w1 :> {"domain", "devlog"}) @@ (w2 :> {"alias", "hardware"}) @@ (w3 :> {"category"})

WorkspaceInit ==
  /\ focus \in {"runtime", "chat", "verifier", "shell", "research"}
  /\ RuntimeInit /\ StoreInit /\ VerifierInit /\ ShellInit
  /\ ObservationInit
  /\ focus # "shell" => ~devToken
  /\ focus # "research" => subject = "NAMELESS"

WorkspaceNext ==
  /\ UNCHANGED focus
  /\ \/ /\ focus = "runtime" /\ RuntimeNext
        /\ UNCHANGED <<storeVars, verifierVars, shellVars, observationVars>>
     \/ /\ focus = "chat" /\ StoreNext
        /\ UNCHANGED <<rtVars, verifierVars, shellVars, observationVars>>
     \/ /\ focus = "verifier" /\ VerifierNext
        /\ UNCHANGED <<rtVars, storeVars, shellVars, observationVars>>
     \/ /\ focus = "shell" /\ ShellNext
        /\ UNCHANGED <<rtVars, storeVars, verifierVars, observationVars>>
     \/ /\ focus = "research" /\ ObservationNext
        /\ UNCHANGED <<rtVars, storeVars, verifierVars, shellVars>>

workspaceVars ==
  <<rtVars, storeVars, verifierVars, shellVars, observationVars, focus>>

WorkspaceSpec == WorkspaceInit /\ [][WorkspaceNext]_workspaceVars
=============================================================================
