--------------------------- MODULE MCServicesLive ---------------------------
(***************************************************************************)
(* The parts with liveness properties, side by side as in MCServices, each *)
(* under the fairness of its own specification.                            *)
(***************************************************************************)
EXTENDS DepartmentRuntime, VerifierWorker, ChatStream, DesktopShell

VARIABLE focus

liveServicesVars == <<rtVars, verifierVars, streamVars, shellVars, focus>>

OfRuntime(A) == focus = "runtime" /\ A /\ UNCHANGED <<verifierVars, streamVars, shellVars, focus>>
OfVerifier(A) == focus = "verifier" /\ A /\ UNCHANGED <<rtVars, streamVars, shellVars, focus>>
OfStream(A) == focus = "stream" /\ A /\ UNCHANGED <<rtVars, verifierVars, shellVars, focus>>
OfShell(A) == focus = "shell" /\ A /\ UNCHANGED <<rtVars, verifierVars, streamVars, focus>>

LiveServicesInit ==
  /\ focus \in {"runtime", "verifier", "stream", "shell"}
  /\ RuntimeInit /\ VerifierInit /\ StreamInit /\ ShellInit
  /\ focus # "stream" => stored = NoRow
  /\ focus # "shell" => ~devToken

LiveServicesNext ==
  OfRuntime(RuntimeNext) \/ OfVerifier(VerifierNext) \/ OfStream(StreamNext) \/ OfShell(ShellNext)

LiveServicesSpec ==
  /\ LiveServicesInit /\ [][LiveServicesNext]_liveServicesVars
  /\ \A r \in Runs : WF_liveServicesVars(OfRuntime(Executor(r)))
  /\ \A c \in Claims : WF_liveServicesVars(OfVerifier(VerifyStep(c)))
  /\ WF_liveServicesVars(OfStream(OpenStream)) /\ WF_liveServicesVars(OfStream(WorkerTurn))
  /\ WF_liveServicesVars(OfStream(WriterTurn))
  /\ WF_liveServicesVars(OfStream(ForwardFrame \/ StreamFails))
  /\ WF_liveServicesVars(OfStream(PageTurn))
  /\ WF_liveServicesVars(OfShell(LaunchStep))
  /\ \A p \in Pids : WF_liveServicesVars(OfShell(BackendStep(p)))
=============================================================================
