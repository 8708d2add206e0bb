---------------------------- MODULE DesktopShell ----------------------------
(***************************************************************************)
(* The desktop shell (src-tauri/src/main.rs) and the backend process it    *)
(* starts (app_api/server.py run_server): finding or recycling an earlier  *)
(* backend, the handshake on its output, the job object that ties its life *)
(* to the shell's, the native proxy and the native approval dialog.        *)
(* run_app.ps1, the developer's launcher, starts backends with no job.     *)
(***************************************************************************)
EXTENDS Naturals, FiniteSets

CONSTANTS Pids, NoPid,
          MaxStarts     \* bound: processes started besides the shell's own

ASSUME ShellAssumption == NoPid \notin Pids /\ MaxStarts \in Nat

VARIABLES
  process,   \* what runs under each process id
  port,      \* the process listening on the API port, or NoPid
  record,    \* the pid in backend_instance.json, or NoPid
  launch,    \* where spawn_backend_and_bootstrap and the application stand
  child,     \* the backend whose process handle the shell keeps, or NoPid
  job,       \* the processes in the shell's job object
  stale,     \* the pid the shell read from the record
  token,     \* the backend whose bearer the shell holds
  devToken,  \* APP_BACKEND_BEARER_DEV is set in the shell's environment
  dev,       \* the backend run_app.ps1 started and still looks after
  proposal,  \* the pending action at the backend
  dialog,    \* the native confirmation dialog about it
  starts

shellVars == <<process, port, record, launch, child, job, stale, token, devToken, dev,
               proposal, dialog, starts>>

Backends == {"boot", "bound", "framed", "serving"}
Answers(p) == p # NoPid /\ process[p] = "serving"

\* backend_instance.json, and what the shell's job object holds
BackendStateFiles == Pids \cup {NoPid}
JobObjects == SUBSET Pids

ShellTypeOK ==
  /\ process \in [Pids -> {"none", "stranger"} \cup Backends]
  /\ record \in BackendStateFiles /\ job \in JobObjects
  /\ {port, child, stale, token, dev} \subseteq Pids \cup {NoPid}
  /\ launch \in {"off", "clear", "owned", "draining", "handshake", "health", "up",
                "reused", "refused"}
  /\ devToken \in BOOLEAN /\ starts \in 0..MaxStarts
  /\ proposal \in {"PENDING", "REJECTED", "APPROVED"}
  /\ dialog \in {"none", "shown"}

ShellInit ==
  /\ process = [p \in Pids |-> "none"] /\ launch = "off" /\ job = {}
  /\ port = NoPid /\ record = NoPid /\ child = NoPid /\ stale = NoPid /\ token = NoPid
  /\ devToken \in BOOLEAN /\ dev = NoPid
  /\ proposal = "PENDING" /\ dialog = "none" /\ starts = 0

atBackend == <<proposal, dialog>>
ofShell == <<launch, child, stale, token, dialog>>

\* A killed process runs no exit handler: its record stays behind.
Killed(S) ==
  /\ process' = [p \in Pids |-> IF p \in S THEN "none" ELSE process[p]]
  /\ port' = IF port \in S THEN NoPid ELSE port
  /\ job' = job \ S
-----------------------------------------------------------------------------
(* The backend process. *)
\* Exclusive binding; a process that loses it leaves through sys.exit, and the
\* exit handler removes the record whoever wrote it.
Bind(p) ==
  /\ process[p] = "boot"
  /\ IF port = NoPid
     THEN process' = [process EXCEPT ![p] = "bound"] /\ port' = p /\ UNCHANGED <<record, job>>
     ELSE Killed({p}) /\ record' = NoPid
  /\ UNCHANGED <<ofShell, devToken, dev, proposal, starts>>

\* The record, which may fail to be written, then the bootstrap frame.
WriteRecord(p) ==
  /\ process[p] = "bound"
  /\ process' = [process EXCEPT ![p] = "framed"]
  /\ record' \in {p, record}
  /\ UNCHANGED <<job, port, ofShell, devToken, dev, proposal, starts>>

ServeForever(p) ==
  /\ process[p] = "framed"
  /\ process' = [process EXCEPT ![p] = "serving"]
  /\ UNCHANGED <<job, port, record, ofShell, devToken, dev, proposal, starts>>

Stops(p) ==
  /\ process[p] \in Backends
  /\ Killed({p}) /\ record' \in {NoPid, record}   \* clean exit, or a crash
  /\ UNCHANGED <<ofShell, devToken, dev, proposal, starts>>

\* Anything else on the machine: it may take a free port or a dead process's id,
\* though not an id the shell still holds a handle of.
Stranger(p) ==
  /\ process[p] = "none" /\ p # child /\ starts < MaxStarts /\ starts' = starts + 1
  /\ process' = [process EXCEPT ![p] = "stranger"]
  /\ \/ port = NoPid /\ port' = p
     \/ UNCHANGED port
  /\ UNCHANGED <<job, record, ofShell, devToken, dev, proposal>>
-----------------------------------------------------------------------------
(* run_app.ps1. *)
DevStart(p) ==
  /\ dev = NoPid /\ process[p] = "none" /\ p # child /\ starts < MaxStarts
  /\ process' = [process EXCEPT ![p] = "boot"] /\ dev' = p /\ starts' = starts + 1
  /\ UNCHANGED <<job, port, record, ofShell, devToken, proposal>>

\* A failed handshake, the deadline and Ctrl-C stop the process tree.
DevStopTree ==
  /\ dev # NoPid /\ dev' = NoPid
  /\ Killed({dev})
  /\ UNCHANGED <<record, ofShell, devToken, proposal, starts>>

\* The console is closed: nothing stops the backend.
DevKilled ==
  /\ dev # NoPid /\ dev' = NoPid
  /\ UNCHANGED <<job, process, port, record, ofShell, devToken, proposal, starts>>
-----------------------------------------------------------------------------
(* spawn_backend_and_bootstrap. *)
Look ==
  /\ launch = "off"
  /\ \/ port = NoPid /\ record' = NoPid /\ launch' = "clear" /\ UNCHANGED stale
     \/ port # NoPid /\ record = NoPid /\ launch' = "refused" /\ UNCHANGED <<record, stale>>
     \/ port # NoPid /\ record # NoPid /\ launch' = "owned" /\ stale' = record /\ UNCHANGED record
  /\ UNCHANGED <<job, process, port, child, token, devToken, dev, atBackend, starts>>

\* The bearer in the environment is that of the developer's backend.
Reuse ==
  /\ launch = "owned" /\ devToken /\ Answers(port)
  /\ launch' = "reused" /\ token' = port
  /\ UNCHANGED <<job, process, port, record, child, stale, devToken, dev, atBackend, starts>>

\* No token, or no healthy answer in time; the kill may be refused.
Recycle ==
  /\ launch = "owned" /\ launch' = "draining"
  /\ \E S \in {{}, {stale}} : Killed(S)
  /\ record' = NoPid
  /\ UNCHANGED <<child, stale, token, devToken, dev, atBackend, starts>>

\* Suspended, put in the job, then resumed. A job or a process that cannot be
\* made leaves nothing behind.
Spawn ==
  /\ launch \in {"clear", "draining"}
  /\ \/ \E p \in Pids : /\ process[p] = "none"
                        /\ process' = [process EXCEPT ![p] = "boot"]
                        /\ child' = p /\ job' = {p} /\ launch' = "handshake"
     \/ launch' = "refused" /\ UNCHANGED <<process, child, job>>
  /\ UNCHANGED <<port, record, stale, token, devToken, dev, atBackend, starts>>

ReadFrame ==
  /\ launch = "handshake" /\ process[child] \in {"framed", "serving"}
  /\ token' = child /\ launch' = "health"
  /\ UNCHANGED <<job, process, port, record, child, stale, devToken, dev, atBackend, starts>>

ReadEndPipeOpen == FALSE /\ UNCHANGED shellVars
\* The parent's copy of the write end is closed, so that the child's end is seen.
ReadEnd ==
  /\ launch = "handshake" /\ process[child] = "none" /\ launch' = "refused" /\ child' = NoPid
  /\ UNCHANGED <<job, process, port, record, stale, token, devToken, dev, atBackend, starts>>

Healthy ==
  /\ launch = "health" /\ Answers(port) /\ launch' = "up"
  /\ UNCHANGED <<job, process, port, record, child, stale, token, devToken, dev, atBackend, starts>>

HealthTimeout ==
  /\ launch = "health" /\ launch' = "refused"
  /\ Killed(job) /\ child' = NoPid /\ token' = NoPid
  /\ UNCHANGED <<record, stale, devToken, dev, atBackend, starts>>

\* The exit event terminates the job; a crash closes its last handle, which
\* kills what is in it too.
ShellEndsAlone ==
  /\ launch # "off" /\ launch' = "off"
  /\ child' = NoPid /\ stale' = NoPid /\ token' = NoPid /\ dialog' = "none"
  /\ UNCHANGED <<process, port, record, job, devToken, dev, proposal, starts>>
ShellEnds ==
  /\ launch # "off" /\ launch' = "off"
  /\ Killed(job) /\ child' = NoPid /\ stale' = NoPid /\ token' = NoPid
  /\ dialog' = "none"
  /\ UNCHANGED <<record, devToken, dev, proposal, starts>>
-----------------------------------------------------------------------------
(* Requests of the page, through the shell. *)
\* Decisions never go through the proxy; of the rest only what the allowlist names
\* does, and it does not name the settings and queue routes.
Decisions == {"approve", "reject", "create"}
Permitted(m, r) == r \notin Decisions /\ <<m, r>> \in {<<"GET", "read">>, <<"POST", "turn">>}
Proxied == {"GET", "POST"} \X (Decisions \cup {"read", "turn", "settings", "queue"})

Authorized == token # NoPid /\ port = token /\ Answers(token)

\* Every request first asks whether the child still runs and forgets the token of
\* a dead one.
NoticeExit ==
  /\ launch = "up" /\ process[child] = "none" /\ token # NoPid
  /\ token' = NoPid
  /\ UNCHANGED <<job, process, port, record, launch, child, stale, devToken, dev, atBackend, starts>>

ApiRequest(m, r) ==
  /\ launch \in {"up", "reused"} /\ Permitted(m, r) /\ Authorized
  /\ proposal' = IF proposal = "PENDING" /\ r = "approve" THEN "APPROVED" ELSE proposal
  /\ UNCHANGED <<job, process, port, record, ofShell, devToken, dev, starts>>

ReviewShown ==
  /\ launch \in {"up", "reused"} /\ dialog = "none" /\ Authorized
  /\ proposal = "PENDING" /\ dialog' = "shown"
  /\ UNCHANGED <<job, process, port, record, launch, child, stale, token, devToken, dev, proposal, starts>>

\* The user answers; while the dialog is open the action may have been decided.
ReviewAnswered ==
  /\ dialog = "shown" /\ dialog' = "none"
  /\ \/ UNCHANGED proposal
     \/ /\ Authorized /\ proposal = "PENDING" /\ proposal' = "APPROVED"
  /\ UNCHANGED <<job, process, port, record, launch, child, stale, token, devToken, dev, starts>>

\* The action lapses or is rejected elsewhere.
DecidedElsewhere ==
  /\ proposal = "PENDING" /\ proposal' = "REJECTED"
  /\ UNCHANGED <<job, process, port, record, ofShell, devToken, dev, starts>>
-----------------------------------------------------------------------------
BackendStep(p) == Bind(p) \/ WriteRecord(p) \/ ServeForever(p)
LaunchStep == Reuse \/ Recycle \/ Spawn \/ ReadFrame \/ ReadEnd \/ Healthy \/ HealthTimeout

ShellNext ==
  \/ \E p \in Pids : BackendStep(p) \/ Stops(p) \/ Stranger(p) \/ DevStart(p)
  \/ DevStopTree \/ DevKilled
  \/ Look \/ LaunchStep \/ ShellEnds
  \/ NoticeExit \/ (\E x \in Proxied : ApiRequest(x[1], x[2]))
  \/ ReviewShown \/ ReviewAnswered \/ DecidedElsewhere

ShellSpec ==
  /\ ShellInit /\ [][ShellNext]_shellVars
  /\ WF_shellVars(LaunchStep) /\ \A p \in Pids : WF_shellVars(BackendStep(p))
-----------------------------------------------------------------------------
(***************************************************************************)
(* No backend in the shell's job outlives the shell's interest in it: once *)
(* the launch was given up or the shell has ended, whatever is still       *)
(* running was started by somebody else.  (main.rs: job.terminate on every *)
(* failing path, KILL_ON_JOB_CLOSE, the exit event.)                       *)
(***************************************************************************)
NoStrayBackend == launch \in {"off", "reused", "refused"} => job = {}

(***************************************************************************)
(* A launch comes to an end: the window opens with a backend, or it opens  *)
(* without one.  Reading the handshake has no deadline of its own; it ends *)
(* because the child announces itself or its pipe closes.                  *)
(***************************************************************************)
LaunchSettles ==
  launch \in {"clear", "owned", "draining", "handshake", "health"}
    ~> launch \in {"up", "reused", "refused", "off"}
=============================================================================
