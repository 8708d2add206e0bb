--------------------------- MODULE VerifierWorker ---------------------------
(***************************************************************************)
(* The isolated claim verifier: the threads that call verify_claim, the    *)
(* admission queue in front of the one worker subprocess, the worker, and  *)
(* the reader threads that carry its output to the parent.  A reader       *)
(* thread names the process and the queue through the client object, so    *)
(* one that outlives its worker goes on with the next worker's.            *)
(* There is no clock: a deadline may pass in every state that has one.     *)
(* The write of a request has none: it lasts until the worker reads.       *)
(***************************************************************************)
EXTENDS Integers, Sequences, FiniteSets

CONSTANTS
  Claims, NoClaim,
  MaxWaiters,   \* ADMISSION_MAX_WAITERS
  MaxSpawns,    \* bound: workers the OS starts before it refuses
  MaxDeaths,    \* bound: workers that die on their own
  MaxResets     \* bound: calls of reset()

ASSUME VerifierAssumption ==
  /\ NoClaim \notin Claims
  /\ MaxWaiters \in Nat \ {0} /\ {MaxSpawns, MaxDeaths, MaxResets} \subseteq Nat

Workers == 1..MaxSpawns
MaxRespawns == 1            \* MAX_WORKER_RESPAWNS
NotYet == -1                 \* a reader thread that has not looked yet
Between == -2               \* a reader thread between two lines
Ending == -3                \* a reader thread about to post its sentinel
Boot == "boot"              \* a worker that has not yet sent its handshake
Hello == [kind |-> "hello", claim |-> NoClaim]
Eof == [kind |-> "eof", claim |-> NoClaim]
AnswerTo(c) == [kind |-> "answer", claim |-> c]

VARIABLES
  vpc,        \* where each caller of verify_claim stands
  verdict,    \* its verdict
  answeredBy, \* history: the claim the worker scored for that verdict
  holder,     \* owner of the admission semaphore
  waiters,    \* _admission_waiters
  proc,       \* _process: a worker, or 0
  greeted,    \* handshake is set
  inbox,      \* _response_queue
  respawns, failedStarts, unavailable,
  spawned,    \* workers started
  alive, pipe, stdin, \* each worker: running, unread output, request it holds
  reader,     \* each reader thread: the worker it reads, or its state
  deaths,     \* workers that died on their own
  resets

callerVars == <<vpc, verdict, answeredBy>>
admissionVars == <<holder, waiters>>
budgetVars == <<respawns, failedStarts, unavailable>>
processVars == <<alive, pipe, stdin, reader, spawned, deaths>>
verifierVars == <<callerVars, admissionVars, budgetVars, processVars, proc, greeted,
                  inbox, resets>>

VerifierInit ==
  /\ vpc = [c \in Claims |-> "idle"]
  /\ verdict = [c \in Claims |-> "NONE"] /\ answeredBy = [c \in Claims |-> NoClaim]
  /\ holder = NoClaim /\ waiters = 0
  /\ proc = 0 /\ greeted = FALSE /\ inbox = <<>>
  /\ respawns = 0 /\ failedStarts = 0 /\ unavailable = FALSE
  /\ spawned = 0 /\ deaths = 0
  /\ alive = [w \in Workers |-> FALSE] /\ pipe = [w \in Workers |-> <<>>]
  /\ stdin = [w \in Workers |-> NoClaim] /\ reader = [w \in Workers |-> 0]
  /\ resets = 0

Locked == \E c \in Claims : vpc[c] \in {"spawn", "greet", "write", "blocked", "await"}
To(c, pc) == vpc' = [vpc EXCEPT ![c] = pc]
Decide(c, pc, v) == To(c, pc) /\ verdict' = [verdict EXCEPT ![c] = v]
FailClosed(c) ==
  Decide(c, "release", "CLOSED") /\ UNCHANGED <<answeredBy, admissionVars, resets>>

\* _close_process: forget the process, then see that it ends.
CloseProcess ==
  /\ proc' = 0 /\ greeted' = FALSE
  /\ alive' = [w \in Workers |-> alive[w] /\ w # proc]
  /\ UNCHANGED <<pipe, stdin, reader, spawned, deaths, inbox>>
KeepProcess == UNCHANGED <<proc, greeted, processVars, inbox>>
Took == inbox' = Tail(inbox)
Budget(r, u) == respawns' = r /\ unavailable' = u /\ UNCHANGED failedStarts

----------------------------------------------------------------------------
(* verify_claim up to the worker *)

\* A deterministic guard, a size limit or a spent gate deadline answers first.
Guarded(c) ==
  /\ vpc[c] = "idle"
  /\ Decide(c, "done", "CLOSED")
  /\ UNCHANGED <<answeredBy, admissionVars, budgetVars, processVars, proc, greeted, inbox,
                 resets>>

Backpressure(c) ==
  /\ vpc[c] = "idle" /\ waiters >= MaxWaiters
  /\ Decide(c, "done", "CLOSED")
  /\ UNCHANGED <<answeredBy, admissionVars, budgetVars, processVars, proc, greeted, inbox,
                 resets>>

Register(c) ==
  /\ vpc[c] = "idle" /\ waiters < MaxWaiters
  /\ To(c, "waiting") /\ waiters' = waiters + 1
  /\ UNCHANGED <<verdict, answeredBy, holder, budgetVars, processVars, proc, greeted, inbox,
                 resets>>

Admit(c) ==
  /\ vpc[c] = "waiting" /\ holder = NoClaim
  /\ To(c, "ensure") /\ holder' = c
  /\ UNCHANGED <<verdict, answeredBy, waiters, budgetVars, processVars, proc, greeted, inbox,
                 resets>>

AdmissionExpires(c) ==
  /\ vpc[c] = "waiting"
  /\ Decide(c, "deregister", "CLOSED")
  /\ UNCHANGED <<answeredBy, admissionVars, budgetVars, processVars, proc, greeted, inbox,
                 resets>>

Release(c) ==
  /\ vpc[c] = "release"
  /\ To(c, "deregister") /\ holder' = NoClaim
  /\ UNCHANGED <<verdict, answeredBy, waiters, budgetVars, processVars, proc, greeted, inbox,
                 resets>>

Deregister(c) ==
  /\ vpc[c] = "deregister"
  /\ To(c, "done") /\ waiters' = waiters - 1
  /\ UNCHANGED <<verdict, answeredBy, holder, budgetVars, processVars, proc, greeted, inbox,
                 resets>>

----------------------------------------------------------------------------
(* _ensure_worker and the handshake *)

Usable == proc # 0 /\ alive[proc] /\ greeted
OffForGood == unavailable /\ respawns >= MaxRespawns

\* A dead process costs one respawn; more than the budget is the end.
EnsureWorker(c) ==
  /\ vpc[c] = "ensure"
  /\ \/ Usable /\ To(c, "write") /\ KeepProcess
        /\ UNCHANGED <<verdict, answeredBy, admissionVars, budgetVars, resets>>
     \/ ~Usable /\ OffForGood /\ FailClosed(c) /\ KeepProcess /\ UNCHANGED budgetVars
     \/ ~Usable /\ ~OffForGood /\ proc # 0 /\ respawns >= MaxRespawns
        /\ FailClosed(c) /\ KeepProcess /\ Budget(respawns + 1, TRUE)
     \/ ~Usable /\ ~OffForGood /\ (proc = 0 \/ respawns < MaxRespawns)
        /\ To(c, "spawn") /\ CloseProcess
        /\ \/ proc = 0 /\ UNCHANGED budgetVars
           \/ proc # 0 /\ Budget(respawns + 1, unavailable)
        /\ UNCHANGED <<verdict, answeredBy, admissionVars, resets>>

\* No interpreter, or the OS refuses to start it.
SpawnFails(c) ==
  /\ vpc[c] = "spawn" /\ FailClosed(c) /\ KeepProcess
  /\ \/ UNCHANGED budgetVars
     \/ /\ failedStarts' = failedStarts + 1 /\ unavailable' = TRUE
        /\ respawns' = IF failedStarts + 1 > MaxRespawns THEN MaxRespawns + 1 ELSE respawns

SpawnWorker(c) ==
  /\ vpc[c] = "spawn" /\ spawned < MaxSpawns
  /\ LET w == spawned + 1 IN
       /\ spawned' = w /\ proc' = w
       /\ alive' = [alive EXCEPT ![w] = TRUE]
       /\ reader' = [reader EXCEPT ![w] = NotYet]
       /\ stdin' = [stdin EXCEPT ![w] = Boot]
  /\ inbox' = <<>> /\ failedStarts' = 0 /\ To(c, "greet")
  /\ UNCHANGED <<verdict, answeredBy, admissionVars, respawns, unavailable, deaths, pipe,
                 greeted, resets>>

Arrived(kinds) == inbox # <<>> /\ Head(inbox).kind \in kinds

\* Lines that are no handshake are skipped.
GreetNoise(c) ==
  /\ vpc[c] = "greet" /\ Arrived({"answer"}) /\ Took
  /\ UNCHANGED <<callerVars, admissionVars, budgetVars, processVars, proc, greeted, resets>>

GreetAccepted(c) ==
  /\ vpc[c] = "greet" /\ Arrived({"hello"}) /\ Took
  /\ greeted' = TRUE /\ To(c, "write")
  /\ UNCHANGED <<verdict, answeredBy, admissionVars, budgetVars, processVars, proc, resets>>

\* A wrong version, identity, policy or dependency; or the startup budget is spent.
GreetRefused(c) ==
  /\ vpc[c] = "greet" /\ FailClosed(c) /\ CloseProcess
  /\ Budget(respawns, TRUE)

GreetEof(c) ==
  /\ vpc[c] = "greet" /\ Arrived({"eof"}) /\ FailClosed(c) /\ CloseProcess
  /\ Budget(respawns + 1, TRUE)

----------------------------------------------------------------------------
(* _request *)

\* stdin.write and flush: a frame that the pipe can hold is sent at once, a larger one keeps
\* the caller, and the lock, until the worker has read it.
SendRequest(c) ==
  /\ vpc[c] = "write"
  /\ \/ To(c, "await") /\ stdin' = [stdin EXCEPT ![proc] = c]
     \/ To(c, "blocked") /\ UNCHANGED stdin
  /\ UNCHANGED <<verdict, answeredBy, admissionVars, budgetVars, proc, greeted, inbox, alive,
                 pipe, reader, spawned, deaths, resets>>

BrokenPipe(c) ==
  /\ vpc[c] \in {"write", "blocked"} /\ ~alive[proc]
  /\ FailClosed(c) /\ KeepProcess /\ Budget(respawns, TRUE)

\* (mutant) the next line is taken for the answer
NextAnswer(c) == Arrived({"answer"})
OwnAnswer(c) == Arrived({"answer"}) /\ Head(inbox).claim = c

\* Scores meet the thresholds of the parent; an error frame fails closed.
Scored(c) ==
  /\ vpc[c] = "await" /\ OwnAnswer(c) /\ Took
  /\ Decide(c, "release", "SCORED")
  /\ answeredBy' = [answeredBy EXCEPT ![c] = Head(inbox).claim]
  /\ UNCHANGED <<admissionVars, budgetVars, processVars, proc, greeted, resets>>

\* Another request's line, or a line that cannot be read: the stream is not trusted.
Desync(c) ==
  /\ vpc[c] = "await" /\ Arrived({"answer", "hello"})
  /\ FailClosed(c) /\ CloseProcess /\ Budget(respawns, TRUE)

ReadEof(c) ==
  /\ vpc[c] = "await" /\ Arrived({"eof"}) /\ FailClosed(c)
  /\ Took /\ UNCHANGED <<proc, greeted, processVars>>
  /\ Budget(respawns + 1, TRUE)

FoundDead(c) ==
  /\ vpc[c] = "await" /\ inbox = <<>> /\ ~alive[proc]
  /\ FailClosed(c) /\ KeepProcess /\ Budget(respawns, TRUE)

\* (mutant) only a dead worker ends the wait
RequestTimeoutIfDead(c) ==
  /\ vpc[c] = "await" /\ ~alive[proc]
  /\ FailClosed(c) /\ CloseProcess /\ UNCHANGED budgetVars
\* The deadline: the hung worker is ended, the claim is not tried again.
RequestTimeout(c) ==
  /\ vpc[c] = "await" /\ FailClosed(c) /\ CloseProcess /\ UNCHANGED budgetVars

ResetVerifier ==
  /\ ~Locked /\ resets < MaxResets
  /\ CloseProcess /\ resets' = resets + 1
  /\ respawns' = 0 /\ failedStarts' = 0 /\ unavailable' = FALSE
  /\ UNCHANGED <<callerVars, admissionVars>>

----------------------------------------------------------------------------
(* The worker process and the reader threads *)

ClientAsIs == UNCHANGED <<callerVars, admissionVars, budgetVars, proc, greeted, resets>>

\* main: the handshake first, then one frame for each request.
WorkerWrites(w) ==
  /\ alive[w] /\ stdin[w] # NoClaim
  /\ pipe' = [pipe EXCEPT ![w] =
                Append(@, IF stdin[w] = Boot THEN Hello ELSE AnswerTo(stdin[w]))]
  /\ stdin' = [stdin EXCEPT ![w] = NoClaim]
  /\ UNCHANGED <<alive, reader, spawned, deaths, inbox>> /\ ClientAsIs

\* The worker, back in its loop, reads a frame that did not fit the pipe: the write returns.
WorkerReads(w) ==
  /\ alive[w] /\ w = proc /\ stdin[w] = NoClaim
  /\ \E c \in Claims :
       vpc[c] = "blocked" /\ To(c, "await") /\ stdin' = [stdin EXCEPT ![w] = c]
  /\ UNCHANGED <<verdict, answeredBy, admissionVars, budgetVars, proc, greeted, inbox, alive,
                 pipe, reader, spawned, deaths, resets>>

WorkerDies(w) ==
  /\ alive[w] /\ deaths < MaxDeaths /\ deaths' = deaths + 1
  /\ alive' = [alive EXCEPT ![w] = FALSE]
  /\ UNCHANGED <<pipe, stdin, reader, spawned, inbox>> /\ ClientAsIs

ReaderMoves(w, to) ==
  reader' = [reader EXCEPT ![w] = to] /\ UNCHANGED <<alive, stdin, spawned, deaths>> /\ ClientAsIs

\* The loop looks _process up again before every line.
ReaderTurns(w) ==
  /\ reader[w] \in {NotYet, Between}
  /\ ReaderMoves(w, IF proc # 0 THEN proc ELSE IF reader[w] = NotYet THEN 0 ELSE Ending)
  /\ UNCHANGED <<pipe, inbox>>

ReaderPosts(w) ==
  /\ reader[w] > 0 /\ pipe[reader[w]] # <<>>
  /\ inbox' = Append(inbox, Head(pipe[reader[w]]))
  /\ pipe' = [pipe EXCEPT ![reader[w]] = Tail(@)]
  /\ ReaderMoves(w, Between)

ReaderSeesEof(w) ==
  /\ reader[w] > 0 /\ pipe[reader[w]] = <<>> /\ ~alive[reader[w]]
  /\ ReaderMoves(w, Ending) /\ UNCHANGED <<pipe, inbox>>

\* The sentinel goes to whatever queue the client has now.
ReaderEnds(w) ==
  /\ reader[w] = Ending /\ inbox' = Append(inbox, Eof)
  /\ ReaderMoves(w, 0) /\ UNCHANGED pipe

----------------------------------------------------------------------------
VerifyStep(c) ==
  \/ Guarded(c) \/ Backpressure(c) \/ Register(c) \/ Admit(c) \/ AdmissionExpires(c)
  \/ EnsureWorker(c) \/ SpawnFails(c) \/ SpawnWorker(c)
  \/ GreetNoise(c) \/ GreetAccepted(c) \/ GreetRefused(c) \/ GreetEof(c)
  \/ SendRequest(c) \/ BrokenPipe(c) \/ Scored(c) \/ Desync(c) \/ ReadEof(c)
  \/ FoundDead(c) \/ RequestTimeout(c) \/ Release(c) \/ Deregister(c)

WorkerStep(w) ==
  \/ WorkerWrites(w) \/ WorkerReads(w) \/ WorkerDies(w)
  \/ ReaderTurns(w) \/ ReaderPosts(w) \/ ReaderSeesEof(w) \/ ReaderEnds(w)

VerifierNext ==
  (\E c \in Claims : VerifyStep(c)) \/ ResetVerifier \/ (\E w \in Workers : WorkerStep(w))

\* Fairness: a calling thread runs, and its deadlines pass; nothing makes a worker read.
VerifierSpec ==
  /\ VerifierInit /\ [][VerifierNext]_verifierVars
  /\ \A c \in Claims : WF_verifierVars(VerifyStep(c))
----------------------------------------------------------------------------
\* No claim is supported or contradicted by the answer to another claim, although a
\* reader thread that outlived its worker posts late lines in the next one's queue.
AnswerIsOwn ==
  \A c \in Claims : verdict[c] = "SCORED" => answeredBy[c] = c

\* "exactly ONE respawn after unexpected death; afterwards permanently unavailable until
\* reset()" (client.py:31, test_27b): the client is off for good only after a respawn.
RespawnedOnce == OffForGood /\ failedStarts = 0 /\ resets = 0 => spawned > 1

\* Every claim gets its verdict, also when the worker hangs, dies or cannot be started; only
\* a caller whose write a living worker never reads stays, and no other claim stays with it.
EveryClaimDecided ==
  \A c \in Claims :
    vpc[c] # "idle" ~> vpc[c] = "done" \/ [](vpc[c] = "blocked" /\ proc # 0 /\ alive[proc])

\* "remaining budget; hung workers are terminated; no silent retry"
\* (test_prod_verifier_02_sidecar_boundary.py:436): every claim is decided, hung worker or not.
HungWorkersEnd == \A c \in Claims : vpc[c] # "idle" ~> vpc[c] = "done"
=============================================================================
