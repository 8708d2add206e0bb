--------------------------- MODULE WorkspaceProofs ---------------------------
(***************************************************************************)
(* TLAPS proofs about the parts a user's session meets: the desktop shell   *)
(* and its backend process, the claim verifier, the lookup of evidence, the *)
(* streamed answer and the stored chat.  For every process, claim, page,    *)
(* request and bound.                                                       *)
(***************************************************************************)
EXTENDS VerifierWorker, DesktopShell, Observation, ChatStream, ChatStore,
        FiniteSetTheorems, SequenceTheorems, TLAPS

-----------------------------------------------------------------------------
(* The desktop shell and the process it launches.                           *)

\* What the job object holds is the child the shell still looks after, and it runs; outside
\* a launch and a running application it holds nothing.
JobInv ==
  /\ \A p \in job : p = child /\ process[p] # "none"
  /\ launch \in {"off", "clear", "owned", "draining", "reused", "refused"} => job = {}

ShellInv == ShellTypeOK /\ JobInv

LEMMA ShellInitially == ShellInit => ShellInv
<1> SUFFICES ASSUME ShellInit PROVE ShellInv OBVIOUS
<1>1. 0 \in 0..MaxStarts BY ShellAssumption
<1>2. ShellTypeOK
  BY <1>1, Zenon DEF ShellInit, ShellTypeOK, BackendStateFiles, JobObjects
<1>3. JobInv BY DEF ShellInit, JobInv
<1> QED BY <1>2, <1>3 DEF ShellInv

\* Ending processes takes them out of the job.
LEMMA KilledJob ==
  ASSUME ShellInv, NEW S, Killed(S)
  PROVE  /\ process' \in [Pids -> {"none", "stranger"} \union Backends]
         /\ port' \in Pids \union {NoPid} /\ job' \in SUBSET Pids
         /\ job' \subseteq job
         /\ \A p \in job' : process'[p] # "none"
BY DEF ShellInv, ShellTypeOK, JobObjects, JobInv, Killed

LEMMA BackendStepKeeps ==
  ASSUME ShellInv, NEW p \in Pids,
         \/ Bind(p) \/ WriteRecord(p) \/ ServeForever(p) \/ Stops(p)
         \/ Stranger(p) \/ DevStart(p)
  PROVE  ShellInv'
<1> USE DEF ShellInv, ShellTypeOK, BackendStateFiles, JobObjects, Backends
<1>1. CASE Bind(p)
  <2>1. CASE port = NoPid BY <1>1, <2>1 DEF Bind, ofShell, JobInv
  <2>2. CASE port # NoPid BY <1>1, <2>2, KilledJob DEF Bind, ofShell, JobInv
  <2> QED BY <2>1, <2>2
<1>2. CASE WriteRecord(p) BY <1>2 DEF WriteRecord, ofShell, JobInv
<1>3. CASE ServeForever(p) BY <1>3 DEF ServeForever, ofShell, JobInv
<1>4. CASE Stops(p) BY <1>4, KilledJob DEF Stops, ofShell, JobInv
<1>5. CASE Stranger(p)
  <2>1. starts' \in 0..MaxStarts BY <1>5, ShellAssumption DEF Stranger
  <2> QED BY <1>5, <2>1 DEF Stranger, ofShell, JobInv
<1>6. CASE DevStart(p)
  <2>1. starts' \in 0..MaxStarts BY <1>6, ShellAssumption DEF DevStart
  <2> QED BY <1>6, <2>1 DEF DevStart, ofShell, JobInv
<1> QED BY <1>1, <1>2, <1>3, <1>4, <1>5, <1>6

LEMMA LaunchStepKeeps == ShellInv /\ (Look \/ LaunchStep) => ShellInv'
<1> SUFFICES ASSUME ShellInv, Look \/ LaunchStep PROVE ShellInv' OBVIOUS
<1> USE DEF ShellInv, ShellTypeOK, BackendStateFiles, JobObjects, Backends, atBackend
<1>1. CASE Look BY <1>1 DEF Look, JobInv
<1>2. CASE Reuse BY <1>2 DEF Reuse, JobInv
<1>3. CASE Recycle BY <1>3, KilledJob DEF Recycle, JobInv
<1>4. CASE Spawn BY <1>4 DEF Spawn, JobInv
<1>5. CASE ReadFrame BY <1>5 DEF ReadFrame, JobInv
<1>6. CASE ReadEnd BY <1>6 DEF ReadEnd, JobInv
<1>7. CASE Healthy BY <1>7 DEF Healthy, JobInv
<1>8. CASE HealthTimeout
  <2>1. job' = {} BY <1>8 DEF HealthTimeout, Killed
  <2> QED BY <1>8, <2>1, KilledJob DEF HealthTimeout, JobInv
<1> QED BY <1>1, <1>2, <1>3, <1>4, <1>5, <1>6, <1>7, <1>8 DEF LaunchStep

LEMMA EndStepKeeps == ShellInv /\ (ShellEnds \/ DevStopTree \/ DevKilled) => ShellInv'
<1> SUFFICES ASSUME ShellInv, ShellEnds \/ DevStopTree \/ DevKilled PROVE ShellInv' OBVIOUS
<1> USE DEF ShellInv, ShellTypeOK, BackendStateFiles, JobObjects
<1>1. CASE ShellEnds
  <2>1. job' = {} BY <1>1 DEF ShellEnds, Killed
  <2> QED BY <1>1, <2>1, KilledJob DEF ShellEnds, JobInv
<1>2. CASE DevStopTree BY <1>2, KilledJob DEF DevStopTree, ofShell, JobInv
<1>3. CASE DevKilled BY <1>3 DEF DevKilled, ofShell, JobInv
<1> QED BY <1>1, <1>2, <1>3

\* Requests and dialogs touch neither processes nor the job.
LEMMA RequestStepKeeps ==
  ASSUME ShellInv,
         \/ NoticeExit \/ \E x \in Proxied : ApiRequest(x[1], x[2])
         \/ ReviewShown \/ ReviewAnswered \/ DecidedElsewhere
  PROVE  ShellInv'
<1> USE DEF ShellInv, ShellTypeOK, BackendStateFiles, JobObjects, atBackend, ofShell
<1>1. CASE NoticeExit BY <1>1 DEF NoticeExit, JobInv
<1>2. CASE \E x \in Proxied : ApiRequest(x[1], x[2]) BY <1>2 DEF ApiRequest, JobInv
<1>3. CASE ReviewShown BY <1>3 DEF ReviewShown, JobInv
<1>4. CASE ReviewAnswered BY <1>4 DEF ReviewAnswered, JobInv
<1>5. CASE DecidedElsewhere BY <1>5 DEF DecidedElsewhere, JobInv
<1> QED BY <1>1, <1>2, <1>3, <1>4, <1>5

LEMMA ShellStep == ShellInv /\ [ShellNext]_shellVars => ShellInv'
<1> SUFFICES ASSUME ShellInv, [ShellNext]_shellVars PROVE ShellInv' OBVIOUS
<1>1. CASE UNCHANGED shellVars
  BY <1>1 DEF shellVars, ShellInv, ShellTypeOK, JobInv
<1> QED
  BY <1>1, BackendStepKeeps, LaunchStepKeeps, EndStepKeeps, RequestStepKeeps
  DEF ShellNext, BackendStep

\* The invariant holds of every reachable state.
THEOREM ShellInvariance == ShellSpec => []ShellInv
<1> QED BY ShellInitially, ShellStep, PTL DEF ShellSpec

\* The shell, its processes and its job keep their types.
THEOREM ShellTypeCorrect == ShellSpec => []ShellTypeOK
<1>1. ShellInv => ShellTypeOK BY DEF ShellInv
<1> QED BY <1>1, ShellInvariance, PTL

\* No backend in the job outlives the shell's interest in it, however launches, exits,
\* crashes, strangers and the developer's script interleave.
THEOREM NoStrayTheorem == ShellSpec => []NoStrayBackend
<1>1. ShellInv => NoStrayBackend BY DEF ShellInv, JobInv, NoStrayBackend
<1> QED BY <1>1, ShellInvariance, PTL

-----------------------------------------------------------------------------
(* The claim verifier: admission to the one worker, and whose answer it is. *)

Asking == {"ensure", "spawn", "greet", "write", "blocked", "await", "release"}
Queued == Asking \cup {"waiting", "deregister"}
Decided == {"release", "deregister", "done"}
Verdicts == {"NONE", "CLOSED", "SCORED"}

\* The semaphore's owner is the one thread past admission, and no verdict is given before
\* its time or twice.
AdmissionInv ==
  /\ vpc \in [Claims -> Queued \cup {"idle", "done"}]
  /\ verdict \in [Claims -> Verdicts]
  /\ answeredBy \in [Claims -> Claims \cup {NoClaim}]
  /\ \A c \in Claims : vpc[c] \in Asking <=> holder = c
  /\ \A c \in Claims : verdict[c] # "NONE" <=> vpc[c] \in Decided

\* Every thread between its registration and its leave is counted.
Waiting == {c \in Claims : vpc[c] \in Queued}
WaitersInv ==
  /\ IsFiniteSet(Waiting) /\ Cardinality(Waiting) = waiters
  /\ waiters \in 0..MaxWaiters

VerifierInv == AdmissionInv /\ WaitersInv /\ AnswerIsOwn

LEMMA VerifierInitially == VerifierInit => VerifierInv
<1> SUFFICES ASSUME VerifierInit PROVE VerifierInv OBVIOUS
<1>1. AdmissionInv
  BY VerifierAssumption DEF VerifierInit, AdmissionInv, Asking, Queued, Decided, Verdicts
<1>2. Waiting = {} BY DEF VerifierInit, Waiting, Queued, Asking
<1>3. WaitersInv
  BY <1>2, FS_EmptySet, VerifierAssumption DEF VerifierInit, WaitersInv
<1>4. AnswerIsOwn BY DEF VerifierInit, AnswerIsOwn
<1> QED BY <1>1, <1>3, <1>4 DEF VerifierInv

\* A thread that moves on without joining or leaving the queue leaves the count as it is.
LEMMA CountStays ==
  ASSUME WaitersInv, AdmissionInv, NEW c \in Claims, NEW pc, To(c, pc),
         vpc[c] \in Queued <=> pc \in Queued, UNCHANGED waiters
  PROVE  WaitersInv'
<1>1. Waiting' = Waiting BY DEF Waiting, To, AdmissionInv
<1> QED BY <1>1 DEF WaitersInv

\* The owner goes on to its next step.
LEMMA OwnerGoesOn ==
  ASSUME VerifierInv, NEW c \in Claims, vpc[c] \in Asking \ {"release"},
         NEW pc \in Asking \ {"release"}, To(c, pc),
         UNCHANGED <<verdict, answeredBy, admissionVars>>
  PROVE  VerifierInv'
<1>1. AdmissionInv'
  BY DEF VerifierInv, AdmissionInv, To, Asking, Queued, Decided, admissionVars
<1>2. WaitersInv' BY CountStays DEF VerifierInv, Queued, admissionVars
<1> QED BY <1>1, <1>2 DEF VerifierInv, AnswerIsOwn

\* The owner is done with the worker: its verdict is closed, or its own claim's scores.
LEMMA OwnerDecides ==
  ASSUME VerifierInv, NEW c \in Claims, vpc[c] \in Asking \ {"release"},
         NEW v \in Verdicts \ {"NONE"}, Decide(c, "release", v), UNCHANGED admissionVars,
         \/ v = "CLOSED" /\ UNCHANGED answeredBy
         \/ v = "SCORED" /\ answeredBy' = [answeredBy EXCEPT ![c] = c]
  PROVE  VerifierInv'
<1>1. AdmissionInv'
  BY DEF VerifierInv, AdmissionInv, Decide, To, Asking, Queued, Decided, Verdicts, admissionVars
<1>2. WaitersInv' BY CountStays DEF VerifierInv, Decide, Asking, Queued, admissionVars
<1>3. AnswerIsOwn'
  BY DEF VerifierInv, AdmissionInv, AnswerIsOwn, Decide, Verdicts
<1> QED BY <1>1, <1>2, <1>3 DEF VerifierInv

LEMMA ClosedByOwner ==
  ASSUME VerifierInv, NEW c \in Claims, vpc[c] \in Asking \ {"release"}, FailClosed(c)
  PROVE  VerifierInv'
BY OwnerDecides DEF FailClosed, Verdicts

\* A thread that never asks the worker: a guard or the full queue answers, or its time runs out.
LEMMA TurnedAway ==
  ASSUME VerifierInv, NEW c \in Claims, Guarded(c) \/ Backpressure(c) \/ AdmissionExpires(c)
  PROVE  VerifierInv'
<1>1. AdmissionInv'
  BY DEF VerifierInv, AdmissionInv, Guarded, Backpressure, AdmissionExpires, Decide, To, Asking,
         Queued, Decided, Verdicts, admissionVars
<1>2. WaitersInv'
  BY CountStays
  DEF VerifierInv, Guarded, Backpressure, AdmissionExpires, Decide, Asking, Queued, admissionVars
<1>3. AnswerIsOwn'
  BY DEF VerifierInv, AdmissionInv, AnswerIsOwn, Guarded, Backpressure, AdmissionExpires, Decide
<1> QED BY <1>1, <1>2, <1>3 DEF VerifierInv

LEMMA AdmitOrRelease ==
  ASSUME VerifierInv, NEW c \in Claims, Admit(c) \/ Release(c)
  PROVE  VerifierInv'
<1>1. AdmissionInv'
  BY VerifierAssumption
  DEF VerifierInv, AdmissionInv, Admit, Release, To, Asking, Queued, Decided
<1>2. WaitersInv' BY CountStays DEF VerifierInv, Admit, Release, Asking, Queued
<1> QED BY <1>1, <1>2 DEF VerifierInv, AnswerIsOwn, Admit, Release

LEMMA RegisterCounts ==
  ASSUME VerifierInv, NEW c \in Claims, Register(c)
  PROVE  VerifierInv'
<1>1. AdmissionInv'
  BY DEF VerifierInv, AdmissionInv, Register, To, Asking, Queued, Decided
<1>2. c \notin Waiting /\ Waiting' = Waiting \cup {c}
  BY DEF VerifierInv, AdmissionInv, Register, To, Waiting, Asking, Queued
<1>3. WaitersInv'
  BY <1>2, FS_AddElement, VerifierAssumption DEF VerifierInv, WaitersInv, Register
<1> QED BY <1>1, <1>3 DEF VerifierInv, AnswerIsOwn, Register

LEMMA DeregisterCounts ==
  ASSUME VerifierInv, NEW c \in Claims, Deregister(c)
  PROVE  VerifierInv'
<1>1. AdmissionInv'
  BY DEF VerifierInv, AdmissionInv, Deregister, To, Asking, Queued, Decided
<1>2. c \in Waiting /\ Waiting' = Waiting \ {c}
  BY DEF VerifierInv, AdmissionInv, Deregister, To, Waiting, Asking, Queued
<1>3. IsFiniteSet(Waiting') /\ Cardinality(Waiting') = waiters - 1
  BY <1>2, FS_RemoveElement DEF VerifierInv, WaitersInv
<1>4. Cardinality(Waiting') \in Nat BY <1>3, FS_CardinalityType
<1>5. WaitersInv'
  BY <1>3, <1>4, VerifierAssumption DEF VerifierInv, WaitersInv, Deregister
<1> QED BY <1>1, <1>5 DEF VerifierInv, AnswerIsOwn, Deregister

LEMMA OwnerStep ==
  ASSUME VerifierInv, NEW c \in Claims,
         \/ EnsureWorker(c) \/ SpawnFails(c) \/ SpawnWorker(c)
         \/ GreetNoise(c) \/ GreetAccepted(c) \/ GreetRefused(c) \/ GreetEof(c)
         \/ SendRequest(c) \/ BrokenPipe(c) \/ Scored(c) \/ Desync(c) \/ ReadEof(c)
         \/ FoundDead(c) \/ RequestTimeout(c)
  PROVE  VerifierInv'
<1>1. CASE EnsureWorker(c)
  <2>1. vpc[c] \in Asking \ {"release"} BY <1>1 DEF EnsureWorker, Asking
  <2>2. CASE FailClosed(c) BY <2>1, <2>2, ClosedByOwner
  <2>3. CASE /\ To(c, "write") \/ To(c, "spawn")
             /\ UNCHANGED <<verdict, answeredBy, admissionVars>>
    BY <2>1, <2>3, OwnerGoesOn DEF Asking
  <2> QED BY <1>1, <2>2, <2>3, Zenon DEF EnsureWorker
<1>2. CASE SpawnWorker(c) \/ GreetAccepted(c) \/ SendRequest(c)
  <2>1. vpc[c] \in Asking \ {"release"}
    BY <1>2 DEF SpawnWorker, GreetAccepted, SendRequest, Asking
  <2>2. /\ \/ To(c, "greet") \/ To(c, "write") \/ To(c, "blocked") \/ To(c, "await")
        /\ UNCHANGED <<verdict, answeredBy, admissionVars>>
    BY <1>2 DEF SpawnWorker, GreetAccepted, SendRequest
  <2> QED BY <2>1, <2>2, OwnerGoesOn DEF Asking
<1>3. CASE GreetNoise(c)
  BY <1>3 DEF GreetNoise, callerVars, admissionVars, VerifierInv, AdmissionInv, WaitersInv,
              Waiting, AnswerIsOwn
<1>4. CASE Scored(c)
  <2>1. vpc[c] \in Asking \ {"release"} BY <1>4 DEF Scored, Asking
  <2>2. Decide(c, "release", "SCORED") /\ answeredBy' = [answeredBy EXCEPT ![c] = c]
    BY <1>4 DEF Scored, OwnAnswer
  <2> QED BY <2>1, <2>2, <1>4, OwnerDecides DEF Verdicts, Scored
<1>5. CASE \/ SpawnFails(c) \/ GreetRefused(c) \/ GreetEof(c) \/ BrokenPipe(c) \/ Desync(c)
           \/ ReadEof(c) \/ FoundDead(c) \/ RequestTimeout(c)
  <2>1. vpc[c] \in Asking \ {"release"} /\ FailClosed(c)
    BY <1>5 DEF SpawnFails, GreetRefused, GreetEof, BrokenPipe, Desync, ReadEof, FoundDead,
                RequestTimeout, Asking
  <2> QED BY <2>1, ClosedByOwner
<1> QED BY <1>1, <1>2, <1>3, <1>4, <1>5

\* A write that was blocked returns when the worker has read the frame.
LEMMA WriteReturns ==
  ASSUME VerifierInv, NEW w \in Workers, WorkerReads(w) PROVE VerifierInv'
<1>1. PICK c \in Claims : vpc[c] = "blocked" /\ To(c, "await") BY DEF WorkerReads
<1>2. UNCHANGED <<verdict, answeredBy, admissionVars>> BY DEF WorkerReads
<1> QED BY <1>1, <1>2, OwnerGoesOn DEF Asking

\* Otherwise the worker, the reader threads and a reset leave the callers as they are.
LEMMA CallersAlone ==
  ASSUME VerifierInv,
         ResetVerifier \/ (\E w \in Workers : WorkerStep(w)) \/ UNCHANGED verifierVars,
         \A w \in Workers : ~WorkerReads(w)
  PROVE  VerifierInv'
<1>1. UNCHANGED <<callerVars, admissionVars>>
  BY DEF ResetVerifier, WorkerStep, WorkerWrites, WorkerDies, ReaderTurns, ReaderPosts,
         ReaderSeesEof, ReaderEnds, ReaderMoves, ClientAsIs, verifierVars
<1> QED
  BY <1>1 DEF callerVars, admissionVars, VerifierInv, AdmissionInv, WaitersInv, Waiting,
              AnswerIsOwn

LEMMA VerifierStepKeeps == VerifierInv /\ [VerifierNext]_verifierVars => VerifierInv'
<1> SUFFICES ASSUME VerifierInv, [VerifierNext]_verifierVars PROVE VerifierInv' OBVIOUS
<1>1. ASSUME NEW c \in Claims, VerifyStep(c) PROVE VerifierInv'
  BY <1>1, TurnedAway, AdmitOrRelease, RegisterCounts, DeregisterCounts, OwnerStep
  DEF VerifyStep
<1> QED BY <1>1, CallersAlone, WriteReturns DEF VerifierNext

\* The invariant holds of every reachable state.
THEOREM VerifierInvariance == VerifierSpec => []VerifierInv
<1> QED BY VerifierInitially, VerifierStepKeeps, PTL DEF VerifierSpec

\* No claim is scored by the answer to another claim, for any number of claims, workers,
\* deaths and resets (client.py, _request: a line of another request fails closed).
THEOREM AnswerTheorem == VerifierSpec => []AnswerIsOwn
<1>1. VerifierInv => AnswerIsOwn BY DEF VerifierInv
<1> QED BY <1>1, VerifierInvariance, PTL

\* At most MAX_WAITERS threads are between registration and leave, and of them at most one
\* works with the worker process (client.py, verify_claim: admission).
THEOREM AdmissionTheorem ==
  VerifierSpec => [](/\ Cardinality(Waiting) <= MaxWaiters
                     /\ \A c, d \in Claims : vpc[c] \in Asking /\ vpc[d] \in Asking => c = d)
<1>1. VerifierInv => /\ Cardinality(Waiting) <= MaxWaiters
                     /\ \A c, d \in Claims : vpc[c] \in Asking /\ vpc[d] \in Asking => c = d
  BY VerifierAssumption DEF VerifierInv, AdmissionInv, WaitersInv
<1> QED BY <1>1, VerifierInvariance, PTL

-----------------------------------------------------------------------------
(* Looking things up, and what the records are evidence of.                 *)

\* A page is being fetched along allowed pages, none of them twice, and only while there is
\* no bundle; a record of a page's content or metadata names an allowed page.
FetchInv ==
  fetch # NoFetch =>
    /\ fetch.cap \in {"read_page", "analyze_url", "read_forum_thread"}
    /\ fetch.product \in Products
    /\ Len(fetch.gets) \in 1..(MaxRedirects + 1)
    /\ \A i \in DOMAIN fetch.gets : fetch.gets[i] \in Admitted(fetch.cap)
    /\ \A i, j \in DOMAIN fetch.gets : i # j => fetch.gets[i] # fetch.gets[j]

ReadWhereAllowed ==
  \A i \in DOMAIN observed :
    observed[i].cap \in {"read_page", "analyze_url"} => observed[i].source \in AllowedPages

RecordsInv ==
  /\ subject \in SubjectIdentities /\ fetch \in PageFetches
  /\ observed \in Seq(ObservationRecords)
  /\ bundle # NoBundle => fetch = NoFetch

ObservationInv ==
  RecordsInv /\ FetchInv /\ ReadWhereAllowed /\ GroundingIsEarned
    /\ (bundle = NoBundle \/ IsGrounding(bundle))

LEMMA NoFetchTyped == NoFetch \in PageFetches
<1>1. <<>> \in Seq(Pages) BY EmptySeq
<1> QED BY <1>1 DEF NoFetch, PageFetches

LEMMA ObservationInitially == ObservationInit => ObservationInv
<1> SUFFICES ASSUME ObservationInit PROVE ObservationInv OBVIOUS
<1>1. observed \in Seq(ObservationRecords) /\ DOMAIN observed = {}
  BY EmptySeq DEF ObservationInit
<1> QED
  BY <1>1, NoFetchTyped
  DEF ObservationInit, ObservationInv, RecordsInv, FetchInv, ReadWhereAllowed, GroundingIsEarned

-----------------------------------------------------------------------------
(* The steps that look something up leave no bundle behind.                 *)

LEMMA RecordKeeps ==
  ASSUME ObservationInv, bundle = NoBundle, UNCHANGED <<subject, bundle>>,
         fetch' = NoFetch,
         NEW cap, NEW source, NEW product, Record(cap, source, product),
         [cap |-> cap, source |-> source, product |-> product] \in ObservationRecords,
         cap \in {"read_page", "analyze_url"} => source \in AllowedPages
  PROVE  ObservationInv'
<1> DEFINE o == [cap |-> cap, source |-> source, product |-> product]
<1>1. /\ observed' \in Seq(ObservationRecords)
      /\ DOMAIN observed' = 1..(Len(observed) + 1)
      /\ \A i \in 1..Len(observed) : observed'[i] = observed[i]
      /\ observed'[Len(observed) + 1] = o
  BY AppendProperties DEF ObservationInv, RecordsInv, Record
<1>2. ReadWhereAllowed'
  <2> SUFFICES ASSUME NEW i \in DOMAIN observed',
                      observed'[i].cap \in {"read_page", "analyze_url"}
               PROVE  observed'[i].source \in AllowedPages
    BY DEF ReadWhereAllowed
  <2>1. CASE i = Len(observed) + 1 BY <1>1, <2>1
  <2>2. CASE i \in 1..Len(observed)
    BY <1>1, <2>2 DEF ObservationInv, RecordsInv, ReadWhereAllowed
  <2>3. Len(observed) \in Nat BY DEF ObservationInv, RecordsInv
  <2> QED BY <1>1, <2>1, <2>2, <2>3
<1>3. RecordsInv' BY <1>1, NoFetchTyped DEF ObservationInv, RecordsInv
<1>4. FetchInv' BY DEF FetchInv
<1> QED BY <1>2, <1>3, <1>4 DEF ObservationInv, GroundingIsEarned, NoBundle

LEMMA ObserveKeeps ==
  ASSUME ObservationInv, NEW cap, NEW source, NEW product \in Products,
         cap \in {"search_web", "youtube_metadata", "read_transcript", "read_forum_thread",
                  "search_public_discussions"},
         source \in Pages \cup {Query, Threads, Nowhere},
         Observe(cap, source, product)
  PROVE  ObservationInv'
<1>1. [cap |-> cap, source |-> source, product |-> product] \in ObservationRecords
  BY DEF ObservationRecords, Products, Query, Threads, Nowhere
<1> QED BY <1>1, RecordKeeps DEF Observe, Dispatches

LEMMA SearchWebKeeps ==
  ASSUME ObservationInv, NEW product \in Products, SearchWeb(product) PROVE ObservationInv'
<1>1. Searched \subseteq {Query, "error", Nowhere} BY DEF Searched, SearchSource
<1> QED BY <1>1, ObserveKeeps DEF SearchWeb

\* A fetch that starts, goes on or fails records nothing.
LEMMA FetchKeeps ==
  ASSUME ObservationInv, bundle = NoBundle, UNCHANGED <<subject, observed, bundle>>,
         fetch' \in PageFetches, FetchInv'
  PROVE  ObservationInv'
BY DEF ObservationInv, RecordsInv, ReadWhereAllowed, GroundingIsEarned, NoBundle

LEMMA StartFetchKeeps ==
  ASSUME ObservationInv, NEW product \in Products, NEW p \in Pages, StartFetch(p, product)
  PROVE  ObservationInv'
<1>1. PICK cap \in {"read_page", "analyze_url", "read_forum_thread"} :
        p \in Admitted(cap) /\ fetch' = [cap |-> cap, gets |-> <<p>>, product |-> product]
  BY DEF StartFetch
<1>2. fetch' \in PageFetches BY <1>1 DEF PageFetches, Products
<1>3. FetchInv' BY <1>1, ObservationAssumption DEF FetchInv, Admitted
<1> QED BY <1>2, <1>3, FetchKeeps DEF StartFetch, Dispatches

LEMMA RedirectedKeeps ==
  ASSUME ObservationInv, NEW target \in Pages, Redirected(target) PROVE ObservationInv'
<1> DEFINE gets == Append(fetch.gets, target)
<1>1. CASE fetch' = NoFetch
  BY <1>1, NoFetchTyped, FetchKeeps DEF Redirected, ObservationInv, RecordsInv, FetchInv
<1>2. CASE /\ Len(fetch.gets) <= MaxRedirects
           /\ target \notin Visited(fetch.gets) /\ target \in Admitted(fetch.cap)
           /\ fetch' = [fetch EXCEPT !.gets = Append(@, target)]
  <2>1. fetch \in [cap : {"none", "read_page", "analyze_url", "read_forum_thread"},
                   gets : Seq(Pages), product : {"own", "other", "none"}]
    BY DEF ObservationInv, RecordsInv, PageFetches
  <2>2. /\ gets \in Seq(Pages) /\ Len(gets) = Len(fetch.gets) + 1
        /\ \A i \in 1..Len(fetch.gets) : gets[i] = fetch.gets[i]
        /\ gets[Len(fetch.gets) + 1] = target
    BY <2>1, AppendProperties
  <2>3. fetch' = [cap |-> fetch.cap, gets |-> gets, product |-> fetch.product]
    BY <1>2, <2>1
  <2>4. fetch' \in PageFetches BY <2>1, <2>2, <2>3 DEF PageFetches
  <2>5. FetchInv'
    <3> HIDE DEF gets
    <3>1. /\ Len(fetch.gets) \in 1..(MaxRedirects + 1)
          /\ fetch.cap \in {"read_page", "analyze_url", "read_forum_thread"}
          /\ fetch.product \in Products
          /\ \A i \in 1..Len(fetch.gets) : fetch.gets[i] \in Admitted(fetch.cap)
          /\ \A i, j \in 1..Len(fetch.gets) : i # j => fetch.gets[i] # fetch.gets[j]
      BY <2>1 DEF ObservationInv, FetchInv, Redirected
    <3>2. \A i \in 1..Len(fetch.gets) : fetch.gets[i] # target
      BY <1>2, <2>1 DEF Visited
    <3>3. DOMAIN gets = 1..(Len(fetch.gets) + 1) BY <2>2
    <3>4. \A i \in DOMAIN gets : gets[i] \in Admitted(fetch.cap)
      BY <1>2, <2>2, <3>1, <3>3
    <3>5. ASSUME NEW i \in DOMAIN gets, NEW j \in DOMAIN gets, i # j PROVE gets[i] # gets[j]
      BY <2>2, <3>1, <3>2, <3>3, <3>5
    <3>6. Len(gets) \in 1..(MaxRedirects + 1)
      BY <1>2, <2>2, <3>1, ObservationAssumption
    <3> QED BY <2>3, <3>1, <3>4, <3>5, <3>6 DEF FetchInv, Admitted
  <2> QED
    BY <2>4, <2>5, FetchKeeps DEF Redirected, ObservationInv, RecordsInv
<1> QED BY <1>1, <1>2 DEF Redirected

LEMMA FetchedKeeps ==
  ASSUME ObservationInv, Fetched PROVE ObservationInv'
<1> DEFINE source == fetch.gets[IF fetch.cap = "read_forum_thread" THEN 1 ELSE Len(fetch.gets)]
<1>1. bundle = NoBundle /\ fetch # NoFetch BY DEF ObservationInv, RecordsInv, Fetched
<1>2. /\ fetch.gets \in Seq(Pages) /\ Len(fetch.gets) >= 1
      /\ fetch.cap \in {"read_page", "analyze_url", "read_forum_thread"}
      /\ fetch.product \in Products
      /\ \A i \in DOMAIN fetch.gets : fetch.gets[i] \in Admitted(fetch.cap)
  BY <1>1 DEF ObservationInv, RecordsInv, PageFetches, FetchInv
<1>3. source \in Pages /\ source \in Admitted(fetch.cap) BY <1>2
<1>4. fetch.cap \in {"read_page", "analyze_url"} => source \in AllowedPages
  BY <1>3 DEF Admitted
<1>5. [cap |-> fetch.cap, source |-> source, product |-> fetch.product] \in ObservationRecords
  BY <1>2, <1>3 DEF ObservationRecords, Products
<1> QED BY <1>1, <1>4, <1>5, RecordKeeps DEF Fetched

-----------------------------------------------------------------------------
(* What grounding concludes.                                                *)

\* With both names given, an item that counts is of a record that names the subject.
LEMMA EligibleIsOnSubject ==
  ASSUME subject = "IDENTIFIED", NEW o, Eligible(o) PROVE OnSubject(o)
BY DEF Eligible, Relevance, Fields, OnSubject, Anchors

LEMMA RecordsFinite == ASSUME ObservationInv PROVE IsFiniteSet(DOMAIN observed)
<1>1. Len(observed) \in Nat /\ DOMAIN observed = 1..Len(observed)
  BY DEF ObservationInv, RecordsInv
<1> QED BY <1>1, FS_Interval

\* What grounding says of itself is typed.
LEMMA GroundingTyped ==
  ASSUME NEW items \in SUBSET DOMAIN observed, NEW disputed \in SUBSET items
  PROVE  /\ IsGrounding(Grounding(items, disputed))
         /\ Grounding(items, disputed).settled \cap disputed = {}
<1>1. {Coverage(items), Coherence(items)} \subseteq {"PASS", "PARTIAL", "FAIL"}
  BY DEF Coverage, Coherence
<1>2. Settled(items, disputed) \subseteq items \ disputed BY DEF Settled
<1> QED BY <1>1, <1>2 DEF IsGrounding, Grounding

\* What supports a dimension of a subject with both names lies in every set that holds the
\* items on the subject that suit the dimension: that set has two.
LEMMA SupportedByTwo ==
  ASSUME ObservationInv, subject = "IDENTIFIED", NEW items \in SUBSET DOMAIN observed,
         NEW dim, NEW strong \in SUBSET items,
         \A i \in items : OnSubject(observed[i]) /\ Suits(observed[i], dim) => i \in strong,
         DimensionCoverage(Cardinality(Support(items, dim))) = "SUPPORTED"
  PROVE  Cardinality(strong) >= 2
<1>1. Support(items, dim) \subseteq strong BY EligibleIsOnSubject DEF Support
<1>2. IsFiniteSet(strong) BY RecordsFinite, FS_Subset
<1>3. /\ Cardinality(Support(items, dim)) <= Cardinality(strong)
      /\ Cardinality(Support(items, dim)) \in Nat /\ Cardinality(strong) \in Nat
  BY <1>1, <1>2, FS_Subset, FS_CardinalityType
<1>4. Cardinality(Support(items, dim)) >= 2 BY <1>3 DEF DimensionCoverage
<1> QED BY <1>3, <1>4

\* The market's view rests on pages, friction on content, reception on the community.
LEMMA SuitedRecords ==
  ASSUME ObservationInv, NEW i \in DOMAIN observed
  PROVE  /\ Suits(observed[i], "MARKET_POSITIONING") => observed[i].source \in Pages
         /\ Suits(observed[i], "OPERATIONAL_FRICTION") => Speaks(observed[i]) # {}
         /\ Suits(observed[i], "DEVELOPER_RECEPTION") => observed[i].cap \in Discussions
<1>1. observed[i] \in ObservationRecords BY DEF ObservationInv, RecordsInv
<1>2. observed[i].cap \in {"read_page", "analyze_url"} => observed[i].source \in Pages
  BY ObservationAssumption DEF ObservationInv, ReadWhereAllowed
<1>3. Suits(observed[i], "MARKET_POSITIONING") => observed[i].source \in Pages
  BY <1>2 DEF Suits, Role
<1>4. Suits(observed[i], "OPERATIONAL_FRICTION") => Speaks(observed[i]) # {}
  BY DEF Suits
<1>5. Suits(observed[i], "DEVELOPER_RECEPTION") => observed[i].cap \in Discussions
  BY <1>1 DEF Suits, Role, Discussions, ObservationRecords
<1> QED BY <1>3, <1>4, <1>5

\* Coverage passes only with an item on the subject for every family that was asked for.
LEMMA PassedByEach ==
  ASSUME subject = "IDENTIFIED", NEW items, Coverage(items) = "PASS", NEW f \in Requested
  PROVE  \E i \in items : Family(observed[i]) = f /\ OnSubject(observed[i])
<1>1. f \in Collected(items) BY DEF Coverage
<1>2. PICK i \in items : Eligible(observed[i]) /\ Family(observed[i]) = f
  BY <1>1 DEF Collected
<1> QED BY <1>2, EligibleIsOnSubject

\* A bundle of records of one product earns what its grounding says, provided that without
\* an identity it is the PARTIAL one that knows nothing.
LEMMA GroundedEarns ==
  ASSUME ObservationInv, NEW items \in SUBSET DOMAIN observed, NEW disputed \in SUBSET items,
         fetch = NoFetch, UNCHANGED <<subject, fetch, observed>>,
         bundle' = Grounding(items, disputed), OneProduct(items),
         subject = "NAMELESS" => /\ Settled(items, disputed) = {} /\ Gaps(items) = Dimensions
                                 /\ Coherence(items) = "PARTIAL"
  PROVE  ObservationInv'
<1> DEFINE b == Grounding(items, disputed)
<1>1. /\ b.items = items /\ b.disputed = disputed /\ b.coverage = Coverage(items)
      /\ b.coherence = Coherence(items) /\ b.gaps = Gaps(items)
      /\ b.settled = Settled(items, disputed)
      /\ \A dim \in Dimensions :
           b.dimensions[dim] = DimensionCoverage(Cardinality(Support(items, dim)))
  BY DEF Grounding
<1>2. IsGrounding(b) /\ b.settled \cap b.disputed = {} BY <1>1, GroundingTyped
<1> HIDE DEF b
<1> DEFINE about == {i \in items : OnSubject(observed[i])}
           pages == {i \in about : observed[i].source \in Pages}
           found == {i \in about : Speaks(observed[i]) # {}}
           community == {i \in about : observed[i].cap \in Discussions}
<1>3. ASSUME subject = "IDENTIFIED"
      PROVE  /\ b.dimensions["MARKET_POSITIONING"] = "SUPPORTED" => Cardinality(pages) >= 2
             /\ b.dimensions["OPERATIONAL_FRICTION"] = "SUPPORTED" => Cardinality(found) >= 2
             /\ b.dimensions["DEVELOPER_RECEPTION"] = "SUPPORTED" =>
                  Cardinality(community) >= 2
  <2>1. b.dimensions["MARKET_POSITIONING"] = "SUPPORTED" => Cardinality(pages) >= 2
    BY <1>1, <1>3, SupportedByTwo, SuitedRecords DEF Dimensions
  <2>2. b.dimensions["OPERATIONAL_FRICTION"] = "SUPPORTED" => Cardinality(found) >= 2
    BY <1>1, <1>3, SupportedByTwo, SuitedRecords DEF Dimensions
  <2>3. b.dimensions["DEVELOPER_RECEPTION"] = "SUPPORTED" => Cardinality(community) >= 2
    BY <1>1, <1>3, SupportedByTwo, SuitedRecords DEF Dimensions
  <2> QED BY <2>1, <2>2, <2>3
<1>4. subject = "IDENTIFIED" /\ b.coverage = "PASS" =>
        \A f \in Requested : \E i \in about : Family(observed[i]) = f
  BY <1>1, PassedByEach
<1>5. Cardinality({observed[i].product : i \in items}) = 1 BY DEF OneProduct
<1>6. bundle' = b BY DEF b
<1>7. GroundingIsEarned'
  <2>1. \A i : OnSubject(observed[i])' <=> OnSubject(observed[i]) BY DEF OnSubject
  <2>2. \A i : Speaks(observed[i])' = Speaks(observed[i]) BY DEF Speaks
  <2>3. \A i : Family(observed[i])' = Family(observed[i]) BY DEF Family
  <2>4. {i \in items : OnSubject(observed[i])'} = about BY <2>1
  <2>5. {i \in about : Speaks(observed[i])' # {}} = found BY <2>2
  <2> HIDE DEF about, pages, found, community
  <2> QED
    BY <1>1, <1>2, <1>3, <1>4, <1>5, <1>6, <2>3, <2>4, <2>5
    DEF GroundingIsEarned, pages, community
<1>8. IsGrounding(bundle)' BY <1>2, <1>6 DEF IsGrounding
<1> QED
  BY <1>7, <1>8 DEF ObservationInv, RecordsInv, FetchInv, ReadWhereAllowed

LEMMA GroundSearchKeeps == ASSUME ObservationInv, GroundSearch PROVE ObservationInv'
<1>1. PICK i \in DOMAIN observed : bundle' = Grounding({i}, {}) BY DEF GroundSearch
<1>2. subject = "NAMELESS" /\ fetch = NoFetch BY DEF GroundSearch
<1>3. \A o : Relevance(o) = "UNKNOWN" BY <1>2 DEF Relevance
<1>4. \A dim : Support({i}, dim) = {} BY <1>3 DEF Support, Eligible
<1>5. Settled({i}, {}) = {} /\ Collected({i}) = {}
  BY <1>3 DEF Settled, Collected, Eligible
<1>6. Gaps({i}) = Dimensions BY <1>4 DEF Gaps
<1>7. Coherence({i}) = "PARTIAL" BY <1>3, <1>5 DEF Coherence, Coverage
<1>8. OneProduct({i})
  <2>1. {observed[j].product : j \in {i}} = {observed[i].product} OBVIOUS
  <2> QED BY <2>1, FS_Singleton DEF OneProduct
<1> QED BY <1>1, <1>2, <1>5, <1>6, <1>7, <1>8, GroundedEarns DEF GroundSearch

LEMMA GroundResearchKeeps == ASSUME ObservationInv, GroundResearch PROVE ObservationInv'
<1> DEFINE admitted == {i \in DOMAIN observed : Eligible(observed[i])}
           told == {i \in admitted : Role(observed[i]) \in
                      {"FETCHED_SOURCE_CONTENT", "USER_GENERATED_CONTENT"}}
<1>1. PICK disputed \in SUBSET told : bundle' = Grounding(admitted, disputed)
  BY DEF GroundResearch
<1>2. OneProduct(admitted) /\ subject # "NAMELESS" /\ fetch = NoFetch BY DEF GroundResearch
<1>3. disputed \in SUBSET admitted BY <1>1
<1> HIDE DEF admitted
<1>4. admitted \in SUBSET DOMAIN observed BY DEF admitted
<1> QED BY <1>1, <1>2, <1>3, <1>4, GroundedEarns DEF GroundResearch

LEMMA ObservationStep ==
  ObservationInv /\ [ObservationNext]_observationVars => ObservationInv'
<1> SUFFICES ASSUME ObservationInv, [ObservationNext]_observationVars PROVE ObservationInv'
  OBVIOUS
<1>1. CASE UNCHANGED observationVars
  <2> USE <1>1 DEF observationVars, ObservationInv
  <2>1. RecordsInv' /\ FetchInv' /\ ReadWhereAllowed'
    BY DEF RecordsInv, FetchInv, ReadWhereAllowed
  <2>2. GroundingIsEarned' BY DEF GroundingIsEarned, OnSubject, Speaks, Family
  <2>3. (bundle = NoBundle \/ IsGrounding(bundle))' BY DEF IsGrounding
  <2> QED BY <2>1, <2>2, <2>3
<1>2. ASSUME NEW product \in Products, SearchDiscussions(product) PROVE ObservationInv'
  BY <1>2, ObserveKeeps DEF SearchDiscussions
<1>3. ASSUME NEW product \in Products, NEW p \in Pages,
             \/ VideoMetadata(p, product) \/ ReadTranscript(p, product)
             \/ HackerNewsThread(p, product) \/ RedditThread(p, product)
      PROVE  ObservationInv'
  BY <1>3, ObserveKeeps
  DEF VideoMetadata, ReadTranscript, HackerNewsThread, RedditThread
<1>4. CASE FetchFails
  BY <1>4, NoFetchTyped, FetchKeeps DEF FetchFails, ObservationInv, RecordsInv, FetchInv
<1> QED
  BY <1>1, <1>2, <1>3, <1>4, SearchWebKeeps, StartFetchKeeps, RedirectedKeeps, FetchedKeeps,
     GroundSearchKeeps, GroundResearchKeeps
  DEF ObservationNext

\* The invariant holds of every reachable state.
THEOREM ObservationInvariance == ObservationSpec => []ObservationInv
<1> QED BY ObservationInitially, ObservationStep, PTL DEF ObservationSpec

\* What grounding claims is earned, whatever the web says and is asked for (bundle validator
\* and GroundingContextBuilder).
THEOREM GroundingTheorem == ObservationSpec => []GroundingIsEarned
<1>1. ObservationInv => GroundingIsEarned BY DEF ObservationInv
<1> QED BY <1>1, ObservationInvariance, PTL

\* The records of looking things up keep their types.
THEOREM ObservationTypeCorrect == ObservationSpec => []ObservationTypeOK
<1>1. ObservationInv => ObservationTypeOK
  BY DEF ObservationInv, RecordsInv, ObservationTypeOK
<1> QED BY <1>1, ObservationInvariance, PTL

\* No redirect chain leads out of the allowed pages, comes back to a page or grows longer than
\* max_redirects, and no page outside them is recorded as read (HttpStaticBackend, per hop).
THEOREM RedirectsTheorem == ObservationSpec => [](FetchInv /\ ReadWhereAllowed)
<1>1. ObservationInv => FetchInv /\ ReadWhereAllowed BY DEF ObservationInv
<1> QED BY <1>1, ObservationInvariance, PTL

-----------------------------------------------------------------------------
(* The streamed answer: what is on the screen, on the way and still queued. *)

\* Words of a stream counted from a base, none beyond what was said, and a terminal event
\* only at its end; a completion there means that nothing is missing before it.
Counted(s, base, said, whole) ==
  \A j \in DOMAIN s :
    /\ s[j].event = "delta" => s[j].word = base + j /\ base + j <= said
    /\ s[j].event # "delta" => j = Len(s)
    /\ s[j].event = "complete" => whole /\ base + j = said + 1
Deltas(s) == \A j \in DOMAIN s : s[j].event = "delta"
Whole == worker.outcome = "COMPLETED"
Over == {"announce", "ended", "dead"}

\* The reply is stored once, after the last word, and announced after that.
WorkerInv ==
  /\ worker.pc = "idle" =>
       /\ worker.said = 0 /\ bridge.state = "OPEN" /\ bridge.queue = <<>>
       /\ stored.count # 2
  /\ worker.pc \in {"talk", "send"} =>
       stored.count # 2 /\ bridge.state \in {"OPEN", "DISCONNECTED"}
  /\ Whole => worker.pc \in Over /\ stored.count = 2 /\ stored.status = "COMPLETED"
  /\ bridge.state = "TERMINAL_PENDING" =>
       /\ bridge.terminal \in {"complete", "error"}
       /\ bridge.terminal = "complete" => Whole
       /\ worker.pc \in {"ended", "dead"}

\* What the store holds, and what was read from it before: all of the reply or none of it.
Past(row) ==
  IF row.count = 2 THEN row = stored ELSE row.text = <<>> /\ row.status # "COMPLETED"
StoredInv ==
  /\ Past(stored)
  /\ poll # NoPoll => Past(poll[1])

\* Where the three processes stand together.
PhaseInv ==
  /\ turn.pc = "idle" <=> shell = "idle"
  /\ turn.pc # "done" => turn.end = "none"
  /\ shell \in {"idle", "calling"} =>
       /\ worker.pc = "idle" /\ channel = <<>> /\ socket.frames = <<>> /\ socket.open = FALSE
  /\ worker.pc = "idle" => shell \in {"idle", "calling", "failed"}
  /\ socket.open = TRUE => /\ shell = "reading" /\ Deltas(socket.frames)
                           /\ bridge.state \in {"OPEN", "TERMINAL_PENDING"}
  /\ shell = "reading" => Deltas(channel)
  /\ Deltas(bridge.queue)

\* The page's own session of the turn, and the others, which were read from the store.
Spoken(text) == text = Words(Len(text)) /\ Len(text) <= worker.said
MineInv(s) ==
  /\ turn.pc # "idle" /\ s.row.count = 2
  /\ \/ Spoken(s.row.text)
     \/ s.row.text = Notice /\ s.row.status = "ERROR"
  /\ turn.pc = "streaming" => s.id = turn.id /\ s.row.status = "STREAMING"
  /\ turn.pc = "done" => s.row.status \in {"COMPLETED", "ERROR"}
  /\ turn.end = "complete" =>
       Whole /\ s.row.status = "COMPLETED" /\ Len(s.row.text) = worker.said
ListInv ==
  \A i \in DOMAIN sessions :
    IF sessions[i].mine THEN MineInv(sessions[i]) ELSE Past(sessions[i].row)

\* From t words on the screen the channel goes on, then the socket, then the queue, up to the
\* last word that was said.
Flow(t) ==
  /\ Counted(channel, t, worker.said, Whole)
  /\ shell = "reading" => Counted(socket.frames, t + Len(channel), worker.said, Whole)
  /\ socket.open = TRUE =>
       /\ Counted(bridge.queue, t + Len(channel) + Len(socket.frames), worker.said, Whole)
       /\ t + Len(channel) + Len(socket.frames) + Len(bridge.queue) = worker.said
FlowInv ==
  turn.pc = "streaming" =>
    \A i \in DOMAIN sessions : sessions[i].mine => Flow(Len(sessions[i].row.text))

StreamInv == StreamTypeOK /\ WorkerInv /\ StoredInv /\ PhaseInv /\ ListInv /\ FlowInv

LEMMA WordsProperties ==
  ASSUME NEW n \in Nat
  PROVE  /\ Words(n) \in Seq(Nat) /\ Len(Words(n)) = n
         /\ Append(Words(n), n + 1) = Words(n + 1)
         /\ Notice \in Seq(Nat) /\ Notice \o Words(n) \in Seq(Nat)
<1>1. Words(n) \in Seq(Nat) /\ Len(Words(n)) = n BY DEF Words
<1>2. Words(n + 1) \in Seq(Nat) /\ Len(Words(n + 1)) = n + 1 BY DEF Words
<1>3. /\ Append(Words(n), n + 1) \in Seq(Nat) /\ Len(Append(Words(n), n + 1)) = n + 1
      /\ \A i \in 1..n : Append(Words(n), n + 1)[i] = Words(n)[i]
      /\ Append(Words(n), n + 1)[n + 1] = n + 1
  BY <1>1, AppendProperties
<1>4. \A i \in 1..(n + 1) : Append(Words(n), n + 1)[i] = Words(n + 1)[i]
  BY <1>3 DEF Words
<1>5. Notice \in Seq(Nat) BY DEF Notice
<1>6. Notice \o Words(n) \in Seq(Nat) BY <1>1, <1>5, ConcatProperties
<1> QED BY <1>1, <1>2, <1>3, <1>4, <1>5, <1>6, SeqEqual

LEMMA CountedGrows ==
  ASSUME NEW s, NEW base \in Nat, NEW m \in Nat, NEW n \in Nat, NEW v, NEW w,
         Counted(s, base, m, v), m <= n, v => w /\ m = n, DOMAIN s \subseteq Nat
  PROVE  Counted(s, base, n, w)
BY DEF Counted

LEMMA CountedTail ==
  ASSUME NEW s \in Seq(Frames), s # <<>>, NEW base \in Nat, NEW n \in Nat, NEW w,
         Counted(s, base, n, w), Head(s).event = "delta"
  PROVE  /\ Head(s).word = base + 1 /\ base + 1 <= n
         /\ Tail(s) \in Seq(Frames) /\ Len(Tail(s)) = Len(s) - 1
         /\ Counted(Tail(s), base + 1, n, w)
         /\ Deltas(s) => Deltas(Tail(s))
<1> DEFINE u == Tail(s)
<1>1. /\ u \in Seq(Frames) /\ Len(u) = Len(s) - 1 /\ Len(s) \in Nat \ {0}
      /\ \A j \in 1..(Len(s) - 1) : u[j] = s[j + 1]
      /\ DOMAIN s = 1..Len(s)
  BY HeadTailProperties
<1>2. Head(s) = s[1] /\ 1 \in DOMAIN s BY <1>1
<1>3. Head(s).word = base + 1 /\ base + 1 <= n BY <1>2 DEF Counted
<1> HIDE DEF u
<1>4. DOMAIN u = 1..(Len(s) - 1) BY <1>1
<1>5. Counted(u, base + 1, n, w)
  <2> SUFFICES ASSUME NEW j \in DOMAIN u
               PROVE  /\ u[j].event = "delta" =>
                           u[j].word = base + 1 + j /\ base + 1 + j <= n
                      /\ u[j].event # "delta" => j = Len(u)
                      /\ u[j].event = "complete" => w /\ base + 1 + j = n + 1
    BY DEF Counted
  <2>1. j + 1 \in DOMAIN s /\ u[j] = s[j + 1] /\ j \in Nat BY <1>1, <1>4
  <2>2. /\ u[j].event = "delta" => u[j].word = base + (j + 1) /\ base + (j + 1) <= n
        /\ u[j].event # "delta" => j + 1 = Len(s)
        /\ u[j].event = "complete" => w /\ base + (j + 1) = n + 1
    BY <2>1 DEF Counted
  <2>3. base + (j + 1) = base + 1 + j BY <2>1
  <2>4. j + 1 = Len(s) => j = Len(u) BY <2>1, <1>1
  <2> QED BY <2>2, <2>3, <2>4, Zenon
<1>6. Deltas(s) => Deltas(u) BY <1>1, <1>4 DEF Deltas
<1> QED BY <1>1, <1>3, <1>5, <1>6 DEF u

LEMMA DeltasMove ==
  ASSUME NEW s \in Seq(Frames)
  PROVE  /\ \A f \in Frames : Deltas(s) /\ f.event = "delta" => Deltas(Append(s, f))
         /\ s # <<>> /\ Deltas(s) => Deltas(Tail(s)) /\ Head(s).event = "delta"
<1>1. ASSUME NEW f \in Frames, Deltas(s), f.event = "delta" PROVE Deltas(Append(s, f))
  <2>1. /\ DOMAIN Append(s, f) = 1..(Len(s) + 1) /\ Append(s, f)[Len(s) + 1] = f
        /\ \A j \in 1..Len(s) : Append(s, f)[j] = s[j]
        /\ Len(s) \in Nat /\ DOMAIN s = 1..Len(s)
    BY AppendProperties
  <2> QED BY <1>1, <2>1 DEF Deltas
<1>2. ASSUME s # <<>>, Deltas(s) PROVE Deltas(Tail(s)) /\ Head(s).event = "delta"
  <2>1. /\ DOMAIN Tail(s) = 1..(Len(s) - 1) /\ Head(s) = s[1] /\ Len(s) \in Nat \ {0}
        /\ \A j \in 1..(Len(s) - 1) : Tail(s)[j] = s[j + 1]
        /\ DOMAIN s = 1..Len(s)
    BY <1>2, HeadTailProperties
  <2> QED BY <1>2, <2>1 DEF Deltas
<1> QED BY <1>1, <1>2

LEMMA CountedEnd ==
  ASSUME NEW s \in Seq(Frames), s # <<>>, NEW base \in Nat, NEW n \in Nat, NEW w,
         Counted(s, base, n, w), Head(s).event # "delta"
  PROVE  Len(s) = 1 /\ Tail(s) = <<>> /\ (Head(s).event = "complete" => w /\ base = n)
<1>1. Head(s) = s[1] /\ 1 \in DOMAIN s /\ Len(s) \in Nat
  <2>1. Len(s) \in Nat \ {0} /\ DOMAIN s = 1..Len(s) BY EmptySeq
  <2> QED BY <2>1
<1>2. 1 = Len(s) /\ (Head(s).event = "complete" => w /\ base + 1 = n + 1)
  BY <1>1, Zenon DEF Counted
<1>3. Tail(s) \in Seq(Frames) /\ Len(Tail(s)) = 0 BY <1>2, HeadTailProperties
<1>4. Tail(s) = <<>> BY <1>3, EmptySeq
<1> QED BY <1>2, <1>4

LEMMA CountedAppend ==
  ASSUME NEW s \in Seq(Frames), Deltas(s), NEW f \in Frames,
         NEW base \in Nat, NEW n \in Nat, NEW w, Counted(s, base, n, w),
         f.event = "delta" => f.word = base + Len(s) + 1 /\ base + Len(s) + 1 <= n,
         f.event = "complete" => w /\ base + Len(s) = n
  PROVE  /\ Append(s, f) \in Seq(Frames) /\ Len(Append(s, f)) = Len(s) + 1
         /\ Append(s, f) # <<>> /\ Append(s, f)[Len(Append(s, f))] = f
         /\ Counted(Append(s, f), base, n, w)
         /\ f.event = "delta" => Deltas(Append(s, f))
<1> DEFINE a == Append(s, f)
<1>1. /\ a \in Seq(Frames) /\ Len(a) = Len(s) + 1 /\ DOMAIN a = 1..(Len(s) + 1)
      /\ \A j \in 1..Len(s) : a[j] = s[j]
      /\ a[Len(s) + 1] = f /\ Len(s) \in Nat /\ DOMAIN s = 1..Len(s)
  BY AppendProperties
<1> HIDE DEF a
<1>2. Counted(a, base, n, w)
  <2> SUFFICES ASSUME NEW j \in DOMAIN a
               PROVE  /\ a[j].event = "delta" => a[j].word = base + j /\ base + j <= n
                      /\ a[j].event # "delta" => j = Len(a)
                      /\ a[j].event = "complete" => w /\ base + j = n + 1
    BY DEF Counted
  <2>1. CASE j = Len(s) + 1 BY <1>1, <2>1
  <2>2. CASE j \in 1..Len(s) BY <1>1, <2>2 DEF Counted, Deltas
  <2> QED BY <1>1, <2>1, <2>2
<1>3. f.event = "delta" => Deltas(a) BY <1>1 DEF Deltas
<1>4. a # <<>> BY <1>1
<1> QED BY <1>1, <1>2, <1>3, <1>4 DEF a

LEMMA MappedViews ==
  ASSUME NEW s \in Seq(SessionViews), NEW t, t \in [DOMAIN s -> SessionViews]
  PROVE  t \in Seq(SessionViews) /\ DOMAIN t = DOMAIN s
OBVIOUS

LEMMA StreamInitially == StreamInit => StreamInv
<1> SUFFICES ASSUME StreamInit PROVE StreamInv OBVIOUS
<1>1. <<>> \in Seq(Frames) /\ <<>> \in Seq(Nat) /\ <<>> \in Seq(SessionViews) BY EmptySeq
<1>2. stored \in SessionRows /\ stored.count = 0 /\ stored.text = <<>>
      /\ stored.status \in {"ABSENT", "NONE"}
  <2>1. stored = NoRow \/ stored = Row(0, "NONE", <<>>) BY DEF StreamInit
  <2>2. CASE stored = NoRow BY <1>1, <2>2 DEF NoRow, SessionRows
  <2>3. CASE stored = Row(0, "NONE", <<>>) BY <1>1, <2>3 DEF Row, SessionRows
  <2> QED BY <2>1, <2>2, <2>3
<1>3. sessions \in Seq(SessionViews)
      /\ \A i \in DOMAIN sessions : sessions[i] = View("REAL", stored, FALSE)
  <2>1. View("REAL", stored, FALSE) \in SessionViews BY <1>2 DEF View, SessionViews
  <2>2. sessions = <<>> \/ sessions = <<View("REAL", stored, FALSE)>> BY DEF StreamInit
  <2>3. CASE sessions = <<>> BY <1>1, <2>3
  <2>4. CASE sessions = <<View("REAL", stored, FALSE)>>
    <3> DEFINE v == View("REAL", stored, FALSE)
    <3>1. v \in SessionViews BY <2>1
    <3> HIDE DEF v
    <3>2. sessions = <<v>> BY <2>4 DEF v
    <3>3. sessions \in Seq(SessionViews) /\ \A i \in DOMAIN sessions : sessions[i] = v
      BY <3>1, <3>2
    <3> QED BY <3>3 DEF v
  <2> QED BY <2>2, <2>3, <2>4
<1>4. StreamTypeOK
  BY <1>1, <1>2, <1>3 DEF StreamInit, StreamTypeOK, Bridges, TurnWorkers
<1>6. StoredInv BY <1>2 DEF StreamInit, StoredInv, Past
<1>7. WorkerInv BY <1>2 DEF StreamInit, WorkerInv, Whole
<1>8. PhaseInv BY DEF StreamInit, PhaseInv, Deltas
<1>9. ListInv BY <1>2, <1>3 DEF ListInv, View, Past
<1>10. FlowInv BY DEF StreamInit, FlowInv
<1> QED BY <1>4, <1>6, <1>7, <1>8, <1>9, <1>10 DEF StreamInv

-----------------------------------------------------------------------------
(* What stays when only the worker goes on.                                 *)

LEMMA SessionTyped ==
  ASSUME StreamTypeOK, NEW i \in DOMAIN sessions
  PROVE  /\ sessions[i] \in SessionViews
         /\ sessions[i].mine \in BOOLEAN /\ sessions[i].row \in SessionRows
         /\ sessions[i].row.text \in Seq(Nat) /\ Len(sessions[i].row.text) \in Nat
         /\ sessions[i].row.count \in 0..2
<1>1. sessions[i] \in SessionViews BY DEF StreamTypeOK
<1>2. sessions[i].row \in SessionRows /\ sessions[i].mine \in BOOLEAN
  BY <1>1 DEF SessionViews
<1>3. sessions[i].row.text \in Seq(Nat) /\ sessions[i].row.count \in 0..2
  BY <1>2 DEF SessionRows
<1> QED BY <1>1, <1>2, <1>3

LEMMA PartsTyped ==
  ASSUME StreamInv
  PROVE  /\ bridge.queue \in Seq(Frames) /\ socket.frames \in Seq(Frames)
         /\ channel \in Seq(Frames) /\ socket.open \in BOOLEAN
         /\ Len(bridge.queue) \in Nat /\ Len(socket.frames) \in Nat /\ Len(channel) \in Nat
BY DEF StreamInv, StreamTypeOK, Bridges

LEMMA FlowKept ==
  ASSUME StreamInv, UNCHANGED <<channel, turn, sessions, shell, socket>>,
         bridge'.queue = bridge.queue, worker'.said = worker.said, Whole => Whole'
  PROVE  FlowInv'
<1> SUFFICES ASSUME turn.pc = "streaming", NEW i \in DOMAIN sessions, sessions[i].mine
             PROVE  Flow(Len(sessions[i].row.text))'
  BY DEF FlowInv
<1> DEFINE t == Len(sessions[i].row.text)
<1>1. Flow(t) BY DEF StreamInv, FlowInv
<1>2. /\ t \in Nat /\ worker.said \in Nat /\ Len(channel) \in Nat /\ Len(socket.frames) \in Nat
      /\ DOMAIN channel \subseteq Nat /\ DOMAIN socket.frames \subseteq Nat
      /\ DOMAIN bridge.queue \subseteq Nat
  BY SessionTyped DEF StreamInv, StreamTypeOK, TurnWorkers, Bridges
<1> HIDE DEF t
<1>3. Counted(channel, t, worker'.said, Whole')
  BY <1>1, <1>2, CountedGrows DEF Flow
<1>4. shell = "reading" => Counted(socket.frames, t + Len(channel), worker'.said, Whole')
  <2>1. t + Len(channel) \in Nat BY <1>2
  <2> QED BY <1>1, <1>2, <2>1, CountedGrows DEF Flow
<1>5. socket.open = TRUE =>
        Counted(bridge.queue, t + Len(channel) + Len(socket.frames), worker'.said, Whole')
  <2>1. \A a, b, c \in Nat : (a + b) + c \in Nat OBVIOUS
  <2>2. t + Len(channel) + Len(socket.frames) \in Nat BY <1>2, <2>1, Zenon
  <2>3. SUFFICES ASSUME socket.open = TRUE
                 PROVE  Counted(bridge.queue, t + Len(channel) + Len(socket.frames),
                                worker'.said, Whole')
    OBVIOUS
  <2>4. Counted(bridge.queue, t + Len(channel) + Len(socket.frames), worker.said, Whole)
    BY <1>1, <2>3 DEF Flow
  <2>5. worker.said <= worker'.said /\ (Whole => Whole' /\ worker.said = worker'.said)
        /\ worker'.said \in Nat
    BY <1>2
  <2> DEFINE b == t + Len(channel) + Len(socket.frames)
  <2>6. b \in Nat /\ Counted(bridge.queue, b, worker.said, Whole) BY <2>2, <2>4
  <2> HIDE DEF b
  <2>7. Counted(bridge.queue, b, worker'.said, Whole') BY <1>2, <2>5, <2>6, CountedGrows
  <2> QED BY <2>7 DEF b
<1>6. Flow(t)' BY <1>1, <1>3, <1>4, <1>5 DEF Flow, t
<1> QED BY <1>6 DEF t

LEMMA ListKept ==
  ASSUME StreamInv, UNCHANGED <<turn, sessions, stored>>,
         worker.said <= worker'.said, worker'.said \in Nat,
         Whole => Whole' /\ worker'.said = worker.said
  PROVE  ListInv'
<1> SUFFICES ASSUME NEW i \in DOMAIN sessions
             PROVE  IF sessions[i].mine THEN MineInv(sessions[i])' ELSE Past(sessions[i].row)'
  BY DEF ListInv
<1>1. IF sessions[i].mine THEN MineInv(sessions[i]) ELSE Past(sessions[i].row)
  BY DEF StreamInv, ListInv
<1>2. Past(sessions[i].row) => Past(sessions[i].row)' BY DEF Past
<1>3. MineInv(sessions[i]) => MineInv(sessions[i])'
  <2>1. Len(sessions[i].row.text) \in Nat /\ worker.said \in Nat
    BY SessionTyped DEF StreamInv, StreamTypeOK, TurnWorkers
  <2>2. Spoken(sessions[i].row.text) => Spoken(sessions[i].row.text)' BY <2>1 DEF Spoken
  <2> QED BY <2>2 DEF MineInv
<1> QED BY <1>1, <1>2, <1>3

LEMMA NextWordKeeps == ASSUME StreamInv, NextWord PROVE StreamInv'
<1>1. /\ worker \in TurnWorkers /\ worker'.pc = "send" /\ worker'.said = worker.said
      /\ worker'.outcome = worker.outcome /\ worker' \in TurnWorkers /\ worker.pc = "talk"
  BY DEF StreamInv, StreamTypeOK, TurnWorkers, NextWord
<1>2. worker.said \in Nat BY <1>1 DEF TurnWorkers
<1>3. StreamTypeOK' BY <1>1 DEF StreamInv, StreamTypeOK, NextWord
<1>4. ListInv' BY <1>1, <1>2, ListKept DEF NextWord, Whole
<1>5. FlowInv' BY <1>1, FlowKept DEF NextWord, Whole
<1>6. WorkerInv' /\ StoredInv' /\ PhaseInv'
  BY <1>1 DEF StreamInv, WorkerInv, StoredInv, PhaseInv, Deltas, Past, Whole, NextWord, Over
<1> QED BY <1>3, <1>4, <1>5, <1>6 DEF StreamInv

\* A terminal event waits in an open bridge, or is dropped.
LEMMA TerminalSets ==
  ASSUME StreamInv, NEW t \in {"complete", "error"}, Terminal(t)
  PROVE  /\ bridge' \in Bridges /\ bridge'.queue = bridge.queue
         /\ \/ bridge'.state = bridge.state /\ bridge'.terminal = bridge.terminal
               /\ bridge.state # "OPEN"
            \/ bridge'.state = "TERMINAL_PENDING" /\ bridge'.terminal = t
               /\ bridge.state = "OPEN"
BY DEF StreamInv, StreamTypeOK, Bridges, Terminal

LEMMA AnnounceKeeps == ASSUME StreamInv, Announce \/ WorkerRaises PROVE StreamInv'
<1>1. PICK t \in {"complete", "error"} :
        Terminal(t) /\ (t = "complete" => worker.pc = "announce" /\ Whole)
  BY DEF Announce, WorkerRaises, Whole
<1>2. /\ worker \in TurnWorkers /\ worker'.pc = "ended" /\ worker'.said = worker.said
      /\ worker' \in TurnWorkers /\ worker.pc \in {"talk", "announce"}
      /\ Whole => worker'.outcome = "COMPLETED"
      /\ ~Whole => worker'.outcome # "COMPLETED"
  BY DEF StreamInv, StreamTypeOK, TurnWorkers, Announce, WorkerRaises, Whole, WorkerInv, Over
<1>3. /\ bridge' \in Bridges /\ bridge'.queue = bridge.queue
      /\ \/ bridge'.state = bridge.state /\ bridge'.terminal = bridge.terminal
            /\ bridge.state # "OPEN"
         \/ bridge'.state = "TERMINAL_PENDING" /\ bridge'.terminal = t
            /\ bridge.state = "OPEN"
  BY <1>1, TerminalSets
<1>4. UNCHANGED <<stored, socket, shell, channel, turn, sessions, poll, refreshes>>
  BY DEF Announce, WorkerRaises
<1>5. worker.said \in Nat BY <1>2 DEF TurnWorkers
<1>6. StreamTypeOK' BY <1>2, <1>3, <1>4 DEF StreamInv, StreamTypeOK
<1>7. ListInv' BY <1>2, <1>4, <1>5, ListKept DEF Whole
<1>8. FlowInv' BY <1>2, <1>3, <1>4, FlowKept DEF Whole
<1>9. WorkerInv'
  BY <1>1, <1>2, <1>3, <1>4 DEF StreamInv, WorkerInv, Whole, Over
<1>10. StoredInv' BY <1>2, <1>4 DEF StreamInv, StoredInv, Past, Whole
<1>11. PhaseInv' BY <1>2, <1>3, <1>4 DEF StreamInv, PhaseInv, Deltas
<1> QED BY <1>6, <1>7, <1>8, <1>9, <1>10, <1>11 DEF StreamInv

LEMMA BackendDiesKeeps == ASSUME StreamInv, BackendDies PROVE StreamInv'
<1>1. /\ worker \in TurnWorkers /\ worker'.pc = "dead" /\ worker'.said = worker.said
      /\ worker'.outcome = worker.outcome /\ worker' \in TurnWorkers /\ worker.pc # "idle"
  BY DEF StreamInv, StreamTypeOK, TurnWorkers, BackendDies
<1>2. worker.said \in Nat BY <1>1 DEF TurnWorkers
<1>3. socket'.frames = socket.frames /\ socket'.open = FALSE
      /\ socket' \in [frames : Seq(Frames), open : BOOLEAN]
  BY DEF StreamInv, StreamTypeOK, BackendDies
<1>4. StreamTypeOK' BY <1>1, <1>3 DEF StreamInv, StreamTypeOK, BackendDies
<1>5. ListInv' BY <1>1, <1>2, ListKept DEF BackendDies, Whole
<1>6. WorkerInv' /\ StoredInv'
  BY <1>1 DEF StreamInv, WorkerInv, StoredInv, Past, Whole, BackendDies, Over
<1>7. PhaseInv' BY <1>1, <1>3 DEF StreamInv, PhaseInv, Deltas, BackendDies
<1>8. FlowInv'
  BY <1>1, <1>3 DEF StreamInv, FlowInv, Flow, Whole, BackendDies
<1> QED BY <1>4, <1>5, <1>6, <1>7, <1>8 DEF StreamInv

\* The one time the reply is stored, every row read before is one without it.
LEMMA StoreReplyKeeps == ASSUME StreamInv, StoreReply PROVE StreamInv'
<1>1. PICK status \in {"COMPLETED", "ERROR"},
           text \in {Notice, Words(worker.said), Notice \o Words(worker.said)} :
        /\ worker' = [worker EXCEPT !.pc = "announce", !.outcome = status]
        /\ stored' = Row(2, status, text)
  BY Zenon DEF StoreReply
<1>2. /\ worker \in TurnWorkers /\ worker.pc = "talk" /\ worker'.pc = "announce"
      /\ worker'.said = worker.said /\ worker' \in TurnWorkers /\ worker.said \in Nat
      /\ Whole' <=> status = "COMPLETED"
  BY <1>1 DEF StreamInv, StreamTypeOK, TurnWorkers, StoreReply, Whole
<1>3. text \in Seq(Nat) BY <1>1, <1>2, WordsProperties
<1>4. /\ stored' \in SessionRows /\ stored'.count = 2
      /\ stored'.status = "COMPLETED" <=> Whole'
  BY <1>1, <1>2, <1>3 DEF Row, SessionRows
<1>5. ~Whole /\ stored.count # 2 /\ bridge.state # "TERMINAL_PENDING"
  BY <1>2 DEF StreamInv, WorkerInv, Over
<1>6. \A row : Past(row) => Past(row)' BY <1>5 DEF Past
<1>7. UNCHANGED <<bridge, socket, shell, channel, turn, sessions, poll, refreshes>>
  BY DEF StoreReply
<1>8. StreamTypeOK' BY <1>2, <1>4, <1>7 DEF StreamInv, StreamTypeOK
<1>9. WorkerInv' BY <1>2, <1>4, <1>5, <1>7 DEF WorkerInv, Over
<1>10. StoredInv'
  <2>1. Past(stored)' BY <1>4 DEF Past
  <2>2. poll # NoPoll => Past(poll[1])' BY <1>6, <1>7 DEF StreamInv, StoredInv
  <2> QED BY <1>7, <2>1, <2>2 DEF StoredInv
<1>11. PhaseInv' BY <1>2, <1>7 DEF StreamInv, PhaseInv, Deltas
<1>12. ListInv'
  <2> SUFFICES ASSUME NEW i \in DOMAIN sessions
               PROVE  IF sessions[i].mine THEN MineInv(sessions[i])'
                                          ELSE Past(sessions[i].row)'
    BY <1>7 DEF ListInv
  <2>1. IF sessions[i].mine THEN MineInv(sessions[i]) ELSE Past(sessions[i].row)
    BY DEF StreamInv, ListInv
  <2>2. MineInv(sessions[i]) => MineInv(sessions[i])'
    BY <1>2, <1>5, <1>7 DEF MineInv, Spoken
  <2>3. Past(sessions[i].row) => Past(sessions[i].row)' BY <1>6, <1>7
  <2> QED BY <2>1, <2>2, <2>3, Zenon
<1>13. FlowInv' BY <1>2, <1>5, <1>7, FlowKept
<1> QED BY <1>8, <1>9, <1>10, <1>11, <1>12, <1>13 DEF StreamInv

\* A word is said and, while the bridge is open, queued behind the others.
LEMMA SendWordKeeps == ASSUME StreamInv, SendWord PROVE StreamInv'
<1> DEFINE f == [event |-> "delta", word |-> worker.said + 1]
<1>1. /\ worker \in TurnWorkers /\ worker.pc = "send" /\ worker'.pc = "talk"
      /\ worker'.said = worker.said + 1 /\ worker'.outcome = worker.outcome
      /\ worker' \in TurnWorkers /\ worker.said \in Nat
  <2>1. worker \in TurnWorkers /\ worker.said \in Nat
    BY DEF StreamInv, StreamTypeOK, TurnWorkers
  <2>2. worker.pc = "send" /\ worker' = [worker EXCEPT !.pc = "talk", !.said = worker.said + 1]
    BY DEF SendWord
  <2>3. worker.said + 1 \in Nat BY <2>1
  <2> QED BY <2>1, <2>2, <2>3 DEF TurnWorkers
<1>2. f \in Frames /\ f.event = "delta" /\ f.word = worker.said + 1 BY <1>1 DEF Frames
<1> HIDE DEF f
<1>3. /\ bridge' \in Bridges /\ bridge'.state = bridge.state
      /\ bridge'.terminal = bridge.terminal
      /\ bridge.state = "OPEN" => bridge'.queue = Append(bridge.queue, f)
  <2>1. Append(bridge.queue, f) \in Seq(Frames)
    BY <1>2, AppendProperties DEF StreamInv, StreamTypeOK, Bridges
  <2> QED BY <2>1 DEF StreamInv, StreamTypeOK, Bridges, SendWord, Enqueue, f
<1>4. UNCHANGED <<stored, socket, shell, channel, turn, sessions, poll, refreshes>>
  BY DEF SendWord
<1>5. ~Whole /\ ~Whole' BY <1>1 DEF StreamInv, WorkerInv, Over, Whole
<1>6. StreamTypeOK' BY <1>1, <1>3, <1>4 DEF StreamInv, StreamTypeOK
<1>7. ListInv' BY <1>1, <1>4, <1>5, ListKept
<1>8. WorkerInv' BY <1>1, <1>3, <1>4, <1>5 DEF StreamInv, WorkerInv
<1>9. StoredInv' BY <1>4 DEF StreamInv, StoredInv, Past
<1>10. PhaseInv'
  <2>1. Deltas(bridge'.queue)
    <3>1. CASE bridge.state = "OPEN"
      BY <1>2, <1>3, <3>1, PartsTyped, DeltasMove DEF StreamInv, PhaseInv
    <3>2. CASE bridge.state # "OPEN"
      BY <3>2 DEF SendWord, Enqueue, StreamInv, PhaseInv
    <3> QED BY <3>1, <3>2
  <2>2. PhaseInv => /\ shell = "reading" => Deltas(channel)
                    /\ socket.open = TRUE => Deltas(socket.frames)
    BY DEF PhaseInv
  <2> QED BY <1>1, <1>3, <1>4, <2>1, <2>2 DEF StreamInv, PhaseInv, Deltas
<1>11. FlowInv'
  <2> SUFFICES ASSUME turn.pc = "streaming", NEW i \in DOMAIN sessions, sessions[i].mine
               PROVE  Flow(Len(sessions[i].row.text))'
    BY <1>4 DEF FlowInv
  <2> DEFINE t == Len(sessions[i].row.text)
             b == t + Len(channel)
             d == t + Len(channel) + Len(socket.frames)
  <2>1. Flow(t) BY DEF StreamInv, FlowInv
  <2>2. /\ t \in Nat /\ Len(channel) \in Nat /\ Len(socket.frames) \in Nat
        /\ Len(bridge.queue) \in Nat /\ bridge.queue \in Seq(Frames)
        /\ DOMAIN channel \subseteq Nat /\ DOMAIN socket.frames \subseteq Nat
        /\ DOMAIN bridge.queue \subseteq Nat
    BY SessionTyped DEF StreamInv, StreamTypeOK, Bridges
  <2>3. \A x, y, z \in Nat : (x + y) + z \in Nat /\ x + y \in Nat OBVIOUS
  <2>4. b \in Nat /\ d \in Nat BY <2>2, <2>3, Zenon
  <2>5. /\ Counted(channel, t, worker.said, Whole)
        /\ shell = "reading" => Counted(socket.frames, b, worker.said, Whole)
        /\ socket.open = TRUE =>
             /\ Counted(bridge.queue, d, worker.said, Whole)
             /\ d + Len(bridge.queue) = worker.said
    BY <2>1 DEF Flow
  <2>6. t' = t /\ b' = b /\ d' = d BY <1>4
  <2> HIDE DEF t, b, d
  <2>7. worker.said <= worker'.said /\ worker'.said \in Nat BY <1>1
  <2>8. Counted(channel, t, worker'.said, Whole')
    BY <1>1, <1>5, <2>2, <2>5, <2>7, CountedGrows
  <2>9. shell = "reading" => Counted(socket.frames, b, worker'.said, Whole')
    BY <1>1, <1>5, <2>2, <2>4, <2>5, <2>7, CountedGrows
  <2>10. socket.open = TRUE =>
           /\ Counted(bridge'.queue, d, worker'.said, Whole')
           /\ d + Len(bridge'.queue) = worker'.said
    <3> SUFFICES ASSUME socket.open = TRUE
                 PROVE  /\ Counted(bridge'.queue, d, worker'.said, Whole')
                        /\ d + Len(bridge'.queue) = worker'.said
      OBVIOUS
    <3>1. bridge.state = "OPEN" BY <1>1 DEF StreamInv, PhaseInv, WorkerInv
    <3>2. Counted(bridge.queue, d, worker'.said, Whole')
      BY <1>1, <1>5, <2>2, <2>4, <2>5, <2>7, CountedGrows
    <3>3. d + Len(bridge.queue) + 1 = worker'.said BY <1>1, <2>5
    <3>4. f.word = d + Len(bridge.queue) + 1 BY <1>1, <1>2, <3>3
    <3>5. /\ Len(bridge'.queue) = Len(bridge.queue) + 1
          /\ Counted(bridge'.queue, d, worker'.said, Whole')
      <4>1. bridge'.queue = Append(bridge.queue, f) BY <1>3, <3>1
      <4>2. Deltas(bridge.queue) BY DEF StreamInv, PhaseInv
      <4>3. d + Len(bridge.queue) + 1 <= worker'.said BY <2>7, <3>3
      <4> DEFINE q == bridge.queue
                 n == worker'.said
                 w == Whole'
      <4>4. q \in Seq(Frames) /\ Deltas(q) /\ n \in Nat /\ Counted(q, d, n, w)
            /\ f.word = d + Len(q) + 1 /\ d + Len(q) + 1 <= n
        BY <2>2, <2>7, <3>2, <3>4, <4>2, <4>3
      <4> HIDE DEF q, n, w
      <4>5. /\ Len(Append(q, f)) = Len(q) + 1
            /\ Counted(Append(q, f), d, n, w)
        BY <1>2, <2>4, <4>4, CountedAppend
      <4> QED BY <4>1, <4>5 DEF q, n, w
    <3>6. d + Len(bridge'.queue) = worker'.said BY <2>2, <2>4, <3>3, <3>5
    <3> QED BY <3>5, <3>6
  <2>11. Flow(t)'
    BY <1>4, <2>5, <2>6, <2>8, <2>9, <2>10 DEF Flow, b, d
  <2> QED BY <2>11 DEF t
<1> QED BY <1>6, <1>7, <1>8, <1>9, <1>10, <1>11 DEF StreamInv

-----------------------------------------------------------------------------
(* What the writer, the shell and the page move along.                      *)

\* The flow from the page's own session on, unfolded.
LEMMA FlowOf ==
  ASSUME StreamInv, turn.pc = "streaming", NEW i \in DOMAIN sessions, sessions[i].mine,
         NEW t, t = Len(sessions[i].row.text),
         NEW b, b = t + Len(channel),
         NEW d, d = t + Len(channel) + Len(socket.frames)
  PROVE  /\ t \in Nat /\ b \in Nat /\ d \in Nat /\ worker.said \in Nat
         /\ b = t + Len(channel) /\ d = b + Len(socket.frames)
         /\ Counted(channel, t, worker.said, Whole)
         /\ shell = "reading" =>
              Deltas(channel) /\ Counted(socket.frames, b, worker.said, Whole)
         /\ socket.open = TRUE =>
              /\ Deltas(socket.frames) /\ Deltas(bridge.queue)
              /\ Counted(bridge.queue, d, worker.said, Whole)
              /\ d + Len(bridge.queue) = worker.said
<1>1. Flow(t) BY DEF StreamInv, FlowInv
<1>2. /\ t \in Nat /\ Len(channel) \in Nat /\ Len(socket.frames) \in Nat /\ worker.said \in Nat
  BY SessionTyped DEF StreamInv, StreamTypeOK, TurnWorkers
<1>3. \A x, y, z \in Nat : (x + y) + z \in Nat /\ x + y \in Nat OBVIOUS
<1>4. b \in Nat /\ d \in Nat BY <1>2, <1>3, Zenon
<1>5. /\ shell = "reading" => Deltas(channel)
      /\ socket.open = TRUE => Deltas(socket.frames) /\ Deltas(bridge.queue)
  BY DEF StreamInv, PhaseInv
<1> QED BY <1>1, <1>2, <1>4, <1>5, Zenon DEF Flow

LEMMA HeadsTyped ==
  ASSUME NEW s \in Seq(Frames), s # <<>>
  PROVE  Head(s) \in Frames /\ Tail(s) \in Seq(Frames) /\ Len(Tail(s)) = Len(s) - 1
BY HeadTailProperties

LEMMA DrainItemKeeps == ASSUME StreamInv, DrainItem PROVE StreamInv'
<1> DEFINE f == Head(bridge.queue)
<1>1. /\ UNCHANGED <<worker, stored, shell, channel, turn, sessions, poll, refreshes>>
      /\ bridge.queue # <<>> /\ bridge.state \in {"OPEN", "TERMINAL_PENDING"}
  BY DEF DrainItem, WriterVars
<1>2. f \in Frames /\ Tail(bridge.queue) \in Seq(Frames)
      /\ Len(Tail(bridge.queue)) = Len(bridge.queue) - 1
  BY <1>1, PartsTyped, HeadsTyped
<1>3. worker.pc # "idle" BY <1>1 DEF StreamInv, WorkerInv
<1>4. ListInv' BY <1>1, ListKept DEF StreamInv, StreamTypeOK, TurnWorkers, Whole
<1>5. StoredInv' BY <1>1 DEF StreamInv, StoredInv, Past, Whole
<1> HIDE DEF f
<1>6. CASE socket.open /\ socket' = [socket EXCEPT !.frames = Append(@, f)]
           /\ bridge' = [bridge EXCEPT !.queue = Tail(@)]
  <2>1. Append(socket.frames, f) \in Seq(Frames) BY <1>2, PartsTyped, AppendProperties
  <2>2. /\ bridge' \in Bridges /\ bridge'.queue = Tail(bridge.queue)
        /\ bridge'.state = bridge.state /\ bridge'.terminal = bridge.terminal
    BY <1>2, <1>6 DEF StreamInv, StreamTypeOK, Bridges
  <2>3. /\ socket' \in [frames : Seq(Frames), open : BOOLEAN]
        /\ socket'.frames = Append(socket.frames, f) /\ socket'.open = TRUE
        /\ socket.open = TRUE
    BY <1>6, <2>1 DEF StreamInv, StreamTypeOK
  <2>4. StreamTypeOK' BY <1>1, <2>2, <2>3 DEF StreamInv, StreamTypeOK
  <2>5. WorkerInv' BY <1>1, <1>3, <2>2 DEF StreamInv, WorkerInv, Whole
  <2>6. PhaseInv'
    <3>1. Deltas(Tail(bridge.queue)) /\ f.event = "delta"
      BY <1>1, PartsTyped, DeltasMove DEF StreamInv, PhaseInv, f
    <3>2. Deltas(Append(socket.frames, f))
      BY <1>2, <2>3, <3>1, PartsTyped, DeltasMove DEF StreamInv, PhaseInv
    <3>3. PhaseInv => (shell = "reading" => Deltas(channel)) BY DEF PhaseInv
    <3>4. Deltas(bridge.queue)' /\ Deltas(socket.frames)' BY <2>2, <2>3, <3>1, <3>2
    <3>5. shell' = "reading" => Deltas(channel)' BY <1>1, <3>3 DEF StreamInv
    <3> QED BY <1>1, <1>3, <2>2, <2>3, <3>4, <3>5 DEF StreamInv, PhaseInv
  <2>7. FlowInv'
    <3> SUFFICES ASSUME turn.pc = "streaming", NEW i \in DOMAIN sessions, sessions[i].mine
                 PROVE  Flow(Len(sessions[i].row.text))'
      BY <1>1 DEF FlowInv
    <3> DEFINE t == Len(sessions[i].row.text)
               b == t + Len(channel)
               d == t + Len(channel) + Len(socket.frames)
               q == bridge.queue
               r == socket.frames
    <3>1. /\ t \in Nat /\ b \in Nat /\ d \in Nat /\ worker.said \in Nat
          /\ b = t + Len(channel) /\ d = b + Len(r)
          /\ Counted(channel, t, worker.said, Whole)
          /\ shell = "reading" => Deltas(channel) /\ Counted(r, b, worker.said, Whole)
          /\ socket.open = TRUE => /\ Deltas(r) /\ Deltas(q)
                                   /\ Counted(q, d, worker.said, Whole)
                                   /\ d + Len(q) = worker.said
      BY FlowOf
    <3>2. shell = "reading" BY <2>3 DEF StreamInv, PhaseInv
    <3>3. q \in Seq(Frames) /\ q # <<>> /\ r \in Seq(Frames) /\ Len(q) \in Nat /\ Len(r) \in Nat
          /\ f = Head(q)
      BY <1>1, PartsTyped DEF f
    <3>4. t' = t /\ b' = b BY <1>1
    <3>5. socket'.frames = Append(r, f) /\ bridge'.queue = Tail(q) BY <2>2, <2>3
    <3> HIDE DEF t, b, d, q, r
    <3>6. f.event = "delta"
      <4>1. Head(q) = q[1] /\ 1 \in DOMAIN q BY <3>3, EmptySeq
      <4> QED BY <2>3, <3>1, <3>3, <4>1 DEF Deltas
    <3>7. /\ f.word = d + 1 /\ d + 1 <= worker.said /\ Len(Tail(q)) = Len(q) - 1
          /\ Counted(Tail(q), d + 1, worker.said, Whole) /\ Deltas(Tail(q))
      BY <2>3, <3>1, <3>3, <3>6, CountedTail
    <3>8. /\ Len(Append(r, f)) = Len(r) + 1 /\ Deltas(Append(r, f))
          /\ Counted(Append(r, f), b, worker.said, Whole)
      BY <1>2, <2>3, <3>1, <3>2, <3>3, <3>6, <3>7, CountedAppend
    <3>9. b + Len(Append(r, f)) = d + 1 /\ d + 1 + Len(Tail(q)) = worker.said
      BY <2>3, <3>1, <3>3, <3>7, <3>8
    <3>10. Flow(t)'
      BY <1>1, <2>3, <3>1, <3>2, <3>4, <3>5, <3>7, <3>8, <3>9 DEF Flow, Whole, b
    <3> QED BY <3>10 DEF t
  <2> QED BY <1>4, <1>5, <2>4, <2>5, <2>6, <2>7 DEF StreamInv
<1>7. CASE /\ ~socket.open /\ UNCHANGED socket
           /\ bridge' = [bridge EXCEPT !.queue = Tail(@), !.state = "DISCONNECTED"]
  <2>1. bridge' \in Bridges /\ bridge'.state = "DISCONNECTED"
        /\ bridge'.queue = Tail(bridge.queue)
    BY <1>2, <1>7 DEF StreamInv, StreamTypeOK, Bridges
  <2>2. StreamTypeOK' BY <1>1, <1>7, <2>1 DEF StreamInv, StreamTypeOK
  <2>3. WorkerInv' BY <1>1, <1>3, <2>1 DEF StreamInv, WorkerInv, Whole
  <2>4. PhaseInv'
    <3>1. Deltas(Tail(bridge.queue))
      BY <1>1, PartsTyped, DeltasMove DEF StreamInv, PhaseInv
    <3>2. PhaseInv => (shell = "reading" => Deltas(channel)) BY DEF PhaseInv
    <3>3. shell' = "reading" => Deltas(channel)' BY <1>1, <3>2 DEF StreamInv
    <3>4. Deltas(bridge.queue)' BY <2>1, <3>1
    <3> QED BY <1>1, <1>7, <2>1, <3>3, <3>4 DEF StreamInv, PhaseInv
  <2>5. FlowInv' BY <1>1, <1>7 DEF StreamInv, FlowInv, Flow, Whole
  <2> QED BY <1>4, <1>5, <2>2, <2>3, <2>4, <2>5 DEF StreamInv
<1> QED BY <1>6, <1>7 DEF DrainItem, f

\* The terminal event follows the last queued word; the connection then closes.
LEMMA DrainTerminalKeeps == ASSUME StreamInv, DrainTerminal PROVE StreamInv'
<1> DEFINE f == [event |-> bridge.terminal, word |-> 0]
<1>1. /\ UNCHANGED <<worker, stored, shell, channel, turn, sessions, poll, refreshes>>
      /\ bridge.state = "TERMINAL_PENDING" /\ bridge.queue = <<>>
  BY DEF DrainTerminal, WriterVars
<1>2. /\ f \in Frames /\ f.event # "delta" /\ f.event = bridge.terminal
      /\ bridge.terminal = "complete" => Whole
  BY <1>1 DEF StreamInv, WorkerInv, Frames
<1>3. worker.pc \in {"ended", "dead"} BY <1>1 DEF StreamInv, WorkerInv
<1>4. ListInv' BY <1>1, ListKept DEF StreamInv, StreamTypeOK, TurnWorkers, Whole
<1>5. StoredInv' BY <1>1 DEF StreamInv, StoredInv, Past, Whole
<1>6. /\ bridge' \in Bridges /\ bridge'.state \in {"COMPLETE", "ERROR", "DISCONNECTED"}
      /\ bridge'.queue = bridge.queue
  BY DEF StreamInv, StreamTypeOK, Bridges, DrainTerminal
<1>7. WorkerInv' BY <1>1, <1>3, <1>6 DEF StreamInv, WorkerInv, Whole
<1> HIDE DEF f
<1>8. CASE socket.open /\ socket' = [frames |-> Append(socket.frames, f), open |-> FALSE]
  <2>1. Append(socket.frames, f) \in Seq(Frames) BY <1>2, PartsTyped, AppendProperties
  <2>2. /\ socket' \in [frames : Seq(Frames), open : BOOLEAN]
        /\ socket'.frames = Append(socket.frames, f) /\ socket'.open = FALSE
        /\ socket.open = TRUE
    BY <1>8, <2>1 DEF StreamInv, StreamTypeOK
  <2>3. StreamTypeOK' BY <1>1, <1>6, <2>2 DEF StreamInv, StreamTypeOK
  <2>4. PhaseInv' BY <1>1, <1>3, <1>6, <2>2 DEF StreamInv, PhaseInv, Deltas
  <2>5. FlowInv'
    <3> SUFFICES ASSUME turn.pc = "streaming", NEW i \in DOMAIN sessions, sessions[i].mine
                 PROVE  Flow(Len(sessions[i].row.text))'
      BY <1>1 DEF FlowInv
    <3> DEFINE t == Len(sessions[i].row.text)
               b == t + Len(channel)
               d == t + Len(channel) + Len(socket.frames)
               r == socket.frames
    <3>1. /\ t \in Nat /\ b \in Nat /\ d \in Nat /\ worker.said \in Nat
          /\ b = t + Len(channel) /\ d = b + Len(r)
          /\ Counted(channel, t, worker.said, Whole)
          /\ shell = "reading" => Deltas(channel) /\ Counted(r, b, worker.said, Whole)
          /\ socket.open = TRUE => /\ Deltas(r) /\ d + Len(bridge.queue) = worker.said
      BY FlowOf
    <3>2. shell = "reading" BY <2>2 DEF StreamInv, PhaseInv
    <3>3. r \in Seq(Frames) /\ Len(r) \in Nat BY PartsTyped
    <3>4. t' = t /\ b' = b BY <1>1
    <3>5. socket'.frames = Append(r, f) BY <2>2
    <3> HIDE DEF t, b, d, r
    <3>6. b + Len(r) = worker.said
      <4>1. Len(bridge.queue) = 0 BY <1>1
      <4> QED BY <2>2, <3>1, <4>1
    <3>7. Counted(Append(r, f), b, worker.said, Whole)
      BY <1>2, <2>2, <3>1, <3>2, <3>3, <3>6, CountedAppend
    <3>8. Flow(t)'
      BY <1>1, <2>2, <3>1, <3>2, <3>4, <3>5, <3>7 DEF Flow, Whole, b
    <3> QED BY <3>8 DEF t
  <2> QED BY <1>4, <1>5, <1>7, <2>3, <2>4, <2>5 DEF StreamInv
<1>9. CASE ~socket.open /\ UNCHANGED socket /\ bridge' = [bridge EXCEPT !.state = "DISCONNECTED"]
  <2>1. StreamTypeOK' BY <1>1, <1>6, <1>9 DEF StreamInv, StreamTypeOK
  <2>2. PhaseInv' BY <1>1, <1>3, <1>6, <1>9 DEF StreamInv, PhaseInv, Deltas
  <2>3. FlowInv' BY <1>1, <1>9 DEF StreamInv, FlowInv, Flow, Whole
  <2> QED BY <1>4, <1>5, <1>7, <2>1, <2>2, <2>3 DEF StreamInv
<1> QED BY <1>8, <1>9 DEF DrainTerminal, f

LEMMA ForwardFrameKeeps == ASSUME StreamInv, ForwardFrame PROVE StreamInv'
<1> DEFINE f == Head(socket.frames)
<1>1. /\ UNCHANGED <<bridge, worker, stored, turn, sessions, poll, refreshes>>
      /\ shell = "reading" /\ socket.frames # <<>>
      /\ channel' = Append(channel, f)
      /\ shell' = IF f.event = "delta" THEN "reading" ELSE "ok"
  BY DEF ForwardFrame, ShellVars
<1>2. f \in Frames /\ Tail(socket.frames) \in Seq(Frames) BY <1>1, PartsTyped, HeadsTyped
<1>3. /\ socket' \in [frames : Seq(Frames), open : BOOLEAN]
      /\ socket'.frames = Tail(socket.frames) /\ socket'.open = socket.open
  BY <1>2 DEF StreamInv, StreamTypeOK, ForwardFrame
<1> HIDE DEF f
<1>4. /\ channel' \in Seq(Frames) /\ channel' # <<>> /\ channel'[Len(channel')] = f
  <2>1. channel \in Seq(Frames) BY PartsTyped
  <2> QED BY <1>1, <1>2, <2>1, AppendProperties
<1>5. StreamTypeOK' BY <1>1, <1>3, <1>4 DEF StreamInv, StreamTypeOK
<1>6. WorkerInv' /\ StoredInv' BY <1>1 DEF StreamInv, WorkerInv, StoredInv, Past, Whole
<1>7. ListInv' BY <1>1, ListKept DEF StreamInv, StreamTypeOK, TurnWorkers, Whole
<1>8. f.event # "delta" => socket.open = FALSE
  <2>1. socket.open = TRUE => f.event = "delta"
    BY <1>1, PartsTyped, DeltasMove DEF StreamInv, PhaseInv, f
  <2> QED BY <2>1, PartsTyped
<1>9. PhaseInv'
  <2>1. f.event = "delta" => Deltas(channel)'
    BY <1>1, <1>2, PartsTyped, DeltasMove DEF StreamInv, PhaseInv
  <2>2. socket.open = TRUE => Deltas(Tail(socket.frames))
    BY <1>1, PartsTyped, DeltasMove DEF StreamInv, PhaseInv
  <2>3. socket'.open = TRUE => Deltas(socket'.frames) BY <1>3, <2>2
  <2>4. Deltas(bridge.queue)' BY <1>1 DEF StreamInv, PhaseInv
  <2>5. shell' \in {"reading", "ok"} /\ (shell' = "reading" <=> f.event = "delta") BY <1>1
  <2> QED
    BY <1>1, <1>3, <1>4, <1>8, <2>1, <2>3, <2>4, <2>5 DEF StreamInv, PhaseInv
<1>10. FlowInv'
  <2> SUFFICES ASSUME turn.pc = "streaming", NEW i \in DOMAIN sessions, sessions[i].mine
               PROVE  Flow(Len(sessions[i].row.text))'
    BY <1>1 DEF FlowInv
  <2> DEFINE t == Len(sessions[i].row.text)
             b == t + Len(channel)
             d == t + Len(channel) + Len(socket.frames)
             r == socket.frames
  <2>1. /\ t \in Nat /\ b \in Nat /\ d \in Nat /\ worker.said \in Nat
        /\ b = t + Len(channel) /\ d = b + Len(r)
        /\ Counted(channel, t, worker.said, Whole)
        /\ Deltas(channel) /\ Counted(r, b, worker.said, Whole)
        /\ socket.open = TRUE => /\ Counted(bridge.queue, d, worker.said, Whole)
                                 /\ d + Len(bridge.queue) = worker.said
    BY <1>1, FlowOf
  <2>2. /\ r \in Seq(Frames) /\ r # <<>> /\ Len(r) \in Nat /\ f = Head(r)
        /\ channel \in Seq(Frames) /\ Len(channel) \in Nat
    BY <1>1, PartsTyped DEF f
  <2>3. t' = t /\ socket'.frames = Tail(r) BY <1>1, <1>3
  <2> HIDE DEF t, b, d, r
  <2>4. CASE f.event = "delta"
    <3>1. /\ f.word = b + 1 /\ b + 1 <= worker.said /\ Len(Tail(r)) = Len(r) - 1
          /\ Counted(Tail(r), b + 1, worker.said, Whole)
      BY <2>1, <2>2, <2>4, CountedTail
    <3>2. /\ Len(channel') = Len(channel) + 1 /\ Counted(channel', t, worker.said, Whole)
      BY <1>1, <1>2, <2>1, <2>2, <2>4, <3>1, CountedAppend
    <3>3. t + Len(channel') = b + 1 BY <2>1, <2>2, <3>2
    <3>4. t + Len(channel') + Len(Tail(r)) = d
      <4>1. (b + 1) + Len(Tail(r)) = d BY <2>1, <2>2, <3>1
      <4> QED BY <3>3, <4>1, Zenon
    <3>5. Flow(t)' BY <1>1, <1>3, <2>1, <2>3, <3>1, <3>2, <3>3, <3>4 DEF Flow, Whole
    <3> QED BY <3>5 DEF t
  <2>5. CASE f.event # "delta"
    <3>1. f.event = "complete" => Whole /\ b = worker.said
      <4>1. /\ r \in Seq(Frames) /\ r # <<>> /\ b \in Nat /\ worker.said \in Nat
            /\ Counted(r, b, worker.said, Whole) /\ Head(r).event # "delta" /\ f = Head(r)
        BY <2>1, <2>2, <2>5
      <4> QED BY <4>1, CountedEnd, Zenon
    <3>2. Counted(channel', t, worker.said, Whole)
      BY <1>1, <1>2, <2>1, <2>2, <2>5, <3>1, CountedAppend
    <3>3. shell' = "ok" /\ socket'.open = FALSE BY <1>1, <1>3, <1>8, <2>5
    <3>4. Flow(t)' BY <1>1, <2>3, <3>2, <3>3 DEF Flow, Whole
    <3> QED BY <3>4 DEF t
  <2> QED BY <2>4, <2>5
<1> QED BY <1>5, <1>6, <1>7, <1>9, <1>10 DEF StreamInv

LEMMA StreamFailsKeeps == ASSUME StreamInv, StreamFails PROVE StreamInv'
<1>1. /\ UNCHANGED <<bridge, worker, stored, turn, sessions, poll, refreshes, channel>>
      /\ shell = "reading" /\ shell' = "failed" /\ socket' = [frames |-> <<>>, open |-> FALSE]
  BY DEF StreamFails, ShellVars
<1>2. socket' \in [frames : Seq(Frames), open : BOOLEAN] /\ socket'.open = FALSE
  BY <1>1, EmptySeq
<1>3. StreamTypeOK' BY <1>1, <1>2 DEF StreamInv, StreamTypeOK
<1>4. WorkerInv' /\ StoredInv' BY <1>1 DEF StreamInv, WorkerInv, StoredInv, Past, Whole
<1>5. ListInv' BY <1>1, ListKept DEF StreamInv, StreamTypeOK, TurnWorkers, Whole
<1>6. PhaseInv' BY <1>1, <1>2 DEF StreamInv, PhaseInv, Deltas
<1>7. FlowInv' BY <1>1, <1>2 DEF StreamInv, FlowInv, Flow, Whole
<1> QED BY <1>3, <1>4, <1>5, <1>6, <1>7 DEF StreamInv

LEMMA OpenStreamKeeps == ASSUME StreamInv, OpenStream PROVE StreamInv'
<1>1. /\ UNCHANGED <<bridge, channel, turn, sessions, poll, refreshes>>
      /\ shell = "calling" /\ worker.pc = "idle" /\ channel = <<>> /\ socket.frames = <<>>
      /\ socket.open = FALSE /\ worker.said = 0 /\ bridge.state = "OPEN"
      /\ bridge.queue = <<>> /\ stored.count # 2 /\ turn.pc # "idle"
  BY DEF OpenStream, StreamInv, PhaseInv, WorkerInv
<1>2. CASE shell' = "failed" /\ UNCHANGED <<socket, worker, stored>>
  <2>1. StreamTypeOK' BY <1>1, <1>2 DEF StreamInv, StreamTypeOK
  <2>2. WorkerInv' /\ StoredInv'
    BY <1>1, <1>2 DEF StreamInv, WorkerInv, StoredInv, Past, Whole
  <2>3. ListInv' BY <1>1, <1>2, ListKept DEF StreamInv, StreamTypeOK, TurnWorkers, Whole
  <2>4. PhaseInv' BY <1>1, <1>2 DEF StreamInv, PhaseInv, Deltas
  <2>5. FlowInv' BY <1>1, <1>2 DEF StreamInv, FlowInv, Flow, Whole
  <2> QED BY <2>1, <2>2, <2>3, <2>4, <2>5 DEF StreamInv
<1>3. CASE /\ shell' = "reading" /\ socket' = [socket EXCEPT !.open = TRUE]
           /\ worker' = [worker EXCEPT !.pc = "talk"] /\ stored' = Row(1, "NONE", <<>>)
  <2>1. /\ socket' \in [frames : Seq(Frames), open : BOOLEAN] /\ socket'.open = TRUE
        /\ socket'.frames = <<>>
    BY <1>1, <1>3 DEF StreamInv, StreamTypeOK
  <2>2. /\ worker' \in TurnWorkers /\ worker'.pc = "talk" /\ worker'.said = 0
        /\ worker'.outcome = worker.outcome
    BY <1>1, <1>3 DEF StreamInv, StreamTypeOK, TurnWorkers
  <2>3. /\ stored' \in SessionRows /\ stored'.count = 1 /\ stored'.text = <<>>
        /\ stored'.status = "NONE"
    BY <1>3, EmptySeq DEF Row, SessionRows
  <2>4. ~Whole /\ ~Whole' BY <1>1, <2>2 DEF StreamInv, WorkerInv, Over, Whole
  <2>5. StreamTypeOK' BY <1>1, <1>3, <2>1, <2>2, <2>3 DEF StreamInv, StreamTypeOK
  <2>6. WorkerInv' BY <1>1, <2>2, <2>3, <2>4 DEF WorkerInv
  <2>7. \A row : Past(row) => Past(row)' BY <1>1 DEF Past
  <2>8. StoredInv'
    <3>1. Past(stored)' BY <2>3 DEF Past
    <3>2. poll # NoPoll => Past(poll[1])' BY <1>1, <2>7 DEF StreamInv, StoredInv
    <3> QED BY <1>1, <3>1, <3>2 DEF StoredInv
  <2>9. PhaseInv' BY <1>1, <1>3, <2>1, <2>2 DEF StreamInv, PhaseInv, Deltas
  <2>10. ASSUME NEW i \in DOMAIN sessions, sessions[i].mine
         PROVE  turn.pc = "streaming" => Len(sessions[i].row.text) = 0
    BY <1>1, <2>10, SessionTyped DEF StreamInv, ListInv, MineInv, Spoken
  <2>11. ListInv'
    <3> SUFFICES ASSUME NEW i \in DOMAIN sessions
                 PROVE  IF sessions[i].mine THEN MineInv(sessions[i])'
                                            ELSE Past(sessions[i].row)'
      BY <1>1 DEF ListInv
    <3>1. IF sessions[i].mine THEN MineInv(sessions[i]) ELSE Past(sessions[i].row)
      BY DEF StreamInv, ListInv
    <3>3. MineInv(sessions[i]) => MineInv(sessions[i])'
      BY <1>1, <2>2, <2>4 DEF MineInv, Spoken
    <3>4. Past(sessions[i].row) => Past(sessions[i].row)' BY <1>1, <2>7
    <3> QED BY <3>1, <3>3, <3>4, Zenon
  <2>12. FlowInv'
    <3> SUFFICES ASSUME NEW i \in DOMAIN sessions, sessions[i].mine, turn.pc = "streaming"
                 PROVE  Flow(Len(sessions[i].row.text))'
      BY <1>1 DEF FlowInv
    <3>1. Len(sessions[i].row.text)' = 0 BY <1>1, <2>10
    <3>2. Flow(0)'
      <4>1. Len(channel') = 0 /\ Len(socket'.frames) = 0 /\ Len(bridge'.queue) = 0
        BY <1>1, <2>1
      <4>2. \A x, y : Counted(<<>>, x, worker'.said, y) BY DEF Counted
      <4> QED BY <1>1, <2>1, <2>2, <4>1, <4>2 DEF Flow
    <3> QED BY <3>1, <3>2
  <2> QED BY <2>5, <2>6, <2>8, <2>9, <2>11, <2>12 DEF StreamInv
<1> QED BY <1>2, <1>3 DEF OpenStream

LEMMA SendMessageKeeps == ASSUME StreamInv, SendMessage PROVE StreamInv'
<1> DEFINE v == View(turn'.id, Placeholder, TRUE)
<1>1. /\ UNCHANGED <<bridge, worker, stored, socket, channel, poll, refreshes>>
      /\ turn.pc = "idle" /\ turn'.pc = "streaming" /\ turn'.id \in {"TEMP", "REAL"}
      /\ turn' \in [pc : {"idle", "streaming", "done"}, id : {"TEMP", "REAL"},
                    end : {"none", "complete", "error", "resolved", "rejected"}]
      /\ turn'.end = "none"
      /\ sessions' = <<v>> /\ shell' = "calling" /\ shell = "idle"
  BY DEF SendMessage, StreamInv, StreamTypeOK, PhaseInv
<1>2. /\ v \in SessionViews /\ v.mine = TRUE /\ v.row.text = <<>> /\ v.row.count = 2
      /\ v.row.status = "STREAMING" /\ v.id = turn'.id
  BY <1>1, EmptySeq DEF View, Placeholder, Row, SessionViews, SessionRows
<1> HIDE DEF v
<1>3. sessions' \in Seq(SessionViews) /\ \A i \in DOMAIN sessions' : sessions'[i] = v
  BY <1>1, <1>2
<1>4. /\ worker.pc = "idle" /\ channel = <<>> /\ socket.frames = <<>> /\ socket.open = FALSE
      /\ worker.said = 0
  BY <1>1 DEF StreamInv, PhaseInv, WorkerInv
<1>5. StreamTypeOK' BY <1>1, <1>3 DEF StreamInv, StreamTypeOK
<1>6. WorkerInv' /\ StoredInv' BY <1>1 DEF StreamInv, WorkerInv, StoredInv, Past, Whole
<1>7. PhaseInv' BY <1>1, <1>4 DEF StreamInv, PhaseInv, Deltas
<1>8. Words(0) = <<>> /\ Len(<<>>) = 0 BY WordsProperties, EmptySeq
<1>9. ListInv'
  <2> SUFFICES ASSUME NEW i \in DOMAIN sessions'
               PROVE  IF sessions'[i].mine THEN MineInv(sessions[i])'
                                           ELSE Past(sessions[i].row)'
    BY DEF ListInv
  <2>1. /\ sessions'[i].mine = TRUE /\ sessions'[i].row.text = <<>>
        /\ sessions'[i].row.count = 2 /\ sessions'[i].row.status = "STREAMING"
        /\ sessions'[i].id = turn'.id
    BY <1>2, <1>3
  <2>2. Spoken(sessions[i].row.text)' BY <1>1, <1>4, <1>8, <2>1 DEF Spoken
  <2>3. MineInv(sessions[i])' BY <1>1, <2>1, <2>2 DEF MineInv
  <2> QED BY <2>1, <2>3
<1>10. FlowInv'
  <2>1. \A x, y, z : Counted(<<>>, x, y, z) BY DEF Counted
  <2>2. Flow(0)' BY <1>1, <1>4, <2>1 DEF Flow
  <2>3. \A i \in DOMAIN sessions' : Len(sessions'[i].row.text) = 0 BY <1>2, <1>3, <1>8
  <2> QED BY <2>2, <2>3 DEF FlowInv
<1> QED BY <1>5, <1>6, <1>7, <1>9, <1>10 DEF StreamInv

\* The page takes the next word to its own session.
LEMMA DeliverDeltaKeeps == ASSUME StreamInv, DeliverDelta PROVE StreamInv'
<1> DEFINE w == Head(channel).word
<1>1. /\ UNCHANGED <<bridge, worker, stored, socket, shell, poll, refreshes, turn>>
      /\ turn.pc = "streaming" /\ channel # <<>> /\ Head(channel).event = "delta"
      /\ ApplyDelta(w) /\ channel' = Tail(channel)
  BY DEF DeliverDelta, PageVars
<1>2. Head(channel) \in Frames /\ channel' \in Seq(Frames) /\ w \in Nat
  <2>1. Head(channel) \in Frames /\ Tail(channel) \in Seq(Frames)
    BY <1>1, PartsTyped, HeadsTyped
  <2> QED BY <1>1, <2>1 DEF Frames
<1> HIDE DEF w
\* A session of the turn grows by the word, the others stay.
<1>3. ASSUME NEW i \in DOMAIN sessions, sessions[i].mine
      PROVE  LET t == Len(sessions[i].row.text) IN
             /\ w = t + 1 /\ t + 1 <= worker.said /\ t \in Nat
             /\ sessions[i].row.text = Words(t)
             /\ sessions'[i] = [sessions[i] EXCEPT !.row.text = Words(t + 1)]
             /\ Counted(channel', t + 1, worker.said, Whole)
             /\ shell = "reading" => Deltas(channel')
             /\ Len(channel') = Len(channel) - 1
  <2> DEFINE t == Len(sessions[i].row.text)
             b == t + Len(channel)
             d == t + Len(channel) + Len(socket.frames)
  <2>1. /\ t \in Nat /\ worker.said \in Nat /\ Counted(channel, t, worker.said, Whole)
        /\ shell = "reading" => Deltas(channel)
    BY <1>1, <1>3, FlowOf
  <2>2. sessions[i].row.text = Words(t) /\ sessions[i].id = turn.id
    BY <1>1, <1>3 DEF StreamInv, ListInv, MineInv, Spoken
  <2> HIDE DEF t, b, d
  <2>3. /\ w = t + 1 /\ t + 1 <= worker.said /\ Len(channel') = Len(channel) - 1
        /\ Counted(channel', t + 1, worker.said, Whole)
        /\ shell = "reading" => Deltas(channel')
    BY <1>1, <2>1, PartsTyped, CountedTail DEF w
  <2>4. sessions'[i] = [sessions[i] EXCEPT !.row.text = Append(@, w)]
    BY <1>1, <1>3, <2>2 DEF ApplyDelta
  <2>5. Append(sessions[i].row.text, w) = Words(t + 1) BY <2>1, <2>2, <2>3, WordsProperties
  <2>6. sessions'[i] = [sessions[i] EXCEPT !.row.text = Words(t + 1)] BY <2>4, <2>5
  <2> QED BY <2>1, <2>2, <2>3, <2>6 DEF t
<1>4. ASSUME NEW i \in DOMAIN sessions, ~sessions[i].mine PROVE sessions'[i] = sessions[i]
  BY <1>1, <1>4 DEF ApplyDelta
<1>5. DOMAIN sessions' = DOMAIN sessions BY <1>1 DEF ApplyDelta
\* What a grown session looks like.
<1>6. ASSUME NEW i \in DOMAIN sessions, sessions[i].mine
      PROVE  LET t == Len(sessions[i].row.text) IN
             /\ sessions'[i] \in SessionViews /\ sessions'[i].mine
             /\ sessions'[i].id = sessions[i].id /\ sessions'[i].row.text = Words(t + 1)
             /\ Len(sessions'[i].row.text) = t + 1
             /\ sessions'[i].row.count = sessions[i].row.count
             /\ sessions'[i].row.status = sessions[i].row.status
  <2> DEFINE t == Len(sessions[i].row.text)
  <2>1. t \in Nat /\ sessions'[i] = [sessions[i] EXCEPT !.row.text = Words(t + 1)]
    BY <1>3, <1>6
  <2>2. sessions[i] \in SessionViews /\ sessions[i].row \in SessionRows
    BY SessionTyped DEF StreamInv
  <2> HIDE DEF t
  <2>3. Words(t + 1) \in Seq(Nat) /\ Len(Words(t + 1)) = t + 1 BY <2>1, WordsProperties
  <2> DEFINE x == Words(t + 1)
             row == [sessions[i].row EXCEPT !.text = x]
  <2> HIDE DEF x
  <2>4. /\ row \in SessionRows /\ row.text = x /\ row.count = sessions[i].row.count
        /\ row.status = sessions[i].row.status
    BY <2>2, <2>3 DEF SessionRows, x
  <2>5. sessions'[i] = [sessions[i] EXCEPT !.row = row]
    BY <2>1, <2>2 DEF SessionViews, x
  <2> HIDE DEF row
  <2>6. /\ sessions'[i] \in SessionViews /\ sessions'[i].mine = sessions[i].mine
        /\ sessions'[i].id = sessions[i].id /\ sessions'[i].row = row
    BY <2>2, <2>4, <2>5 DEF SessionViews
  <2> QED BY <1>6, <2>3, <2>4, <2>6 DEF t, x
<1>7. StreamTypeOK'
  <2>1. sessions' \in [DOMAIN sessions -> SessionViews]
    <3>1. \A i \in DOMAIN sessions : sessions'[i] \in SessionViews
      BY <1>4, <1>6, SessionTyped DEF StreamInv
    <3> QED BY <1>1, <3>1 DEF ApplyDelta
  <2>2. sessions' \in Seq(SessionViews) BY <2>1, MappedViews DEF StreamInv, StreamTypeOK
  <2> QED BY <1>1, <1>2, <2>2 DEF StreamInv, StreamTypeOK
<1>8. WorkerInv' /\ StoredInv' BY <1>1 DEF StreamInv, WorkerInv, StoredInv, Past, Whole
<1>9. ListInv'
  <2> SUFFICES ASSUME NEW i \in DOMAIN sessions
               PROVE  IF sessions'[i].mine THEN MineInv(sessions[i])'
                                           ELSE Past(sessions[i].row)'
    BY <1>5 DEF ListInv
  <2>1. CASE sessions[i].mine
    <3>1. MineInv(sessions[i]) BY <2>1 DEF StreamInv, ListInv
    <3>2. sessions[i].row.status = "STREAMING" /\ sessions[i].row.count = 2
          /\ sessions[i].id = turn.id
      BY <1>1, <3>1 DEF MineInv
    <3>3. turn.end = "none" BY <1>1 DEF StreamInv, PhaseInv
    <3>4. Spoken(sessions[i].row.text)'
      <4> DEFINE t == Len(sessions[i].row.text)
      <4>1. t + 1 <= worker.said BY <1>3, <2>1
      <4>2. sessions'[i].row.text = Words(t + 1) /\ Len(sessions'[i].row.text) = t + 1
        BY <1>6, <2>1
      <4> QED BY <1>1, <4>1, <4>2 DEF Spoken
    <3>5. /\ sessions'[i].id = turn.id /\ sessions'[i].row.count = 2
          /\ sessions'[i].row.status = "STREAMING"
      BY <1>6, <2>1, <3>2
    <3>6. MineInv(sessions[i])' BY <1>1, <3>3, <3>4, <3>5 DEF MineInv
    <3> QED BY <1>6, <2>1, <3>6
  <2>2. CASE ~sessions[i].mine
    <3>1. Past(sessions[i].row) BY <2>2 DEF StreamInv, ListInv
    <3> QED BY <1>1, <1>4, <2>2, <3>1 DEF Past
  <2> QED BY <2>1, <2>2
<1>10. PhaseInv'
  <2>2. Deltas(channel) => Deltas(channel') BY <1>1, PartsTyped, DeltasMove
  <2>3. Deltas(bridge.queue)' /\ (socket'.open = TRUE => Deltas(socket.frames)')
    BY <1>1 DEF StreamInv, PhaseInv
  <2> QED BY <1>1, <2>2, <2>3 DEF StreamInv, PhaseInv
<1>11. FlowInv'
  <2> SUFFICES ASSUME NEW i \in DOMAIN sessions, sessions[i].mine
               PROVE  Flow(Len(sessions[i].row.text))'
    BY <1>4, <1>5 DEF FlowInv
  <2> DEFINE t == Len(sessions[i].row.text)
             b == t + Len(channel)
             d == t + Len(channel) + Len(socket.frames)
  <2>1. /\ t \in Nat /\ b = t + Len(channel) /\ d = b + Len(socket.frames)
        /\ shell = "reading" => Counted(socket.frames, b, worker.said, Whole)
        /\ socket.open = TRUE => /\ Counted(bridge.queue, d, worker.said, Whole)
                                 /\ d + Len(bridge.queue) = worker.said
    BY <1>1, FlowOf
  <2>2. Counted(channel', t + 1, worker.said, Whole) /\ Len(channel') = Len(channel) - 1
    BY <1>3
  <2>3. Len(sessions'[i].row.text) = t + 1 BY <1>6
  <2> HIDE DEF t, b, d
  <2>4. t + 1 + Len(channel') = b BY <2>1, <2>2, PartsTyped
  <2>5. t + 1 + Len(channel') + Len(socket.frames) = d BY <2>1, <2>4
  <2> QED BY <1>1, <2>1, <2>2, <2>3, <2>4, <2>5 DEF Flow, Whole
<1> QED BY <1>7, <1>8, <1>9, <1>10, <1>11 DEF StreamInv

\* The end of the turn: complete, in error, or the end of the shell's call.
LEMMA DeliverTerminalKeeps == ASSUME StreamInv, DeliverTerminal PROVE StreamInv'
<1>1. /\ UNCHANGED <<bridge, worker, stored, socket, shell, poll, refreshes>>
      /\ turn.pc = "streaming" /\ turn'.pc = "done" /\ turn'.id = turn.id
      /\ turn' \in [pc : {"idle", "streaming", "done"}, id : {"TEMP", "REAL"},
                    end : {"none", "complete", "error", "resolved", "rejected"}]
      /\ channel' = <<>>
  BY DEF DeliverTerminal, EndTurn, PageVars, StreamInv, StreamTypeOK
<1>2. channel' \in Seq(Frames) BY <1>1, EmptySeq
<1>3. \/ ApplyError /\ turn'.end # "complete"
      \/ ApplyComplete(FALSE) /\ turn'.end # "complete"
      \/ ApplyComplete(TRUE) /\ channel # <<>> /\ Head(channel).event = "complete"
  BY DEF DeliverTerminal, EndTurn, StreamInv, StreamTypeOK
\* A session of its own ends with one of the two statuses, whole after the complete event.
<1>4. ASSUME NEW i \in DOMAIN sessions
      PROVE  /\ sessions'[i] \in SessionViews /\ sessions'[i].mine = sessions[i].mine
             /\ ~sessions[i].mine => sessions'[i].row = sessions[i].row
             /\ sessions[i].mine =>
                  /\ sessions'[i].row.count = 2
                  /\ sessions'[i].row.status \in {"COMPLETED", "ERROR"}
                  /\ \/ Spoken(sessions'[i].row.text)
                     \/ sessions'[i].row.text = Notice /\ sessions'[i].row.status = "ERROR"
                  /\ turn'.end = "complete" =>
                       /\ Whole /\ sessions'[i].row.status = "COMPLETED"
                       /\ Len(sessions'[i].row.text) = worker.said
  <2>1. sessions[i] \in SessionViews /\ sessions[i].row \in SessionRows
    BY SessionTyped DEF StreamInv
  <2>2. sessions[i].mine => sessions[i].row.count = 2 /\ Spoken(sessions[i].row.text)
    BY <1>1 DEF StreamInv, ListInv, MineInv
  <2>3. CASE ApplyError /\ turn'.end # "complete"
    <3> DEFINE text == IF sessions[i].row.text = <<>> THEN Notice ELSE sessions[i].row.text
               row == Failed(sessions[i].row)
    <3>1. text \in Seq(Nat) /\ (text = sessions[i].row.text \/ text = Notice)
      BY <2>1, WordsProperties DEF SessionRows
    <3>2. /\ row \in SessionRows /\ row.text = text /\ row.status = "ERROR"
          /\ row.count = sessions[i].row.count
      BY <2>1, <3>1 DEF SessionRows, Failed
    <3> HIDE DEF text
    <3>3. sessions'[i] = IF sessions[i].mine THEN [sessions[i] EXCEPT !.row = row]
                                             ELSE sessions[i]
      <4>1. sessions[i].mine => sessions[i].id = turn.id
        BY <1>1 DEF StreamInv, ListInv, MineInv
      <4> QED BY <2>3, <4>1 DEF ApplyError
    <3> HIDE DEF row
    <3>4. CASE sessions[i].mine
      <4>1. sessions'[i] \in SessionViews /\ sessions'[i].mine /\ sessions'[i].row = row
        BY <2>1, <3>2, <3>3, <3>4 DEF SessionViews
      <4> QED BY <2>2, <2>3, <3>1, <3>2, <3>4, <4>1
    <3> QED BY <2>1, <3>3, <3>4
  <2>4. ASSUME NEW known \in BOOLEAN, ApplyComplete(known)
        PROVE  /\ sessions'[i] \in SessionViews /\ sessions'[i].mine = sessions[i].mine
               /\ sessions'[i].row.text = sessions[i].row.text
               /\ sessions'[i].row.count = sessions[i].row.count
               /\ ~sessions[i].mine => sessions'[i].row = sessions[i].row
               /\ sessions[i].mine => sessions'[i].row.status = "COMPLETED"
    <3> DEFINE row == [sessions[i].row EXCEPT
                         !.status = IF sessions[i].mine THEN "COMPLETED" ELSE @]
               id == IF known THEN "REAL" ELSE sessions[i].id
    <3>1. /\ row \in SessionRows /\ row.text = sessions[i].row.text
          /\ row.count = sessions[i].row.count
          /\ ~sessions[i].mine => row = sessions[i].row
          /\ sessions[i].mine => row.status = "COMPLETED"
      BY <2>1 DEF SessionRows
    <3>2. id \in {"TEMP", "REAL"} BY <2>1 DEF SessionViews
    <3>3. sessions'[i] = [sessions[i] EXCEPT !.id = id, !.row = row]
      BY <2>1, <2>4 DEF ApplyComplete, SessionViews
    <3> HIDE DEF row, id
    <3>4. /\ sessions'[i] \in SessionViews /\ sessions'[i].mine = sessions[i].mine
          /\ sessions'[i].row = row
      BY <2>1, <3>1, <3>2, <3>3 DEF SessionViews
    <3> QED BY <3>1, <3>4
  <2>5. CASE ApplyComplete(FALSE) /\ turn'.end # "complete" BY <2>2, <2>4, <2>5
  <2>6. CASE ApplyComplete(TRUE) /\ channel # <<>> /\ Head(channel).event = "complete"
    <3>1. ASSUME sessions[i].mine PROVE Whole /\ Len(sessions[i].row.text) = worker.said
      <4> DEFINE t == Len(sessions[i].row.text)
      <4>1. Counted(channel, t, worker.said, Whole) /\ t \in Nat /\ worker.said \in Nat
        BY <1>1, <3>1, FlowOf
      <4> HIDE DEF t
      <4>2. Whole /\ t = worker.said BY <2>6, <4>1, PartsTyped, CountedEnd
      <4> QED BY <4>2 DEF t
    <3> QED BY <2>2, <2>4, <2>6, <3>1
  <2> QED BY <1>3, <2>3, <2>5, <2>6
<1>5. DOMAIN sessions' = DOMAIN sessions BY <1>3 DEF ApplyError, ApplyComplete
<1>6. StreamTypeOK'
  <2>1. sessions' \in [DOMAIN sessions -> SessionViews]
    BY <1>3, <1>4 DEF ApplyError, ApplyComplete
  <2>2. sessions' \in Seq(SessionViews) BY <2>1, MappedViews DEF StreamInv, StreamTypeOK
  <2> QED BY <1>1, <1>2, <2>2 DEF StreamInv, StreamTypeOK
<1>7. WorkerInv' /\ StoredInv' BY <1>1 DEF StreamInv, WorkerInv, StoredInv, Past, Whole
<1>8. ListInv'
  <2> SUFFICES ASSUME NEW i \in DOMAIN sessions
               PROVE  IF sessions'[i].mine THEN MineInv(sessions[i])'
                                           ELSE Past(sessions[i].row)'
    BY <1>5 DEF ListInv
  <2>1. CASE sessions[i].mine
    <3>2. Whole' <=> Whole BY <1>1 DEF Whole
    <3>3. /\ sessions'[i].mine /\ sessions'[i].row.count = 2
          /\ sessions'[i].row.status \in {"COMPLETED", "ERROR"}
          /\ \/ Spoken(sessions[i].row.text)'
             \/ sessions'[i].row.text = Notice /\ sessions'[i].row.status = "ERROR"
          /\ turn'.end = "complete" =>
               /\ Whole' /\ sessions'[i].row.status = "COMPLETED"
               /\ Len(sessions'[i].row.text) = worker'.said
      BY <1>1, <1>4, <2>1, <3>2 DEF Spoken
    <3> QED BY <1>1, <3>3 DEF MineInv
  <2>2. CASE ~sessions[i].mine
    <3>1. Past(sessions[i].row) BY <2>2 DEF StreamInv, ListInv
    <3> QED BY <1>1, <1>4, <2>2, <3>1 DEF Past
  <2> QED BY <2>1, <2>2
<1>9. PhaseInv'
  <2>1. Deltas(<<>>) BY DEF Deltas
  <2>2. Deltas(bridge.queue)' /\ (socket'.open = TRUE => Deltas(socket.frames)')
    BY <1>1 DEF StreamInv, PhaseInv
  <2> QED BY <1>1, <2>1, <2>2 DEF StreamInv, PhaseInv
<1>10. FlowInv' BY <1>1 DEF FlowInv
<1> QED BY <1>6, <1>7, <1>8, <1>9, <1>10 DEF StreamInv

LEMMA FetchSessionsKeeps == ASSUME StreamInv, FetchSessions PROVE StreamInv'
<1>1. /\ UNCHANGED <<bridge, worker, stored, socket, shell, channel, turn, sessions>>
      /\ poll' = <<stored>> /\ refreshes' = refreshes + 1
  BY DEF FetchSessions
<1>2. poll'[1] = stored /\ poll' = <<poll'[1]>> BY <1>1
<1>3. StreamTypeOK' BY <1>1, <1>2 DEF StreamInv, StreamTypeOK
<1>4. WorkerInv' BY <1>1 DEF StreamInv, WorkerInv, Whole
<1>5. StoredInv'
  <2>1. Past(poll[1])' BY <1>1, <1>2 DEF StreamInv, StoredInv, Past
  <2> QED BY <1>1, <2>1 DEF StreamInv, StoredInv, Past, Whole
<1>6. PhaseInv' BY <1>1 DEF StreamInv, PhaseInv, Deltas
<1>7. ListInv' BY <1>1, ListKept DEF StreamInv, StreamTypeOK, TurnWorkers, Whole
<1>8. FlowInv' BY <1>1, FlowKept DEF Whole
<1> QED BY <1>3, <1>4, <1>5, <1>6, <1>7, <1>8 DEF StreamInv

-----------------------------------------------------------------------------
(* The list a poll brings.                                                  *)

\* Merging keeps every session that is being written or failed, or is ahead of the row, and
\* everything it puts in is the row.
LEMMA MergeProperties ==
  ASSUME NEW local \in Seq(SessionViews), NEW row \in SessionRows
  PROVE  /\ Merge(local, row) \in Seq(SessionViews)
         /\ DOMAIN local \subseteq DOMAIN Merge(local, row)
         /\ \A i \in DOMAIN local :
              \/ Merge(local, row)[i] = local[i]
              \/ /\ Merge(local, row)[i] = View("REAL", row, FALSE)
                 /\ ~Busy(local[i]) /\ local[i].row.count <= row.count
         /\ \A i \in DOMAIN Merge(local, row) :
              i \in DOMAIN local \/ Merge(local, row)[i] = View("REAL", row, FALSE)
<1> DEFINE v == View("REAL", row, FALSE)
           held(s) == s.id = "TEMP" \/ row = NoRow \/ Busy(s) \/ s.row.count > row.count
           kept == [i \in DOMAIN local |-> IF held(local[i]) THEN local[i] ELSE v]
<1>1. v \in SessionViews BY DEF View, SessionViews
<1>2. row.count \in 0..2 /\ \A i \in DOMAIN local : local[i].row.count \in 0..2
  <2>1. \A s \in SessionViews : s.row \in SessionRows BY DEF SessionViews
  <2>2. \A r \in SessionRows : r.count \in 0..2 BY DEF SessionRows
  <2> QED BY <2>1, <2>2
<1>3. Merge(local, row) = kept \/ Merge(local, row) = Append(kept, v) BY Zenon DEF Merge
<1> HIDE DEF v
<1>4. kept \in [DOMAIN local -> SessionViews] BY <1>1
<1>5. kept \in Seq(SessionViews) /\ DOMAIN kept = DOMAIN local BY <1>4, MappedViews
<1>6. \A i \in DOMAIN local :
        \/ kept[i] = local[i]
        \/ kept[i] = v /\ ~Busy(local[i]) /\ local[i].row.count <= row.count
  BY <1>2
<1> HIDE DEF kept
<1>7. CASE Merge(local, row) = kept BY <1>5, <1>6, <1>7 DEF v
<1>8. CASE Merge(local, row) = Append(kept, v)
  <2>1. /\ Append(kept, v) \in Seq(SessionViews) /\ Append(kept, v)[Len(kept) + 1] = v
        /\ \A i \in 1..Len(kept) : Append(kept, v)[i] = kept[i]
        /\ DOMAIN Append(kept, v) = 1..(Len(kept) + 1) /\ Len(kept) \in Nat
        /\ DOMAIN kept = 1..Len(kept)
    BY <1>1, <1>5, AppendProperties
  <2>2. DOMAIN local = 1..Len(kept) BY <1>5, <2>1
  <2>3. \A i \in DOMAIN local :
          i \in DOMAIN Append(kept, v) /\ Append(kept, v)[i] = kept[i]
    BY <2>1, <2>2
  <2>4. \A i \in DOMAIN Append(kept, v) : i \in DOMAIN local \/ Append(kept, v)[i] = v
    BY <2>1, <2>2
  <2>5. Append(kept, v) \in Seq(SessionViews) BY <2>1
  <2>6. \A i \in DOMAIN local :
          \/ Merge(local, row)[i] = local[i]
          \/ Merge(local, row)[i] = v /\ ~Busy(local[i]) /\ local[i].row.count <= row.count
    BY <1>6, <1>8, <2>3
  <2>7. DOMAIN local \subseteq DOMAIN Merge(local, row) BY <1>8, <2>3
  <2> QED BY <1>8, <2>4, <2>5, <2>6, <2>7 DEF v
<1> QED BY <1>3, <1>7, <1>8

LEMMA MergeSessionsKeeps == ASSUME StreamInv, MergeSessions PROVE StreamInv'
<1> DEFINE row == poll[1]
<1>1. /\ UNCHANGED <<bridge, worker, stored, socket, shell, channel, turn, refreshes>>
      /\ sessions' = Merge(sessions, row) /\ poll' = NoPoll
      /\ row \in SessionRows /\ Past(row)
  BY DEF MergeSessions, StreamInv, StreamTypeOK, StoredInv
<1> HIDE DEF row
<1>2. /\ sessions' \in Seq(SessionViews)
      /\ \A i \in DOMAIN sessions' :
           \/ i \in DOMAIN sessions /\ sessions'[i] = sessions[i]
           \/ sessions'[i] = View("REAL", row, FALSE)
  BY <1>1, MergeProperties DEF StreamInv, StreamTypeOK
<1>3. View("REAL", row, FALSE).mine = FALSE /\ View("REAL", row, FALSE).row = row BY DEF View
<1>4. StreamTypeOK' BY <1>1, <1>2 DEF StreamInv, StreamTypeOK
<1>5. WorkerInv' /\ StoredInv' BY <1>1 DEF StreamInv, WorkerInv, StoredInv, Past, Whole
<1>6. PhaseInv' BY <1>1 DEF StreamInv, PhaseInv, Deltas
<1>7. ListInv'
  <2> SUFFICES ASSUME NEW i \in DOMAIN sessions'
               PROVE  IF sessions'[i].mine THEN MineInv(sessions[i])'
                                           ELSE Past(sessions[i].row)'
    BY DEF ListInv
  <2>1. CASE i \in DOMAIN sessions /\ sessions'[i] = sessions[i]
    BY <1>1, <2>1 DEF StreamInv, ListInv, MineInv, Spoken, Past, Whole
  <2>2. CASE sessions'[i] = View("REAL", row, FALSE)
    BY <1>1, <1>3, <2>2 DEF Past
  <2> QED BY <1>2, <2>1, <2>2
<1>8. FlowInv'
  <2>1. \A i \in DOMAIN sessions' :
          sessions'[i].mine => i \in DOMAIN sessions /\ sessions'[i] = sessions[i]
    BY <1>2, <1>3
  <2> QED BY <1>1, <2>1 DEF StreamInv, FlowInv, Flow, Whole
<1> QED BY <1>4, <1>5, <1>6, <1>7, <1>8 DEF StreamInv

LEMMA StreamStep == StreamInv /\ [StreamNext]_streamVars => StreamInv'
<1> SUFFICES ASSUME StreamInv, [StreamNext]_streamVars PROVE StreamInv' OBVIOUS
<1>1. CASE UNCHANGED streamVars
  <2>1. StreamTypeOK' /\ WorkerInv' /\ StoredInv' /\ PhaseInv'
    BY <1>1 DEF streamVars, StreamInv, StreamTypeOK, WorkerInv, StoredInv, PhaseInv, Deltas,
                Past, Whole
  <2>2. ListInv' BY <1>1, ListKept DEF streamVars, StreamInv, StreamTypeOK, TurnWorkers, Whole
  <2>3. FlowInv' BY <1>1, FlowKept DEF streamVars, Whole
  <2> QED BY <2>1, <2>2, <2>3 DEF StreamInv
<1> QED
  BY <1>1, NextWordKeeps, AnnounceKeeps, BackendDiesKeeps, StoreReplyKeeps, SendWordKeeps,
     DrainItemKeeps, DrainTerminalKeeps, ForwardFrameKeeps, StreamFailsKeeps, OpenStreamKeeps,
     SendMessageKeeps, DeliverDeltaKeeps, DeliverTerminalKeeps, FetchSessionsKeeps,
     MergeSessionsKeeps
  DEF StreamNext, WorkerTurn, WriterTurn, PageTurn, StreamDone

\* The invariant holds of every reachable state.
THEOREM StreamInvariance == StreamSpec => []StreamInv
<1> QED BY StreamInitially, StreamStep, PTL DEF StreamSpec

\* A streamed turn keeps its types, from the worker to the screen.
THEOREM StreamTypeCorrect == StreamSpec => []StreamTypeOK
<1>1. StreamInv => StreamTypeOK BY DEF StreamInv
<1> QED BY <1>1, StreamInvariance, PTL

\* For every length of an answer, bound of the bridge and number of polls: the page shows what
\* was said word for word, all of it when the complete event ended the turn, and any other
\* reply it shows is the stored one.
THEOREM CompletedTheorem == StreamSpec => []CompletedMeansWhole
<1>1. ASSUME StreamInv PROVE CompletedMeansWhole
  <2> SUFFICES ASSUME NEW i \in DOMAIN sessions
               PROVE  LET row == sessions[i].row IN
                      IF sessions[i].mine
                      THEN /\ \/ row.text = Words(Len(row.text)) /\ Len(row.text) <= worker.said
                              \/ row.text = Notice /\ row.status = "ERROR"
                           /\ turn.end = "complete" =>
                                /\ row.status = "COMPLETED" /\ Len(row.text) = worker.said
                                /\ stored.count = 2 /\ stored.status = "COMPLETED"
                      ELSE row.count = 2 => row = stored
    BY DEF CompletedMeansWhole
  <2>1. IF sessions[i].mine THEN MineInv(sessions[i]) ELSE Past(sessions[i].row)
    BY <1>1 DEF StreamInv, ListInv
  <2>2. CASE sessions[i].mine
    <3>1. MineInv(sessions[i]) BY <2>1, <2>2
    <3>2. Whole => stored.count = 2 /\ stored.status = "COMPLETED"
      BY <1>1 DEF StreamInv, WorkerInv
    <3> QED BY <2>2, <3>1, <3>2 DEF MineInv, Spoken
  <2>3. CASE ~sessions[i].mine BY <2>1, <2>3 DEF Past
  <2> QED BY <2>2, <2>3
<1> QED BY <1>1, StreamInvariance, PTL

\* Once the page has shown the end of a turn, no step takes a session away, shortens it or
\* puts another reply in it than the stored one.
THEOREM ShownTheorem == StreamSpec => ShownAnswerStays
<1> DEFINE Stays == turn.pc = "done" => \A i \in DOMAIN sessions :
             /\ i \in DOMAIN sessions'
             /\ sessions'[i] # sessions[i] =>
                  /\ ~sessions'[i].mine /\ sessions'[i].row.count >= sessions[i].row.count
                  /\ sessions'[i].row.count = 2 => sessions'[i].row = stored
<1>1. ASSUME StreamInv, StreamNext PROVE Stays
  <2> SUFFICES ASSUME turn.pc = "done", NEW i \in DOMAIN sessions
               PROVE  /\ i \in DOMAIN sessions'
                      /\ sessions'[i] # sessions[i] =>
                           /\ ~sessions'[i].mine
                           /\ sessions'[i].row.count >= sessions[i].row.count
                           /\ sessions'[i].row.count = 2 => sessions'[i].row = stored
    OBVIOUS
  <2>1. sessions[i].row.count \in 0..2 BY <1>1, SessionTyped DEF StreamInv
  <2>2. CASE UNCHANGED sessions BY <2>2
  <2>3. CASE MergeSessions
    <3> DEFINE row == poll[1]
    <3>1. sessions' = Merge(sessions, row) /\ row \in SessionRows /\ Past(row)
      BY <1>1, <2>3 DEF MergeSessions, StreamInv, StreamTypeOK, StoredInv
    <3> HIDE DEF row
    <3>2. /\ i \in DOMAIN sessions'
          /\ \/ sessions'[i] = sessions[i]
             \/ /\ sessions'[i] = View("REAL", row, FALSE)
                /\ ~Busy(sessions[i]) /\ sessions[i].row.count <= row.count
      BY <1>1, <3>1, MergeProperties DEF StreamInv, StreamTypeOK
    <3>3. CASE sessions'[i] = sessions[i] BY <3>2, <3>3
    <3>4. CASE /\ sessions'[i] = View("REAL", row, FALSE)
               /\ ~Busy(sessions[i]) /\ sessions[i].row.count <= row.count
      <4>1. sessions'[i].row = row /\ sessions'[i].mine = FALSE BY <3>4 DEF View
      <4>2. row.count \in 0..2 BY <3>1 DEF SessionRows
      <4>3. row.count = 2 => row = stored BY <3>1 DEF Past
      <4> QED BY <2>1, <3>2, <3>4, <4>1, <4>2, <4>3
    <3> QED BY <3>2, <3>3, <3>4
  <2>4. UNCHANGED sessions \/ MergeSessions
    BY <1>1 DEF StreamNext, SendMessage, OpenStream, WorkerTurn, NextWord, SendWord, StoreReply,
         Announce, WorkerRaises, BackendDies, WriterTurn, DrainItem, DrainTerminal, WriterVars,
         ForwardFrame, StreamFails, ShellVars, PageTurn, DeliverDelta, DeliverTerminal, EndTurn,
         FetchSessions, StreamDone, streamVars
  <2> QED BY <2>2, <2>3, <2>4
<1>2. StreamInv /\ [StreamNext]_streamVars => [Stays]_streamVars BY <1>1
<1> QED BY <1>2, StreamInvariance, PTL DEF StreamSpec, ShownAnswerStays

-----------------------------------------------------------------------------
(* The stored history of a chat.                                            *)

\* Types while nobody deletes the chat: a reply is tried once.
MessageIds ==
  {<<Earlier[i]>> : i \in DOMAIN Earlier} \union {<<r, "q">> : r \in Requests}
    \union {<<r, "a", 0>> : r \in Requests}
MessageRows ==
  [id : MessageIds, role : {"USER", "ASSISTANT"}, seq : Nat, text : Nat]

Titles == {Fresh, "First words", "Renamed"}

\* The stages of a request, by what it has done.
Unasked     == {"idle", "askLoad", "askWrite"}
Revising    == {"editFind", "editWrite", "editLoad"}
WritingBack == {"askRow", "askList", "editRow", "editList", "answerRow", "answerList"}
Answered    == {"answerRow", "answerList", "done"}
RequestStages ==
  Unasked \union Revising \union WritingBack \union Answered
    \union {"title", "run", "answerLoad", "answerWrite"}

Progress ==
  [kind : {"none", "send", "stream", "edit", "again"}, pc : RequestStages,
   opened : Titles, title : Titles, snap : Seq(MessageRows),
   own : MessageRows \union {<<>>}, todo : Nat, target : MessageIds \union {<<>>}, tries : {0}]

Stored == IdsOf(messages)
AnswerIds(r) == {<<r, "a", 0>>, <<r, "a", 1>>}

\* The table: one row for each id, numbered below the number of rows.
TableOK ==
  /\ messages \subseteq MessageRows /\ IsFiniteSet(messages)
  /\ \A m \in messages, n \in messages : m.id = n.id => m = n
  /\ \A m \in messages : m.seq < Cardinality(messages)

\* What a request holds is stored already, but for the one message it is about to save; that
\* one is numbered no lower than the question it answers, and none answers before.
RequestOK(r) ==
  LET q == req[r] IN
  /\ q.pc \notin Answered => AnswerIds(r) \intersect Stored = {}
  /\ q.pc \notin Unasked \union {"done"} => q.target \in Stored
  /\ AnswerIds(r) \intersect Stored # {} => q.target \in Stored
  /\ \A a \in AnswerIds(r) : \A s \in Seqs(a), t \in Seqs(q.target) : t < s
  /\ q.pc \in {"askLoad", "askWrite"} => q.target = <<r, "q">>
  /\ q.pc = "askWrite" => q.own \in MessageRows /\ q.own.id = <<r, "q">>
  /\ q.pc = "answerWrite" => /\ q.own \in MessageRows /\ q.own.id = <<r, "a", 0>>
                             /\ \A t \in Seqs(q.target) : t < q.own.seq
  /\ q.pc \in {"askWrite", "answerWrite"} =>
       /\ q.own.seq <= Cardinality(messages)
       /\ \A i \in DOMAIN q.snap : q.snap[i].id \in Stored \union {q.own.id}
  /\ q.pc \in {"editWrite", "editLoad"} => q.own \in MessageRows /\ q.own.id \in Stored
  /\ q.pc \in WritingBack => \A i \in DOMAIN q.snap : q.snap[i].id \in Stored
  /\ q.pc \in {"askList", "editList", "answerList"} => q.todo > 0

\* A chat that was never deleted; what a deletion leaves to the requests under way is not
\* constrained.
HistoryOK ==
  /\ chat.live /\ chat \in [live : BOOLEAN, title : Titles]
  /\ TableOK /\ req \in [Requests -> Progress]
  /\ \A r \in Requests : RequestOK(r)

HistoryInv == deletes \in Nat /\ (deletes = 0 => HistoryOK)

-----------------------------------------------------------------------------
(* The rows, as one statement reads and changes them. *)

LEMMA RowFields ==
  ASSUME NEW m \in MessageRows, NEW s \in Nat
  PROVE  /\ [m EXCEPT !.seq = s] \in MessageRows
         /\ [m EXCEPT !.seq = s].id = m.id /\ [m EXCEPT !.seq = s].seq = s
         /\ [m EXCEPT !.text = m.text + 1] \in MessageRows
         /\ [m EXCEPT !.text = m.text + 1].id = m.id
BY DEF MessageRows

\* A listing has each row's place once: as many entries as rows, and only rows.
LEMMA ListingRows ==
  ASSUME TableOK
  PROVE  /\ Listing \in [1..Cardinality(messages) -> messages]
         /\ Listing \in Seq(messages) /\ Len(Listing) = Cardinality(messages)
<1> DEFINE row == SetToSeq(messages)
           n == Cardinality(messages)
           Up(i) == {j \in DOMAIN row :
                       row[j].seq < row[i].seq \/ (row[j].seq = row[i].seq /\ j <= i)}
           Place(i) == Cardinality(Up(i))
           place == [i \in 1..n |-> Place(i)]
<1>1. n \in Nat /\ ExistsBijection(1..n, messages) BY FS_CardinalityType DEF TableOK
<1>2. PICK f \in [1..n -> messages] : IsInjective(f)
  BY <1>1, Zenon DEF ExistsBijection, Bijection, Injection
<1>3. row \in [1..n -> messages] BY <1>2, Zenon DEF SetToSeq
<1>4. IsFiniteSet(1..n) /\ Cardinality(1..n) = n
  <2>1. 1 \in Int /\ n \in Int BY <1>1
  <2>2. IsFiniteSet(1..n) /\ Cardinality(1..n) = IF 1 > n THEN 0 ELSE n - 1 + 1
    BY <2>1, FS_Interval, Zenon
  <2> QED BY <1>1, <2>2
<1>5. \A i \in 1..n : row[i].seq \in Nat BY <1>3 DEF TableOK, MessageRows
<1>6. DOMAIN row = 1..n BY <1>3
<1>7. \A i \in 1..n : Up(i) \subseteq 1..n /\ i \in Up(i) BY <1>5, <1>6
<1>8. \A i, j \in 1..n : Up(i) \subseteq Up(j) \/ Up(j) \subseteq Up(i) BY <1>5, <1>6
<1>9. \A i, j \in 1..n : i # j => ~(i \in Up(j) /\ j \in Up(i)) BY <1>5, <1>6
<1> HIDE DEF row, n, Up
<1>10. \A i \in 1..n : IsFiniteSet(Up(i)) /\ Place(i) \in 1..n
  <2> TAKE i \in 1..n
  <2>1. Up(i) \in SUBSET (1..n) /\ Up(i) # {} BY <1>7
  <2>2. IsFiniteSet(Up(i)) /\ Cardinality(Up(i)) <= Cardinality(1..n)
    BY <1>4, <2>1, FS_Subset, Zenon
  <2>3. Cardinality(Up(i)) \in Nat /\ Cardinality(Up(i)) # 0
    BY <2>1, <2>2, FS_CardinalityType, FS_EmptySet
  <2> QED BY <1>1, <1>4, <2>2, <2>3
<1>11. \A i, j \in 1..n : Place(i) = Place(j) => i = j
  <2> SUFFICES ASSUME NEW i \in 1..n, NEW j \in 1..n, Place(i) = Place(j) PROVE i = j
    OBVIOUS
  <2>1. Up(i) \subseteq Up(j) => Up(i) = Up(j) BY <1>10, FS_Subset
  <2>2. Up(j) \subseteq Up(i) => Up(i) = Up(j) BY <1>10, FS_Subset
  <2> QED BY <1>7, <1>8, <1>9, <2>1, <2>2
<1>12. place \in Injection(1..n, 1..n) BY <1>10, <1>11 DEF Injection, IsInjective, place
<1>13. place \in Surjection(1..n, 1..n) BY <1>4, <1>12, FS_Injection
<1>14. \A k \in 1..n : \E i \in 1..n : Place(i) = k BY <1>13 DEF Surjection
<1> HIDE DEF Place, place
<1> DEFINE list == [k \in 1..n |-> row[CHOOSE i \in 1..n : Place(i) = k]]
<1>15. list \in [1..n -> messages] BY <1>3, <1>14
<1>16. Listing = list BY <1>6 DEF Listing, row, Place, Up
<1> HIDE DEF list
<1>17. Listing \in [1..n -> messages] BY <1>15, <1>16
<1>18. Listing \in Seq(messages) /\ Len(Listing) = n BY <1>1, <1>17
<1> QED BY <1>17, <1>18 DEF n

\* A message under a new id becomes the last row.
LEMMA UpsertedNew ==
  ASSUME TableOK, NEW m \in MessageRows, m.id \notin Stored, m.seq <= Cardinality(messages),
         messages' = Upserted(m)
  PROVE  /\ TableOK' /\ Cardinality(messages)' = Cardinality(messages) + 1
         /\ Stored' = Stored \union {m.id}
         /\ \A id \in Stored : Seqs(id)' = Seqs(id)
         /\ Seqs(m.id)' = {m.seq} /\ Seqs(m.id) = {}
<1>1. messages' = messages \union {m} /\ m \notin messages BY DEF Upserted, Stored, IdsOf
<1>2. Cardinality(messages) \in Nat BY FS_CardinalityType DEF TableOK
<1>3. IsFiniteSet(messages') /\ Cardinality(messages') = Cardinality(messages) + 1
  BY <1>1, FS_AddElement DEF TableOK
<1>4. \A k \in messages : k.seq \in Nat /\ k.id # m.id /\ k.id \in Stored
  BY DEF TableOK, MessageRows, Stored, IdsOf
<1>5. m.seq \in Nat BY DEF MessageRows
<1>6. TableOK'
  <2>1. \A k \in messages', l \in messages' : k.id = l.id => k = l
    BY <1>1, <1>4 DEF TableOK
  <2>2. \A k \in messages' : k.seq < Cardinality(messages')
    BY <1>1, <1>2, <1>3, <1>4, <1>5 DEF TableOK
  <2> QED BY <1>1, <1>3, <2>1, <2>2 DEF TableOK
<1>7. Stored' = Stored \union {m.id} BY <1>1 DEF Stored, IdsOf
<1>8. \A id \in Stored : Seqs(id)' = Seqs(id) BY <1>1 DEF Seqs
<1>9. Seqs(m.id)' = {m.seq} /\ Seqs(m.id) = {} BY <1>1, <1>4 DEF Seqs
<1> QED BY <1>3, <1>6, <1>7, <1>8, <1>9

\* A message under a stored id replaces its row and leaves every number alone.
LEMMA UpsertedOld ==
  ASSUME TableOK, NEW m \in MessageRows, m.id \in Stored, messages' = Upserted(m)
  PROVE  /\ TableOK' /\ Cardinality(messages)' = Cardinality(messages)
         /\ Stored' = Stored /\ \A id \in Stored : Seqs(id)' = Seqs(id)
<1>1. PICK n \in messages : n.id = m.id BY DEF Stored, IdsOf
<1>2. {k \in messages : k.id = m.id} = {n} BY <1>1 DEF TableOK
<1> DEFINE new == [m EXCEPT !.seq = n.seq]
<1>3. messages' = (messages \ {n}) \union {new} BY <1>2 DEF Upserted
<1>4. n \in MessageRows /\ n.seq \in Nat BY <1>1 DEF TableOK, MessageRows
<1>5. new \in MessageRows /\ new.id = n.id /\ new.seq = n.seq BY <1>1, <1>4, RowFields
<1> HIDE DEF new
<1>6. Cardinality(messages) \in Nat /\ Cardinality(messages) # 0
  BY <1>1, FS_CardinalityType, FS_EmptySet DEF TableOK
<1>7. IsFiniteSet(messages \ {n}) /\ Cardinality(messages \ {n}) = Cardinality(messages) - 1
  BY <1>1, FS_RemoveElement DEF TableOK
<1>8. new \notin messages \ {n} BY <1>1, <1>5 DEF TableOK
<1>9. IsFiniteSet(messages') /\ Cardinality(messages') = Cardinality(messages)
  <2>1. /\ IsFiniteSet((messages \ {n}) \union {new})
        /\ Cardinality((messages \ {n}) \union {new}) = Cardinality(messages \ {n}) + 1
    BY <1>7, <1>8, FS_AddElement
  <2> QED BY <1>3, <1>6, <1>7, <2>1
<1>10. \A k \in messages : k # n => k.id # n.id BY <1>1 DEF TableOK
<1>11. TableOK' BY <1>1, <1>3, <1>4, <1>5, <1>9, <1>10 DEF TableOK
<1>12. Stored' = Stored BY <1>1, <1>3, <1>5 DEF Stored, IdsOf
<1>13. \A id : Seqs(id)' = Seqs(id)
  <2> SUFFICES ASSUME NEW id PROVE Seqs(id)' = Seqs(id) OBVIOUS
  <2>1. Seqs(id)' = {k.seq : k \in {l \in messages' : l.id = id}} BY DEF Seqs
  <2> QED BY <1>1, <1>3, <1>5, <2>1 DEF Seqs
<1> QED BY <1>9, <1>11, <1>12, <1>13

-----------------------------------------------------------------------------
(* The requests. *)

\* Moving on keeps the question asked about and what the next stage still needs.
LEMMA GoesMoves ==
  ASSUME req \in [Requests -> Progress], NEW r \in Requests, NEW p \in RequestStages, Goes(r, p)
  PROVE  /\ req' \in [Requests -> Progress]
         /\ \A o \in Requests : o # r => req'[o] = req[o]
         /\ req'[r].pc = p /\ req'[r].target = req[r].target
         /\ p \in {"askRow", "answerRow"} => req'[r].snap = req[r].snap
         /\ p \notin {"done", "run", "answerLoad", "askRow", "answerRow"} =>
              req'[r] = [req[r] EXCEPT !.pc = p]
<1>1. req[r] \in Progress OBVIOUS
<1>2. Fresh \in Titles /\ <<>> \in Seq(MessageRows) BY EmptySeq DEF Titles
<1>3. CASE p = "done"
  <2>1. req' = [req EXCEPT ![r] = [Idle EXCEPT !.pc = "done", !.kind = req[r].kind,
                                               !.target = req[r].target]]
    BY <1>3 DEF Goes, Set
  <2>2. [Idle EXCEPT !.pc = "done", !.kind = req[r].kind, !.target = req[r].target] \in Progress
    BY <1>1, <1>2, <1>3 DEF Idle, Progress
  <2> QED BY <1>3, <2>1, <2>2 DEF Idle
<1>4. CASE p \in {"run", "answerLoad"}
  <2>1. req' = [req EXCEPT ![r] =
                  [req[r] EXCEPT !.pc = p, !.snap = <<>>, !.own = <<>>, !.title = Fresh,
                                 !.opened = Fresh, !.todo = 0]]
    BY <1>4 DEF Goes, Set
  <2> QED BY <1>1, <1>2, <1>4, <2>1 DEF Progress
<1>5. CASE p \in {"askRow", "answerRow"}
  <2>1. req' = [req EXCEPT ![r] = [req[r] EXCEPT !.pc = p, !.own = <<>>]]
    BY <1>5 DEF Goes, Set
  <2> QED BY <1>1, <1>5, <2>1 DEF Progress
<1>6. CASE p \notin {"done", "run", "answerLoad", "askRow", "answerRow"}
  <2>1. req' = [req EXCEPT ![r] = [req[r] EXCEPT !.pc = p]] BY <1>6 DEF Goes, Set
  <2> QED BY <1>1, <1>6, <2>1 DEF Progress
<1> QED BY <1>3, <1>4, <1>5, <1>6

\* Ids differ by request and by what they number.
LEMMA OwnIds ==
  ASSUME NEW r \in Requests, NEW o \in Requests
  PROVE  /\ <<r, "q">> \notin AnswerIds(o)
         /\ r # o => <<r, "a", 0>> \notin AnswerIds(o)
BY DEF AnswerIds

\* What another request may do to the table: save rows again, or add one of its own.
Grows(r) ==
  /\ TableOK /\ TableOK' /\ Cardinality(messages)' >= Cardinality(messages)
  /\ Stored \subseteq Stored' /\ Stored' \subseteq Stored \union {<<r, "q">>, <<r, "a", 0>>}
  /\ \A id \in Stored : Seqs(id)' = Seqs(id)

LEMMA OthersKeep ==
  ASSUME NEW r \in Requests, NEW o \in Requests, o # r, RequestOK(o), Grows(r),
         req'[o] = req[o], req[o] \in Progress
  PROVE  RequestOK(o)'
<1>1. AnswerIds(o) \intersect Stored' = AnswerIds(o) \intersect Stored
  BY OwnIds DEF Grows
<1>2. \A a \in AnswerIds(o) : \A s \in Seqs(a)', t \in Seqs(req[o].target)' : t < s
  <2> SUFFICES ASSUME NEW a \in AnswerIds(o), NEW s \in Seqs(a)', NEW t \in Seqs(req[o].target)'
               PROVE  t < s
    OBVIOUS
  <2>1. a \in Stored' BY DEF Seqs, Stored, IdsOf
  <2>2. a \in Stored /\ req[o].target \in Stored BY <1>1, <2>1 DEF RequestOK
  <2> QED BY <2>2 DEF RequestOK, Grows
<1>3. Cardinality(messages) \in Nat /\ Cardinality(messages)' \in Nat
  BY FS_CardinalityType DEF Grows, TableOK
<1>4. req[o].pc \notin Unasked \union {"done"} => Seqs(req[o].target)' = Seqs(req[o].target)
  BY DEF RequestOK, Grows
<1>5. req[o].pc = "answerWrite" => \A t \in Seqs(req[o].target)' : t < req[o].own.seq
  BY <1>4 DEF RequestOK, Unasked
<1>6. req[o].pc \in {"askWrite", "answerWrite"} => req[o].own.seq <= Cardinality(messages)'
  BY <1>3 DEF RequestOK, MessageRows, Grows
<1> QED BY <1>1, <1>2, <1>5, <1>6 DEF RequestOK, Grows

LEMMA SameTable == ASSUME TableOK, UNCHANGED messages PROVE \A r : Grows(r)
<1>1. Cardinality(messages) \in Nat BY FS_CardinalityType DEF TableOK
<1> QED BY <1>1 DEF Grows, TableOK, Stored, IdsOf, Seqs

\* The frame of every step: the requests it does not name stand as they stood.
LEMMA StepKeeps ==
  ASSUME HistoryOK, NEW r \in Requests, Grows(r), chat'.live,
         chat' \in [live : BOOLEAN, title : Titles], req' \in [Requests -> Progress],
         \A o \in Requests : o # r => req'[o] = req[o], RequestOK(r)'
  PROVE  HistoryOK'
<1>1. \A o \in Requests : req[o] \in Progress /\ RequestOK(o) BY DEF HistoryOK
<1>2. \A o \in Requests : o # r => RequestOK(o)' BY <1>1, OthersKeep
<1>3. TableOK' BY DEF Grows
<1> QED BY <1>2, <1>3 DEF HistoryOK

LEMMA NotYetAnswered ==
  ASSUME NEW r, AnswerIds(r) \intersect Stored = {}
  PROVE  \A a \in AnswerIds(r) : Seqs(a) = {}
BY DEF Seqs, Stored, IdsOf

\* A step that leaves the rows alone needs only the new stage's own part.
LEMMA ReadStepKeeps ==
  ASSUME HistoryOK, NEW r \in Requests, UNCHANGED <<chat, messages>>,
         req' \in [Requests -> Progress], \A o \in Requests : o # r => req'[o] = req[o],
         RequestOK(r)'
  PROVE  HistoryOK'
<1>1. Grows(r) BY SameTable DEF HistoryOK
<1> QED BY <1>1, StepKeeps DEF HistoryOK

LEMMA BeginKeeps ==
  ASSUME HistoryOK, NEW r \in Requests, NEW kind \in {"send", "stream", "edit", "again"},
         Begin(r, kind)
  PROVE  HistoryOK'
<1> USE DEF Stands
<1>1. /\ UNCHANGED <<chat, messages>> /\ req[r].pc = "idle" /\ req[r] \in Progress
      /\ RequestOK(r) /\ req \in [Requests -> Progress] /\ chat.live /\ chat.title \in Titles
  BY DEF Begin, StoreAsIs, HistoryOK
<1>2. AnswerIds(r) \intersect Stored = {} BY <1>1 DEF RequestOK, Answered
<1>3. /\ Stored' = Stored /\ \A id : Seqs(id)' = Seqs(id)
      /\ \A a \in AnswerIds(r) : Seqs(a) = {}
  BY <1>1, <1>2, NotYetAnswered DEF Stored, IdsOf, Seqs
<1>4. CASE Goes(r, "done")
  <2>1. "done" \in RequestStages BY DEF RequestStages, Answered
  <2>2. /\ req' \in [Requests -> Progress] /\ req'[r].pc = "done"
        /\ \A o \in Requests : o # r => req'[o] = req[o]
    BY <1>1, <1>4, <2>1, GoesMoves
  <2>3. RequestOK(r)' BY <1>2, <1>3, <2>2 DEF RequestOK, Answered, WritingBack
  <2> QED BY <1>1, <2>2, <2>3, ReadStepKeeps
<1>5. ASSUME NEW id \in IF kind \in {"edit", "again"} THEN LastAsked ELSE {<<r, "q">>},
             Set(r, [req[r] EXCEPT !.kind = kind, !.opened = chat.title, !.target = id,
                                   !.pc = CASE kind = "edit" -> "editFind"
                                            [] kind = "again" -> "run"
                                            [] OTHER -> "askLoad"])
      PROVE  HistoryOK'
  <2> DEFINE p == CASE kind = "edit" -> "editFind" [] kind = "again" -> "run"
                    [] OTHER -> "askLoad"
  <2>1. LastAsked \subseteq Stored /\ Stored \subseteq MessageIds
    <3>1. Listing \in Seq(messages) /\ messages \subseteq MessageRows
      BY ListingRows DEF HistoryOK, TableOK
    <3>2. \A i \in DOMAIN Listing : Listing[i] \in messages BY <3>1
    <3> QED BY <3>1, <3>2 DEF LastAsked, Stored, IdsOf, MessageRows
  <2>2. /\ p \in {"editFind", "run", "askLoad"} /\ p \in RequestStages
        /\ p # "askLoad" => id \in Stored
        /\ p = "askLoad" => id = <<r, "q">>
        /\ id \in MessageIds
    BY <1>5, <2>1 DEF RequestStages, Unasked, Revising, MessageIds
  <2>3. req' = [req EXCEPT ![r] = [req[r] EXCEPT !.kind = kind, !.opened = chat.title,
                                                 !.target = id, !.pc = p]]
    BY <1>5 DEF Set
  <2> HIDE DEF p
  <2>4. /\ req'[r] \in Progress /\ req'[r].pc = p /\ req'[r].target = id
    BY <1>1, <2>2, <2>3 DEF Progress
  <2>5. /\ req' \in [Requests -> Progress]
        /\ \A o \in Requests : o # r => req'[o] = req[o]
    BY <1>1, <2>3, <2>4
  <2>6. RequestOK(r)'
    BY <1>2, <1>3, <2>2, <2>4 DEF RequestOK, Answered, WritingBack, Unasked
  <2> QED BY <1>1, <2>5, <2>6, ReadStepKeeps
<1> QED BY <1>1, <1>4, <1>5 DEF Begin

LEMMA LoadKeeps ==
  ASSUME HistoryOK, NEW r \in Requests, LoadAndAppend(r)
  PROVE  HistoryOK'
<1> USE DEF Stands
<1> DEFINE ask == req[r].pc = "askLoad"
           id  == IF ask THEN <<r, "q">> ELSE <<r, "a", req[r].tries>>
           n   == Cardinality(messages)
           m   == Message(id, IF ask THEN "USER" ELSE "ASSISTANT", n)
           p   == IF ask THEN "askWrite" ELSE "answerWrite"
<1>1. /\ UNCHANGED <<chat, messages>> /\ req[r].pc \in {"askLoad", "answerLoad"}
      /\ req[r] \in Progress /\ RequestOK(r) /\ req \in [Requests -> Progress]
      /\ chat.live /\ chat.title \in Titles /\ TableOK
  BY DEF LoadAndAppend, StoreAsIs, HistoryOK
<1>2. /\ Listing \in Seq(messages) /\ Len(Listing) = n /\ n \in Nat
      /\ messages \subseteq MessageRows
  BY <1>1, ListingRows, FS_CardinalityType DEF TableOK
<1>3. req' = [req EXCEPT ![r] = [req[r] EXCEPT !.snap = Append(Listing, m), !.own = m,
                                               !.title = chat.title, !.pc = p]]
  BY <1>1, <1>2 DEF LoadAndAppend, Set
<1>4. id = IF ask THEN <<r, "q">> ELSE <<r, "a", 0>> BY <1>1 DEF Progress
<1>5. m \in MessageRows /\ m.id = id /\ m.seq = n
  BY <1>2, <1>4 DEF Message, MessageRows, MessageIds
<1> HIDE DEF m
<1>6. /\ Append(Listing, m) \in Seq(MessageRows)
      /\ \A i \in DOMAIN Append(Listing, m) : Append(Listing, m)[i].id \in Stored \union {m.id}
  <2>1. Listing \in Seq(MessageRows) BY <1>2
  <2>2. Append(Listing, m) \in Seq(MessageRows) BY <1>5, <2>1, AppendProperties
  <2>3. /\ \A i \in 1..Len(Listing) : Append(Listing, m)[i] = Listing[i]
        /\ Append(Listing, m)[Len(Listing) + 1] = m
        /\ Len(Append(Listing, m)) = Len(Listing) + 1
    BY <1>5, <2>1, AppendProperties
  <2>4. DOMAIN Append(Listing, m) = 1..(n + 1) BY <1>2, <2>2, <2>3
  <2>5. \A i \in 1..n : Listing[i].id \in Stored BY <1>2 DEF Stored, IdsOf
  <2> QED BY <1>2, <2>2, <2>3, <2>4, <2>5
<1>7. /\ req'[r].pc = p /\ req'[r].own = m /\ req'[r].target = req[r].target
      /\ req'[r].snap = Append(Listing, m) /\ req'[r] \in Progress
  BY <1>1, <1>3, <1>5, <1>6 DEF Progress, RequestStages, Unasked
<1>8. /\ req' \in [Requests -> Progress] /\ \A o \in Requests : o # r => req'[o] = req[o]
  BY <1>1, <1>3, <1>7
<1>9. Stored' = Stored /\ (\A k : Seqs(k)' = Seqs(k)) /\ Cardinality(messages)' = n
  BY <1>1 DEF Stored, IdsOf, Seqs
<1>10. \A t \in Seqs(req[r].target) : t < n BY <1>1 DEF TableOK, Seqs
<1>11. CASE ask
  <2>1. /\ req[r].pc = "askLoad" /\ req'[r].pc = "askWrite" /\ m.seq <= n
        /\ m.id = <<r, "q">> /\ req[r].target = <<r, "q">>
    BY <1>1, <1>2, <1>4, <1>5, <1>7, <1>11 DEF RequestOK
  <2>2. AnswerIds(r) \intersect Stored' = {} BY <1>9, <1>1, <2>1 DEF RequestOK, Answered, Unasked
  <2>3. \A a \in AnswerIds(r) : \A s \in Seqs(a)', t \in Seqs(req[r].target)' : t < s
    BY <1>1, <1>7, <1>9 DEF RequestOK
  <2>4. \A i \in DOMAIN req'[r].snap : req'[r].snap[i].id \in Stored' \union {m.id}
    BY <1>6, <1>7, <1>9
  <2> HIDE DEF m, p, n
  <2> RequestOK(r)'
    BY <1>5, <1>7, <1>9, <2>1, <2>2, <2>3, <2>4 DEF RequestOK, Answered, WritingBack, Unasked
  <2> QED BY <1>1, <1>8, ReadStepKeeps
<1>12. CASE ~ask
  <2>1. /\ req[r].pc = "answerLoad" /\ req'[r].pc = "answerWrite"
        /\ m.id = <<r, "a", 0>> /\ m.seq <= n
    BY <1>1, <1>2, <1>4, <1>5, <1>7, <1>12
  <2>2. /\ AnswerIds(r) \intersect Stored' = {} /\ req'[r].target \in Stored'
        /\ \A t \in Seqs(req[r].target)' : t < m.seq
    BY <1>1, <1>5, <1>7, <1>9, <1>10, <2>1 DEF RequestOK, Answered, Unasked
  <2>3. \A a \in AnswerIds(r) : \A s \in Seqs(a)', t \in Seqs(req[r].target)' : t < s
    BY <1>1, <1>7, <1>9 DEF RequestOK
  <2>4. \A i \in DOMAIN req'[r].snap : req'[r].snap[i].id \in Stored' \union {m.id}
    BY <1>6, <1>7, <1>9
  <2> HIDE DEF m, p, n
  <2> RequestOK(r)'
    BY <1>5, <1>7, <1>9, <2>1, <2>2, <2>3, <2>4 DEF RequestOK, Answered, WritingBack, Unasked
  <2> QED BY <1>1, <1>8, ReadStepKeeps
<1> QED BY <1>11, <1>12

\* update_message: the edited message is one of the stored ones.
LEMMA FindKeeps ==
  ASSUME HistoryOK, NEW r \in Requests, FindMessage(r)
  PROVE  HistoryOK'
<1> USE DEF Stands
<1>1. /\ UNCHANGED <<chat, messages>> /\ req[r].pc = "editFind" /\ req[r] \in Progress
      /\ RequestOK(r) /\ req \in [Requests -> Progress] /\ messages \subseteq MessageRows
  BY DEF FindMessage, StoreAsIs, HistoryOK, TableOK
<1>2. /\ AnswerIds(r) \intersect Stored = {} /\ req[r].target \in Stored
      /\ Stored' = Stored /\ \A id : Seqs(id)' = Seqs(id)
      /\ \A a \in AnswerIds(r) : Seqs(a) = {}
  BY <1>1, NotYetAnswered DEF RequestOK, Answered, Unasked, Stored, IdsOf, Seqs
<1>3. ASSUME NEW m \in messages,
             Set(r, [req[r] EXCEPT !.own = [m EXCEPT !.text = m.text + 1], !.pc = "editWrite"])
      PROVE  HistoryOK'
  <2> DEFINE new == [m EXCEPT !.text = m.text + 1]
  <2>1. new \in MessageRows /\ new.id \in Stored
    <3>1. m \in MessageRows BY <1>1
    <3>2. 0 \in Nat OBVIOUS
    <3>3. new \in MessageRows /\ new.id = m.id BY <3>1, <3>2, RowFields
    <3> QED BY <3>3 DEF Stored, IdsOf
  <2> HIDE DEF new
  <2>2. req' = [req EXCEPT ![r] = [req[r] EXCEPT !.own = new, !.pc = "editWrite"]]
    BY <1>3 DEF Set, new
  <2>3. /\ req'[r] \in Progress /\ req'[r].pc = "editWrite" /\ req'[r].own = new
        /\ req'[r].target = req[r].target
    BY <1>1, <2>1, <2>2 DEF Progress, RequestStages, Revising
  <2>4. /\ req' \in [Requests -> Progress]
        /\ \A o \in Requests : o # r => req'[o] = req[o]
    BY <1>1, <2>2, <2>3
  <2>5. RequestOK(r)'
    BY <1>2, <2>1, <2>3 DEF RequestOK, Answered, WritingBack, Unasked
  <2> QED BY <1>1, <2>4, <2>5, ReadStepKeeps
<1>4. CASE Goes(r, "done")
  <2>1. "done" \in RequestStages BY DEF RequestStages, Answered
  <2>2. /\ req' \in [Requests -> Progress] /\ req'[r].pc = "done"
        /\ \A o \in Requests : o # r => req'[o] = req[o]
    BY <1>1, <1>4, <2>1, GoesMoves
  <2>3. RequestOK(r)' BY <1>2, <2>2 DEF RequestOK, Answered, WritingBack
  <2> QED BY <1>1, <2>2, <2>3, ReadStepKeeps
<1> QED BY <1>3, <1>4 DEF FindMessage

\* Saving a message: an edit finds its row, a question or an answer may add one.
LEMMA SaveKeeps ==
  ASSUME HistoryOK, NEW r \in Requests, SaveMessage(r)
  PROVE  HistoryOK'
<1> USE DEF Stands
<1> DEFINE p == IF req[r].pc = "editWrite" THEN "editLoad"
                ELSE IF req[r].pc = "askWrite" THEN "askRow" ELSE "answerRow"
<1>1. /\ UNCHANGED chat /\ req[r].pc \in {"askWrite", "editWrite", "answerWrite"}
      /\ req[r] \in Progress /\ RequestOK(r) /\ req \in [Requests -> Progress] /\ TableOK
      /\ messages' = Upserted(req[r].own) /\ Goes(r, p)
  BY DEF SaveMessage, HistoryOK
<1>2. PICK m \in MessageRows : m = req[r].own BY <1>1 DEF RequestOK
<1>3. p \in RequestStages BY DEF RequestStages, Revising, WritingBack
<1>4. /\ req' \in [Requests -> Progress] /\ \A o \in Requests : o # r => req'[o] = req[o]
      /\ req'[r].pc = p /\ req'[r].target = req[r].target
      /\ p \in {"askRow", "answerRow"} => req'[r].snap = req[r].snap
      /\ p = "editLoad" => req'[r] = [req[r] EXCEPT !.pc = p]
  <2> HIDE DEF p
  <2> QED BY <1>1, <1>3, GoesMoves
<1>5. /\ Grows(r) /\ Stored' = Stored \union {m.id}
      /\ m.id \notin Stored => Seqs(m.id)' = {m.seq}
  <2>1. Cardinality(messages) \in Nat /\ (m.id \notin Stored => m.seq <= Cardinality(messages))
    BY <1>1, <1>2, FS_CardinalityType DEF TableOK, RequestOK
  <2>2. m.id \in Stored \/ m.id \in {<<r, "q">>, <<r, "a", 0>>} BY <1>1, <1>2 DEF RequestOK
  <2>3. CASE m.id \in Stored BY <1>1, <1>2, <2>1, <2>3, UpsertedOld DEF Grows
  <2>4. CASE m.id \notin Stored
    <3>1. /\ TableOK' /\ Cardinality(messages)' = Cardinality(messages) + 1
          /\ Stored' = Stored \union {m.id}
          /\ \A id \in Stored : Seqs(id)' = Seqs(id)
          /\ Seqs(m.id)' = {m.seq}
      BY <1>1, <1>2, <2>1, <2>4, UpsertedNew
    <3> QED BY <1>1, <2>1, <2>2, <2>4, <3>1 DEF Grows
  <2> QED BY <2>3, <2>4
<1>6. AnswerIds(r) \intersect Stored = {} /\ \A a \in AnswerIds(r) : Seqs(a) = {}
  BY <1>1, NotYetAnswered DEF RequestOK, Answered
<1>7. CASE req[r].pc = "askWrite"
  <2>1. /\ m.id = <<r, "q">> /\ req[r].target = m.id /\ p = "askRow"
        /\ AnswerIds(r) \intersect Stored' = {}
    BY <1>1, <1>2, <1>5, <1>6, <1>7, OwnIds DEF RequestOK
  <2>2. \A a \in AnswerIds(r) : Seqs(a)' = {}
    BY <2>1 DEF Seqs, Stored, IdsOf
  <2>3. \A i \in DOMAIN req'[r].snap : req'[r].snap[i].id \in Stored'
    BY <1>1, <1>2, <1>4, <1>5, <1>7, <2>1 DEF RequestOK
  <2> HIDE DEF p
  <2>4. RequestOK(r)'
    BY <1>4, <1>5, <2>1, <2>2, <2>3 DEF RequestOK, Answered, Unasked
  <2> QED BY <1>1, <1>4, <1>5, <2>4, StepKeeps DEF HistoryOK
<1>8. CASE req[r].pc = "editWrite"
  <2>1. m.id \in Stored /\ req[r].target \in Stored /\ p = "editLoad" /\ Stored' = Stored
    BY <1>1, <1>2, <1>5, <1>8 DEF RequestOK, Unasked
  <2>2. req'[r].own = m BY <1>1, <1>2, <1>4, <2>1 DEF Progress
  <2>3. \A a \in AnswerIds(r) : Seqs(a)' = {}
    BY <1>6, <2>1 DEF Seqs, Stored, IdsOf
  <2> HIDE DEF p
  <2>4. RequestOK(r)'
    BY <1>2, <1>4, <1>6, <2>1, <2>2, <2>3 DEF RequestOK, Answered, WritingBack, Unasked
  <2> QED BY <1>1, <1>4, <1>5, <2>4, StepKeeps DEF HistoryOK
<1>9. CASE req[r].pc = "answerWrite"
  <2>1. /\ m.id = <<r, "a", 0>> /\ p = "answerRow" /\ m.id \notin Stored
        /\ req[r].target \in Stored
    BY <1>1, <1>2, <1>6, <1>9 DEF RequestOK, Unasked, AnswerIds
  <2>2. \A a \in AnswerIds(r) : \A s \in Seqs(a)' : s = m.seq
    <3> SUFFICES ASSUME NEW a \in AnswerIds(r), NEW s \in Seqs(a)' PROVE s = m.seq OBVIOUS
    <3>1. a \in Stored' BY DEF Seqs, Stored, IdsOf
    <3>2. a = m.id BY <1>5, <1>6, <3>1
    <3> QED BY <1>5, <2>1, <3>2
  <2>3. \A t \in Seqs(req[r].target)' : t < m.seq
    BY <1>1, <1>2, <1>4, <1>5, <1>9, <2>1 DEF RequestOK, Grows
  <2>4. \A i \in DOMAIN req'[r].snap : req'[r].snap[i].id \in Stored'
    BY <1>1, <1>2, <1>4, <1>5, <1>9, <2>1 DEF RequestOK
  <2>5. req[r].target \in Stored' BY <1>5, <2>1
  <2> HIDE DEF p
  <2>6. RequestOK(r)'
    BY <1>4, <2>1, <2>2, <2>3, <2>4, <2>5 DEF RequestOK, Answered, Unasked
  <2> QED BY <1>1, <1>4, <1>5, <2>6, StepKeeps DEF HistoryOK
<1> QED BY <1>1, <1>7, <1>8, <1>9

\* A step that only moves a request on, or changes the row of the chat, disturbs nothing.
LEMMA MoveKeeps ==
  ASSUME HistoryOK, NEW r \in Requests, UNCHANGED messages, chat'.live,
         chat' \in [live : BOOLEAN, title : Titles],
         req' \in [Requests -> Progress], \A o \in Requests : o # r => req'[o] = req[o],
         req'[r].target = req[r].target,
         \/ req'[r].pc \in {"title", "run", "answerLoad"} /\ req[r].pc \notin Unasked \union Answered
         \/ req'[r].pc = "done" /\ req[r].pc \notin Unasked
         \/ /\ req'[r].pc \in WritingBack /\ req[r].pc \notin Unasked \union {"done"}
            /\ req'[r].pc \in Answered <=> req[r].pc \in Answered
            /\ \A i \in DOMAIN req'[r].snap : req'[r].snap[i].id \in Stored
            /\ req'[r].pc \in {"askList", "editList", "answerList"} => req'[r].todo > 0
  PROVE  HistoryOK'
<1>1. Grows(r) /\ Stored' = Stored /\ (\A id : Seqs(id)' = Seqs(id)) /\ RequestOK(r)
  BY SameTable DEF HistoryOK, Stored, IdsOf, Seqs
<1>2. \A a \in AnswerIds(r) : \A s \in Seqs(a)', t \in Seqs(req[r].target)' : t < s
  BY <1>1 DEF RequestOK
<1>3. AnswerIds(r) \intersect Stored # {} => req[r].target \in Stored BY <1>1 DEF RequestOK
<1>4. CASE req'[r].pc \in {"title", "run", "answerLoad"} /\ req[r].pc \notin Unasked \union Answered
  <2>1. RequestOK(r)'
    BY <1>1, <1>2, <1>3, <1>4 DEF RequestOK, Answered, WritingBack, Unasked
  <2> QED BY <1>1, <2>1, StepKeeps
<1>5. CASE req'[r].pc = "done" /\ req[r].pc \notin Unasked
  <2>1. RequestOK(r)' BY <1>1, <1>2, <1>3, <1>5 DEF RequestOK, Answered, WritingBack, Unasked
  <2> QED BY <1>1, <2>1, StepKeeps
<1>6. CASE /\ req'[r].pc \in WritingBack /\ req[r].pc \notin Unasked \union {"done"}
           /\ req'[r].pc \in Answered <=> req[r].pc \in Answered
           /\ \A i \in DOMAIN req'[r].snap : req'[r].snap[i].id \in Stored
           /\ req'[r].pc \in {"askList", "editList", "answerList"} => req'[r].todo > 0
  <2>1. req[r].target \in Stored BY <1>1, <1>6 DEF RequestOK
  <2>2. RequestOK(r)'
    BY <1>1, <1>2, <1>3, <1>6, <2>1 DEF RequestOK, Answered, WritingBack, Unasked
  <2> QED BY <1>1, <2>2, StepKeeps
<1> QED BY <1>4, <1>5, <1>6

LEMMA LoadForEditKeeps ==
  ASSUME HistoryOK, NEW r \in Requests, LoadForEdit(r)
  PROVE  HistoryOK'
<1> USE DEF Stands
<1> DEFINE own == req[r].own
           all == Listing
           new == [i \in DOMAIN all |-> IF all[i].id = own.id THEN own ELSE all[i]]
<1>1. /\ UNCHANGED <<chat, messages>> /\ req[r].pc = "editLoad" /\ req[r] \in Progress
      /\ RequestOK(r) /\ req \in [Requests -> Progress] /\ chat.live /\ chat.title \in Titles
      /\ chat \in [live : BOOLEAN, title : Titles] /\ TableOK
      /\ req' = [req EXCEPT ![r] = [req[r] EXCEPT !.snap = new, !.title = chat.title,
                                                  !.pc = "editRow"]]
  BY DEF LoadForEdit, StoreAsIs, HistoryOK, Set
<1>2. /\ all \in Seq(messages) /\ messages \subseteq MessageRows
  BY <1>1, ListingRows DEF TableOK
<1>3. own \in MessageRows /\ own.id \in Stored BY <1>1 DEF RequestOK
<1>4. DOMAIN all = 1..Len(all) /\ Len(all) \in Nat /\ \A i \in 1..Len(all) : all[i] \in messages
  BY <1>2
<1> HIDE DEF own, all
<1>5. new \in [1..Len(all) -> MessageRows] BY <1>2, <1>3, <1>4
<1>6. \A i \in DOMAIN new : new[i].id \in Stored BY <1>3, <1>4 DEF Stored, IdsOf
<1> HIDE DEF new
<1>7. new \in Seq(MessageRows) BY <1>4, <1>5
<1>8. /\ req'[r] \in Progress /\ req'[r].pc = "editRow" /\ req'[r].target = req[r].target
      /\ req'[r].snap = new
  BY <1>1, <1>7 DEF Progress, RequestStages, WritingBack
<1>9. /\ req' \in [Requests -> Progress] /\ \A o \in Requests : o # r => req'[o] = req[o]
  BY <1>1, <1>8
<1>10. /\ req'[r].pc \in WritingBack /\ req[r].pc \notin Unasked \union {"done"}
       /\ req'[r].pc \notin Answered /\ req[r].pc \notin Answered
       /\ req'[r].pc \notin {"askList", "editList", "answerList"}
  BY <1>1, <1>8 DEF WritingBack, Unasked, Answered
<1> QED BY <1>1, <1>6, <1>8, <1>9, <1>10, MoveKeeps

LEMMA SaveRowKeeps ==
  ASSUME HistoryOK, NEW r \in Requests, SaveRow(r)
  PROVE  HistoryOK'
<1> USE DEF Stands
<1> DEFINE p == IF req[r].pc = "askRow" THEN "askList"
                ELSE IF req[r].pc = "editRow" THEN "editList" ELSE "answerList"
<1>1. /\ UNCHANGED messages /\ req[r].pc \in {"askRow", "editRow", "answerRow"}
      /\ req[r] \in Progress /\ RequestOK(r) /\ req \in [Requests -> Progress]
      /\ chat' = [live |-> TRUE, title |-> req[r].title]
      /\ req' = [req EXCEPT ![r] = [req[r] EXCEPT !.todo = 1, !.pc = p]]
  BY DEF SaveRow, HistoryOK, Set
<1>2. chat'.live /\ chat' \in [live : BOOLEAN, title : Titles] BY <1>1 DEF Progress
<1>3. p \in RequestStages /\ p \in WritingBack /\ (p \in Answered <=> req[r].pc \in Answered)
      /\ req[r].pc \in WritingBack /\ req[r].pc \notin Unasked \union {"done"}
  BY <1>1 DEF RequestStages, WritingBack, Answered, Unasked
<1> HIDE DEF p
<1>4. /\ req'[r] \in Progress /\ req'[r].pc = p /\ req'[r].target = req[r].target
      /\ req'[r].snap = req[r].snap /\ req'[r].todo = 1
  BY <1>1, <1>3 DEF Progress
<1>5. /\ req' \in [Requests -> Progress] /\ \A o \in Requests : o # r => req'[o] = req[o]
  BY <1>1, <1>4
<1>6. \A i \in DOMAIN req'[r].snap : req'[r].snap[i].id \in Stored
  BY <1>1, <1>3, <1>4 DEF RequestOK
<1> QED BY <1>1, <1>2, <1>3, <1>4, <1>5, <1>6, MoveKeeps

LEMMA SaveListedKeeps ==
  ASSUME HistoryOK, NEW r \in Requests, SaveListed(r)
  PROVE  HistoryOK'
<1> USE DEF Stands
<1> DEFINE q == req[r]
           k == q.todo
<1>1. /\ UNCHANGED chat /\ q.pc \in {"askList", "editList", "answerList"} /\ q \in Progress
      /\ RequestOK(r) /\ req \in [Requests -> Progress] /\ TableOK
      /\ chat.live /\ chat \in [live : BOOLEAN, title : Titles] /\ k \in Nat /\ k > 0
  BY DEF SaveListed, HistoryOK, RequestOK, Progress
<1>2. q.snap \in Seq(MessageRows) /\ \A i \in DOMAIN q.snap : q.snap[i].id \in Stored
  BY <1>1 DEF Progress, RequestOK, WritingBack
<1>3. q.pc \notin Unasked /\ (q.pc \in Answered <=> q.pc = "answerList")
  BY <1>1 DEF Unasked, Answered
<1>4. CASE k > Len(q.snap) /\ q.pc = "askList"
  <2>1. /\ UNCHANGED messages
        /\ req' = [req EXCEPT ![r] = [q EXCEPT !.snap = <<>>, !.todo = 0, !.pc = "title"]]
    BY <1>4 DEF SaveListed, Set
  <2>2. <<>> \in Seq(MessageRows) /\ "title" \in RequestStages
    BY EmptySeq DEF RequestStages
  <2>3. req'[r] \in Progress /\ req'[r].pc = "title" /\ req'[r].target = q.target
    BY <1>1, <2>1, <2>2 DEF Progress
  <2>4. /\ req' \in [Requests -> Progress] /\ \A o \in Requests : o # r => req'[o] = req[o]
    BY <1>1, <2>1, <2>3
  <2>5. q.pc \notin Unasked \union Answered BY <1>3, <1>4
  <2> QED BY <1>1, <2>1, <2>3, <2>4, <2>5, MoveKeeps
<1>5. CASE k > Len(q.snap) /\ q.pc # "askList"
  <2> DEFINE p == IF q.pc = "editList" THEN "run" ELSE "done"
  <2>1. UNCHANGED messages /\ Goes(r, p) BY <1>1, <1>5 DEF SaveListed
  <2>2. p \in RequestStages /\ p \in {"run", "done"} BY DEF RequestStages, Answered
  <2>3. p = "run" => q.pc \notin Unasked \union Answered BY <1>1, <1>3, <1>5
  <2> HIDE DEF p
  <2>4. /\ req' \in [Requests -> Progress] /\ \A o \in Requests : o # r => req'[o] = req[o]
        /\ req'[r].pc = p /\ req'[r].target = q.target
    BY <1>1, <2>1, <2>2, GoesMoves
  <2> QED BY <1>1, <1>3, <2>1, <2>2, <2>3, <2>4, MoveKeeps
<1>6. CASE ~(k > Len(q.snap))
  <2>1. /\ messages' = Upserted([q.snap[k] EXCEPT !.seq = k - 1])
        /\ req' = [req EXCEPT ![r] = [q EXCEPT !.todo = k + 1]]
    BY <1>1, <1>6 DEF SaveListed, Set
  <2>2. k \in DOMAIN q.snap /\ q.snap[k] \in MessageRows /\ k - 1 \in Nat
    BY <1>1, <1>2, <1>6
  <2>3. PICK m \in MessageRows : m = [q.snap[k] EXCEPT !.seq = k - 1] /\ m.id = q.snap[k].id
    <3>1. PICK row \in MessageRows, n \in Nat : row = q.snap[k] /\ n = k - 1 BY <2>2
    <3>2. [row EXCEPT !.seq = n] \in MessageRows /\ [row EXCEPT !.seq = n].id = row.id
      BY RowFields
    <3> QED BY <3>1, <3>2
  <2>4. m.id \in Stored BY <1>2, <2>2, <2>3
  <2>5. /\ TableOK' /\ Cardinality(messages)' = Cardinality(messages)
        /\ Stored' = Stored /\ \A id \in Stored : Seqs(id)' = Seqs(id)
    BY <1>1, <2>1, <2>3, <2>4, UpsertedOld
  <2>6. Cardinality(messages) \in Nat BY <1>1, FS_CardinalityType DEF TableOK
  <2>7. Grows(r) BY <1>1, <2>5, <2>6 DEF Grows
  <2>8. /\ req'[r] \in Progress /\ req'[r].pc = q.pc /\ req'[r].target = q.target
        /\ req'[r].snap = q.snap /\ req'[r].todo > 0
    <3>1. k + 1 \in Nat /\ k + 1 > 0 BY <1>1
    <3>2. req'[r] = [q EXCEPT !.todo = k + 1] BY <1>1, <2>1
    <3>3. PICK n \in Nat : n = k + 1 /\ n > 0 BY <3>1
    <3>4. req'[r] = [q EXCEPT !.todo = n] BY <3>2, <3>3
    <3>5. q \in Progress BY <1>1
    <3> HIDE DEF k, q
    <3>6. /\ [q EXCEPT !.todo = n] \in Progress /\ [q EXCEPT !.todo = n].pc = q.pc
          /\ [q EXCEPT !.todo = n].target = q.target /\ [q EXCEPT !.todo = n].snap = q.snap
          /\ [q EXCEPT !.todo = n].todo = n
      BY <3>5 DEF Progress
    <3> QED BY <3>3, <3>4, <3>6
  <2>9. /\ req' \in [Requests -> Progress] /\ \A o \in Requests : o # r => req'[o] = req[o]
    BY <1>1, <2>1, <2>8
  <2>10. q.target \in Stored BY <1>1, <1>3 DEF RequestOK
  <2>11. AnswerIds(r) \intersect Stored' = AnswerIds(r) \intersect Stored BY <2>5
  <2>12. \A a \in AnswerIds(r) : \A s \in Seqs(a)', t \in Seqs(req[r].target)' : t < s
    <3> SUFFICES ASSUME NEW a \in AnswerIds(r), NEW s \in Seqs(a)', NEW t \in Seqs(req[r].target)'
                 PROVE  t < s
      OBVIOUS
    <3>1. a \in Stored' BY DEF Seqs, Stored, IdsOf
    <3>2. a \in Stored BY <2>5, <3>1
    <3>3. t \in Seqs(q.target) BY <2>5, <2>8, <2>10
    <3>4. s \in Seqs(a) BY <2>5, <3>2
    <3> QED BY <1>1, <3>3, <3>4 DEF RequestOK
  <2>13. RequestOK(r)'
    BY <1>1, <1>2, <1>3, <2>5, <2>8, <2>10, <2>11, <2>12
       DEF RequestOK, Unasked, Answered, WritingBack
  <2> QED BY <1>1, <2>7, <2>9, <2>13, StepKeeps
<1> QED BY <1>4, <1>5, <1>6

LEMMA TitleAndTurnKeep ==
  ASSUME HistoryOK, NEW r \in Requests, AutoTitle(r) \/ RunTurn(r)
  PROVE  HistoryOK'
<1> USE DEF Stands
<1>1. /\ UNCHANGED messages /\ req[r].pc \in {"title", "run"}
      /\ req \in [Requests -> Progress] /\ chat.live /\ chat \in [live : BOOLEAN, title : Titles]
  BY DEF AutoTitle, RunTurn, StoreAsIs, HistoryOK
<1>2. req[r].pc \notin Unasked \union Answered BY <1>1 DEF Unasked, Answered
<1>3. chat'.live /\ chat' \in [live : BOOLEAN, title : Titles]
  BY <1>1 DEF AutoTitle, RunTurn, StoreAsIs, Titles
<1>4. ASSUME NEW p \in {"run", "answerLoad", "done"}, Goes(r, p) PROVE HistoryOK'
  <2>1. p \in RequestStages BY DEF RequestStages, Answered
  <2>2. /\ req' \in [Requests -> Progress] /\ \A o \in Requests : o # r => req'[o] = req[o]
        /\ req'[r].pc = p /\ req'[r].target = req[r].target
    BY <1>1, <1>4, <2>1, GoesMoves
  <2> QED BY <1>1, <1>2, <1>3, <2>2, MoveKeeps
<1> QED BY <1>4 DEF AutoTitle, RunTurn

LEMMA RenameKeeps == HistoryOK /\ Rename => HistoryOK'
<1> SUFFICES ASSUME HistoryOK, Rename PROVE HistoryOK' OBVIOUS
<1>1. UNCHANGED <<messages, req>> /\ chat'.live /\ chat' \in [live : BOOLEAN, title : Titles]
  BY DEF Rename, HistoryOK, Titles
<1> QED BY <1>1 DEF HistoryOK, TableOK, RequestOK, Stored, IdsOf, Seqs

LEMMA HistoryInitially == StoreInit => HistoryInv
<1> SUFFICES ASSUME StoreInit PROVE HistoryInv OBVIOUS
<1> DEFINE n == Len(Earlier)
           old == [i \in 1..n |-> Message(<<Earlier[i]>>, IF i % 2 = 1 THEN "USER" ELSE "ASSISTANT",
                                          i - 1)]
<1>1. /\ n \in Nat /\ DOMAIN Earlier = 1..n
      /\ \A i, j \in 1..n : Earlier[i] = Earlier[j] => i = j
  BY StoreAssumption DEF IsInjective
<1>2. messages = {old[i] : i \in 1..n} BY <1>1 DEF StoreInit
<1>3. \A i \in 1..n : /\ old[i] \in MessageRows /\ old[i].id = <<Earlier[i]>>
                      /\ old[i].seq = i - 1
  <2> TAKE i \in 1..n
  <2>1. <<Earlier[i]>> \in MessageIds /\ i - 1 \in Nat BY <1>1 DEF MessageIds
  <2> QED BY <2>1 DEF Message, MessageRows
<1>4. \A i, j \in 1..n : old[i].id = old[j].id => i = j BY <1>1, <1>3
<1>5. old \in [1..n -> messages] BY <1>2
<1> HIDE DEF old
<1>6. IsFiniteSet(1..n) /\ Cardinality(1..n) = n
  <2>1. 1 \in Int /\ n \in Int BY <1>1
  <2>2. IsFiniteSet(1..n) /\ Cardinality(1..n) = IF 1 > n THEN 0 ELSE n - 1 + 1
    BY <2>1, FS_Interval, Zenon
  <2> QED BY <1>1, <2>2
<1>7. old \in Injection(1..n, messages) BY <1>4, <1>5 DEF Injection, IsInjective
<1>8. old \in Surjection(1..n, messages) BY <1>2, <1>5 DEF Surjection
<1>9. IsFiniteSet(messages) /\ Cardinality(messages) = n
  <2>1. ExistsBijection(1..n, messages) BY <1>7, <1>8 DEF ExistsBijection, Bijection
  <2> QED BY <1>6, <2>1, FS_Bijection
<1>10. TableOK
  <2>1. \A m \in messages : m \in MessageRows /\ m.seq < n BY <1>1, <1>2, <1>3
  <2>2. \A m \in messages, k \in messages : m.id = k.id => m = k BY <1>2, <1>4
  <2> QED BY <1>9, <2>1, <2>2 DEF TableOK
<1>11. Idle \in Progress
  <2>1. <<>> \in Seq(MessageRows) BY EmptySeq
  <2> QED BY <2>1 DEF Idle, Progress, Titles, RequestStages, Unasked
<1>12. req \in [Requests -> Progress] /\ \A r \in Requests : req[r] = Idle
  BY <1>11 DEF StoreInit
<1>13. \A r \in Requests : AnswerIds(r) \intersect Stored = {}
  <2>1. \A m \in messages : \E i \in 1..n : m.id = <<Earlier[i]>> BY <1>2, <1>3
  <2>2. ASSUME NEW x, NEW r PROVE <<x>> \notin AnswerIds(r) BY DEF AnswerIds
  <2> QED BY <2>1, <2>2 DEF Stored, IdsOf
<1>14. \A r \in Requests : RequestOK(r)
  <2> TAKE r \in Requests
  <2>1. AnswerIds(r) \intersect Stored = {} /\ \A a \in AnswerIds(r) : Seqs(a) = {}
    BY <1>13, NotYetAnswered
  <2>2. req[r].pc = "idle" BY <1>12 DEF Idle
  <2> QED BY <2>1, <2>2 DEF RequestOK, Unasked, WritingBack, Answered
<1>15. chat.live /\ chat \in [live : BOOLEAN, title : Titles] BY DEF StoreInit, Titles
<1> QED BY <1>10, <1>12, <1>14, <1>15 DEF HistoryInv, HistoryOK, StoreInit

LEMMA HistoryStep == HistoryInv /\ [StoreNext]_storeVars => HistoryInv'
<1> SUFFICES ASSUME HistoryInv, [StoreNext]_storeVars PROVE HistoryInv' OBVIOUS
<1>1. deletes' \in Nat /\ (deletes' = 0 => deletes = 0)
  <2> USE DEF HistoryInv
  <2>1. CASE DeleteChat BY <2>1 DEF DeleteChat
  <2>2. CASE ~DeleteChat
    BY <2>2 DEF StoreNext, storeVars, Rename, Begin, LoadAndAppend, FindMessage, SaveMessage,
       LoadForEdit, SaveRow, SaveListed, AutoTitle, RunTurn, StoreAsIs
  <2> QED BY <2>1, <2>2
<1> SUFFICES ASSUME deletes' = 0 PROVE HistoryOK' BY <1>1 DEF HistoryInv
<1>2. HistoryOK /\ deletes = 0 BY <1>1 DEF HistoryInv
<1>3. CASE Rename BY <1>2, <1>3, RenameKeeps
<1>4. CASE DeleteChat BY <1>2, <1>4 DEF DeleteChat
<1>5. CASE \E r \in Requests, kind \in {"send", "stream", "edit", "again"} : Begin(r, kind)
  BY <1>2, <1>5, BeginKeeps
<1>6. CASE \E r \in Requests : LoadAndAppend(r) BY <1>2, <1>6, LoadKeeps
<1>7. CASE \E r \in Requests : FindMessage(r) BY <1>2, <1>7, FindKeeps
<1>8. CASE \E r \in Requests : SaveMessage(r) BY <1>2, <1>8, SaveKeeps
<1>9. CASE \E r \in Requests : LoadForEdit(r) BY <1>2, <1>9, LoadForEditKeeps
<1>10. CASE \E r \in Requests : SaveRow(r) BY <1>2, <1>10, SaveRowKeeps
<1>11. CASE \E r \in Requests : SaveListed(r) BY <1>2, <1>11, SaveListedKeeps
<1>12. CASE \E r \in Requests : AutoTitle(r) \/ RunTurn(r)
  BY <1>2, <1>12, TitleAndTurnKeep
<1>13. CASE UNCHANGED storeVars
  BY <1>2, <1>13 DEF storeVars, HistoryOK, TableOK, RequestOK, Stored, IdsOf, Seqs
<1> QED
  BY <1>3, <1>4, <1>5, <1>6, <1>7, <1>8, <1>9, <1>10, <1>11, <1>12, <1>13 DEF StoreNext

LEMMA HistoryImplies == HistoryInv => ReplyFollowsQuestion
<1> SUFFICES ASSUME HistoryInv, deletes = 0, NEW r \in Requests, NEW a \in AnswersOf(r),
                    NEW q \in Seqs(req[r].target)
             PROVE  q < a.seq
  BY DEF ReplyFollowsQuestion
<1>1. a.id \in AnswerIds(r) /\ a.seq \in Seqs(a.id) BY DEF AnswersOf, AnswerIds, Seqs
<1> QED BY <1>1 DEF HistoryInv, HistoryOK, RequestOK

\* What edits, replies and re-answers of one chat are saved around: the table of messages
\* keeps one row per id with a number of its own, and a request that moves on works on rows
\* that are stored (repository.py:339-426, session.py:307-371).
THEOREM HistoryInvariance == StoreSpec => []HistoryInv
<1>1. StoreInit => HistoryInv BY HistoryInitially
<1>2. HistoryInv /\ [StoreNext]_storeVars => HistoryInv' BY HistoryStep
<1> QED BY <1>1, <1>2, PTL DEF StoreSpec

\* In a chat nobody deletes, a reply is listed after the question it answers, however many
\* requests save their snapshots meanwhile (session.py:307-338).
THEOREM ReplyTheorem == StoreSpec => []ReplyFollowsQuestion
<1>1. HistoryInv => ReplyFollowsQuestion BY HistoryImplies
<1> QED BY <1>1, HistoryInvariance, PTL
=============================================================================
