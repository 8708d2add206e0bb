---- MODULE ModelGateway ----
(***************************************************************************)
(* The universal model gateway over the live settings: one call walks the  *)
(* candidates of its policy, in one piece (generate) or as a stream        *)
(* (generate_stream), for a pinned run or on the live configuration, while *)
(* settings transactions, run starts and run ends go on.                   *)
(***************************************************************************)
EXTENDS ModelSettings, Sequences

CONSTANTS
  NoProvider, NoModelRun,
  Paid,          \* providers whose cost policy is PAID or UNKNOWN
  FallbackChain, \* the policy's fallback chain, each provider once
  MaxDeltas      \* bound: visible deltas of one answer

ASSUME ModelAssumption ==
  /\ NoProvider \notin Providers /\ NoModelRun \notin ModelRuns /\ Paid \subseteq Providers
  /\ FallbackChain \in Seq(Providers) /\ MaxDeltas \in Nat
  /\ \A i, j \in DOMAIN FallbackChain : FallbackChain[i] = FallbackChain[j] => i = j

VARIABLES
  call,        \* the call in progress
  answer,      \* what its caller has received: <<provider, kind>> pairs
  paidCalls    \* history: a paid provider was asked

callVars == <<call, answer, paidCalls>>
gatewayVars == <<settingsVars, callVars>>

Talking == {"waiting", "first", "degraded", "streaming"}
Calls == [pc : {"idle", "candidate", "gate", "done"} \union Talking,
          run : ModelRuns \union {NoModelRun}, rest : Seq(Providers),
          last : Providers \union {NoProvider}, open : Providers \union {NoProvider}]
Words == (Providers \union {NoProvider}) \X {"text", "stop", "error"}

NoCallYet == [pc |-> "idle", run |-> NoModelRun, rest |-> <<>>,
              last |-> NoProvider, open |-> NoProvider]

GatewayInit ==
  /\ SettingsInit
  /\ call = NoCallYet /\ answer = <<>> /\ paidCalls = FALSE

In(pc) == call.pc = pc
Candidate == Head(call.rest)
Pinned == call.run # NoModelRun
Spoken == \E i \in DOMAIN answer : answer[i][2] = "text"
Say(kind) == answer' = Append(answer, <<Candidate, kind>>)

\* resolve_candidate_chain: the target, then the fallbacks that differ from it.
Fallbacks(t) ==
  IF \A i \in DOMAIN FallbackChain : FallbackChain[i] # t THEN FallbackChain
  ELSE LET own == CHOOSE i \in DOMAIN FallbackChain : FallbackChain[i] = t
       IN SubSeq(FallbackChain, 1, own - 1)
            \o SubSeq(FallbackChain, own + 1, Len(FallbackChain))
ChainFrom(t) == <<t>> \o Fallbacks(t)

Ended == [NoCallYet EXCEPT !.pc = "done"]
\* The next candidate, or the end of the loop.
Moved(c) == [c EXCEPT !.pc = "candidate", !.rest = Tail(@), !.last = Head(c.rest),
                      !.open = NoProvider]

\* A call on behalf of a run uses what the run pinned, any other the live policy, or
\* one provider it names.  A strictly pinned candidate is a chain of one.
CallBegin(r, named, strict) ==
  /\ In("idle") /\ ~Booting
  /\ r # NoModelRun => r \in Active
  /\ named # {} => r = NoModelRun
  /\ \E p \in IF named # {} THEN named ELSE {IF r = NoModelRun THEN live.target
                                             ELSE pins[r].target} :
       call' = [NoCallYet EXCEPT !.pc = "candidate", !.run = r,
                  !.rest = IF strict \/ named # {} THEN <<p>> ELSE ChainFrom(p)]
  /\ answer' = <<>>
  /\ UNCHANGED <<settingsVars, paidCalls>>

\* The candidates are used up: the last error is the answer.
Exhausted ==
  /\ In("candidate") /\ call.rest = <<>>
  /\ answer' = Append(answer, <<call.last, "error">>)
  /\ call' = Ended
  /\ UNCHANGED <<settingsVars, paidCalls>>

\* The total budget is used up before a candidate is dispatched.
BudgetSpent ==
  /\ In("candidate") /\ call.rest # <<>>
  /\ Say("error") /\ call' = Ended
  /\ UNCHANGED <<settingsVars, paidCalls>>

Definition == IF Pinned THEN pins[call.run].cred[Candidate] ELSE live.cred[Candidate]
\* (mutant) a pinned run is past the cost policy
FreeOnlyUnlessPinned == ~Pinned /\ live.gwFree
FreeOnly == IF Pinned THEN pins[call.run].free ELSE live.gwFree
Resolves(p, v) == v = NoRef \/ <<p, v>> \in vault

\* get_pinned_adapter: the adapter of exactly the pinned definition, or a new one while
\* its credential resolves.
BindPinned ==
  /\ Pinned /\ Definition # Gone
  /\ LET ref == <<Candidate, Definition>>
     IN /\ ref \in pinCache \/ Resolves(Candidate, Definition)
        /\ pinCache' = pinCache \union ({ref} \intersect Refs)
        /\ call' = [call EXCEPT !.pc = "gate"]
        /\ UNCHANGED cache

\* get_adapter: the live adapter, built from the configuration when there is none; also
\* the way of a pinned run whose snapshot lacks the provider.
BindLive ==
  /\ ~(Pinned /\ Definition # Gone)
  /\ live.cred[Candidate] # Gone
  /\ LET key == IF cache[Candidate] # Gone THEN cache[Candidate] ELSE live.cred[Candidate]
     IN /\ cache' = [cache EXCEPT ![Candidate] = key]
        /\ call' = [call EXCEPT !.pc = "gate"]
        /\ UNCHANGED pinCache

BindAdapter ==
  /\ In("candidate") /\ call.rest # <<>>
  /\ BindPinned \/ BindLive
  /\ UNCHANGED <<disk, mem, live, vault, versions, tx, pins, undone, torn, consented,
                 setFaults, setCrashes, answer, paidCalls>>

\* A refused candidate is skipped; with none left the call ends with its error.
Refused == call' = Moved(call) /\ UNCHANGED <<settingsVars, answer, paidCalls>>

\* Disabled, or no adapter: nothing is registered, or the pinned credential is missing.
NoAdapter ==
  /\ In("candidate") /\ call.rest # <<>>
  /\ Refused

Blocked == FreeOnly /\ Candidate \in Paid
CostGate == In("gate") /\ Blocked /\ Refused

\* generate and generate_stream take the same way to here; the former waits for the whole
\* answer, the latter for the first delta.
Dispatch(way) ==
  /\ In("gate") /\ ~Blocked
  /\ call' = [call EXCEPT !.pc = way, !.open = Candidate]
  /\ paidCalls' = (paidCalls \/ Candidate \in Paid)
  /\ UNCHANGED <<settingsVars, answer>>

\* generate: a success ends the call, a late result of any kind is a timeout.
SyncSuccess ==
  /\ In("waiting")
  /\ answer' = answer \o <<<<Candidate, "text">>, <<Candidate, "stop">>>>
  /\ call' = Ended
  /\ UNCHANGED <<settingsVars, paidCalls>>

\* After the total budget, what arrives is dropped and the provider's stream is closed.
Late ==
  /\ call.pc \in Talking
  /\ Say("error") /\ call' = Ended
  /\ UNCHANGED <<settingsVars, paidCalls>>

\* (mutant) fallback whenever a stream fails
FailsOver ==
  /\ call.pc \in Talking
  /\ call' = Moved(call)
  /\ UNCHANGED <<settingsVars, answer, paidCalls>>

\* A failing result, an empty stream, an error or a finish without content: the next
\* candidate, as long as nothing was said.
FailsSilently ==
  /\ call.pc \in Talking /\ ~Spoken
  /\ call' = Moved(call)
  /\ UNCHANGED <<settingsVars, answer, paidCalls>>

\* The adapter cannot stream: the same provider is asked again in one piece.
StreamUnsupported ==
  /\ In("first")
  /\ call' = [call EXCEPT !.pc = "degraded"]
  /\ UNCHANGED <<settingsVars, answer, paidCalls>>

DegradedSuccess ==
  /\ In("degraded")
  /\ answer' = answer \o <<<<Candidate, "text">>, <<Candidate, "stop">>>>
  /\ call' = Ended
  /\ UNCHANGED <<settingsVars, paidCalls>>

\* A visible delta is passed on at once.
Delta ==
  /\ call.pc \in {"first", "streaming"} /\ Len(answer) < MaxDeltas
  /\ Say("text") /\ call' = [call EXCEPT !.pc = "streaming"]
  /\ UNCHANGED <<settingsVars, paidCalls>>

StreamStops ==
  /\ In("streaming") /\ Spoken
  /\ Say("stop") /\ call' = Ended
  /\ UNCHANGED <<settingsVars, paidCalls>>

\* An error, an exception or the end of the stream after visible content: no fallback.
StreamBreaks ==
  /\ In("streaming") /\ Spoken
  /\ Say("error") /\ call' = Ended
  /\ UNCHANGED <<settingsVars, paidCalls>>

\* GeneratorExit: the consumer closes the generator, the provider's stream goes with it.
ConsumerLeaves ==
  /\ In("streaming") /\ answer # <<>>
  /\ call' = Ended
  /\ UNCHANGED <<settingsVars, answer, paidCalls>>

CallForgotten ==
  /\ In("done")
  /\ call' = NoCallYet /\ answer' = <<>>
  /\ UNCHANGED <<settingsVars, paidCalls>>

CallStep ==
  \/ \E r \in ModelRuns \union {NoModelRun}, named \in {{}} \union {{p} : p \in Providers},
        strict \in BOOLEAN : CallBegin(r, named, strict)
  \/ Exhausted \/ BudgetSpent \/ BindAdapter \/ NoAdapter \/ CostGate
  \/ Dispatch("waiting") \/ Dispatch("first")
  \/ SyncSuccess \/ Late \/ FailsSilently \/ StreamUnsupported \/ DegradedSuccess
  \/ Delta \/ StreamStops \/ StreamBreaks \/ ConsumerLeaves \/ CallForgotten

\* A stop of the process ends the call with it.
SettingsBesideCall ==
  /\ SettingsStep
  /\ IF setCrashes' # setCrashes
     THEN call' = NoCallYet /\ answer' = <<>>
     ELSE UNCHANGED <<call, answer>>
  /\ UNCHANGED paidCalls

ModelSpec == GatewayInit /\ [][SettingsBesideCall \/ CallStep]_gatewayVars

----------------------------------------------------------------------------
CallTypeOK ==
  call \in Calls /\ answer \in Seq(Words) /\ paidCalls \in BOOLEAN

\* The gateway keeps the caller's contract on every path and whatever the settings do:
\* fallback ends with the first visible delta, and one terminal closes the answer.
Voice == IF Spoken THEN answer[CHOOSE i \in DOMAIN answer : answer[i][2] = "text"][1]
         ELSE NoProvider
Closed == In("done") \/ \E i \in DOMAIN answer : answer[i][2] # "text"
Contract == INSTANCE OneVoice WITH asked <- call.open, voice <- Voice, closed <- Closed
GatewayKeepsOneVoice == Contract!Spec

\* A paid provider is asked only if settings that allow it were once published: no
\* intermediate state of a settings change lets a call through.
PaidNeedsConsent == paidCalls => consented
====
