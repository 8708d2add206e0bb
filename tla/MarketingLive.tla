--------------------------- MODULE MarketingLive ---------------------------
(***************************************************************************)
(* The LIVE marketing boundary: connections and their bindings, connector  *)
(* specs, executors and gateway routes, one-shot preflight consents, the   *)
(* TikTok executor that spends a consent on a post, and the durable record *)
(* of the provider's operation that later status polls update.             *)
(***************************************************************************)
EXTENDS Naturals, FiniteSets

CONSTANTS
  Posts,       \* tool calls that publish; also the publish ids the provider gives
  Polls,       \* tool calls that fetch a status
  Preflights,
  MaxAdmin,    \* bound: changes of connections, bindings, specs and executors
  MaxStoreFaults, MaxRestarts

ASSUME MarketingAssumption ==
  Posts \cap Polls = {} /\ MaxAdmin \in Nat /\ MaxStoreFaults \in Nat /\ MaxRestarts \in Nat

VARIABLES
  connection,  \* the stored profile: "on", "off" or "none"
  admin,       \* an enable or disable that has read the profile, and the changes so far
  wiring,      \* binding, spec, executor and route of the connector
  consent,     \* provider_preflights
  provider,    \* what the provider knows of each post (external)
  operation,   \* provider_operations
  toolCall,    \* the tool calls
  troubles     \* store faults and restarts so far

liveVars == <<connection, admin, wiring, consent, provider, operation, toolCall, troubles>>

\* Rows of provider_preflights and of provider_operations.
Consents == [state : {"NONE", "ACTIVE", "CLAIMED", "CONSUMED", "EXPIRED", "REVOKED"},
             valid : BOOLEAN]
Operations == [state : {"NONE", "SUBMITTED", "PROCESSING", "SUCCEEDED", "FAILED", "UNKNOWN"},
               version : Nat]

Terminal == {"SUCCEEDED", "FAILED"}
LiveCalls ==
  [pc : {"idle", "prepared", "claim", "check", "send", "settle", "track", "find", "fetch",
         "validate", "record", "done"},
   consent : Preflights \union {"NONE"}, post : Posts \union {"NONE"},
   answer : {"none", "accepted", "refused", "broken", "PROCESSING", "UNKNOWN"} \union Terminal,
   seen : Nat, reply : {"none", "failed", "uncertain", "success", "lost"}]
NoTool == [pc |-> "idle", consent |-> "NONE", post |-> "NONE", answer |-> "none", seen |-> 0,
         reply |-> "none"]
Untracked == [state |-> "NONE", version |-> 0]
\* MarketingProviderCatalog.install and the first sync at start-up; bindings are not stored.
Installed == [bound |-> FALSE, spec |-> "LIVE", executor |-> TRUE, route |-> TRUE]

LiveInit ==
  /\ connection = "none"
  /\ admin = [op |-> "none", seen |-> "none", changes |-> 0]
  /\ wiring = Installed
  /\ consent = [p \in Preflights |-> [state |-> "NONE", valid |-> FALSE]]
  /\ provider = [c \in Posts |-> "NONE"]
  /\ operation = [c \in Posts |-> Untracked]
  /\ toolCall = [c \in Posts \union Polls |-> NoTool]
  /\ troubles = [faults |-> 0, restarts |-> 0]

Mid(c, pc) == toolCall[c].pc = pc
Next_(c, new) == toolCall' = [toolCall EXCEPT ![c] = new]
Proceeds(c, pc) == Next_(c, [toolCall[c] EXCEPT !.pc = pc])
\* The call is over: "failed" says that nothing happened, "uncertain" that something may have.
Ends(c, reply) == Next_(c, [NoTool EXCEPT !.pc = "done", !.reply = reply,
                                        !.consent = toolCall[c].consent])
StoreFails ==
  /\ troubles.faults < MaxStoreFaults
  /\ troubles' = [troubles EXCEPT !.faults = @ + 1]

----------------------------------------------------------------------------
(* Accounts and wiring *)

Change == admin.changes < MaxAdmin /\ admin.op = "none"
Changed == admin' = [admin EXCEPT !.changes = @ + 1]
Elsewhere == UNCHANGED <<consent, provider, operation, toolCall, troubles>>

\* register(replace=True)
RegisterConnection ==
  /\ Change /\ Changed /\ connection' = "on"
  /\ UNCHANGED wiring /\ Elsewhere

RemoveConnection ==
  /\ Change /\ connection # "none" /\ Changed /\ connection' = "none"
  /\ UNCHANGED wiring /\ Elsewhere

\* enable and disable read the profile before they take the lock that writes it back.
SwitchRead(op) ==
  /\ Change /\ connection # "none"
  /\ admin' = [admin EXCEPT !.op = op, !.seen = connection]
  /\ UNCHANGED <<connection, wiring>> /\ Elsewhere

SwitchWrite ==
  /\ admin.op \in {"enable", "disable"}
  /\ connection' = IF admin.op = "enable" THEN "on" ELSE "off"
  /\ admin' = [admin EXCEPT !.op = "none", !.seen = "none", !.changes = @ + 1]
  /\ UNCHANGED wiring /\ Elsewhere

\* ConnectorControlPlane.bind needs the connection, unbind does not.
Bind ==
  /\ Change /\ connection # "none" /\ Changed
  /\ wiring' = [wiring EXCEPT !.bound = TRUE]
  /\ UNCHANGED connection /\ Elsewhere

Unbind ==
  /\ Change /\ wiring.bound /\ Changed
  /\ wiring' = [wiring EXCEPT !.bound = FALSE]
  /\ UNCHANGED connection /\ Elsewhere

\* MarketingConnectorRegistry.register with replace=True
RegisterSpec(mode) ==
  /\ Change /\ wiring.spec # mode /\ Changed
  /\ wiring' = [wiring EXCEPT !.spec = mode]
  /\ UNCHANGED connection /\ Elsewhere

\* MarketingLiveExecutorRegistry.bind and unbind
SetExecutor(present) ==
  /\ Change /\ wiring.executor # present /\ Changed
  /\ present => wiring.spec = "LIVE"
  /\ wiring' = [wiring EXCEPT !.executor = present]
  /\ UNCHANGED connection /\ Elsewhere

\* sync_marketing: a route for a LIVE spec with an executor, and no other.
SyncMarketing ==
  /\ wiring' = [wiring EXCEPT !.route = wiring.spec = "LIVE" /\ wiring.executor]
  /\ wiring' # wiring
  /\ UNCHANGED <<connection, admin>> /\ Elsewhere

----------------------------------------------------------------------------
(* Consents *)

\* ProviderPreflightRepository.create; valid: the artifact will pass the executor's checks.
CreateConsent(p, valid) ==
  /\ consent[p].state = "NONE"
  /\ consent' = [consent EXCEPT ![p] = [state |-> "ACTIVE", valid |-> valid]]
  /\ UNCHANGED <<connection, admin, wiring, provider, operation, toolCall, troubles>>

RevokeConsent(p) ==
  /\ consent[p].state = "ACTIVE"
  /\ consent' = [consent EXCEPT ![p].state = "REVOKED"]
  /\ UNCHANGED <<connection, admin, wiring, provider, operation, toolCall, troubles>>

----------------------------------------------------------------------------
(* A toolCall of the LIVE adapter *)

Authorized == wiring.bound /\ connection = "on"
OnlyCalls == UNCHANGED <<connection, admin, wiring, consent, provider, operation, troubles>>

\* execute_with_trusted_scope up to prepare: route, parameters, spec and account selection.
EnterAdapter(c, p, post) ==
  /\ Mid(c, "idle")
  /\ IF wiring.route /\ Authorized /\ wiring.spec = "LIVE"
     THEN Next_(c, [toolCall[c] EXCEPT !.pc = "prepared", !.consent = p, !.post = post])
     ELSE Ends(c, "failed")
  /\ OnlyCalls

\* The executor and the credential are looked up afresh after prepare.
ResolveCredential(c) ==
  /\ Mid(c, "prepared")
  /\ \/ wiring.executor /\ Authorized /\ Proceeds(c, IF c \in Posts THEN "claim" ELSE "find")
     \/ Ends(c, "failed")   \* also: the secret store has nothing for the reference
  /\ OnlyCalls

\* (mutant) the consent is only looked at, and settled after the post
ClaimConsentLate(c) ==
  /\ Mid(c, "claim")
  /\ LET p == toolCall[c].consent
     IN IF consent[p].state = "ACTIVE" THEN Proceeds(c, "check") ELSE Ends(c, "failed")
  /\ OnlyCalls

\* claim: an active consent that has not run out becomes CLAIMED, in one transaction.
ClaimConsent(c) ==
  /\ Mid(c, "claim")
  /\ LET p == toolCall[c].consent
     IN \/ /\ consent[p].state = "ACTIVE"
           /\ \/ /\ consent' = [consent EXCEPT ![p].state = "CLAIMED"] /\ Proceeds(c, "check")
                 /\ UNCHANGED troubles
              \/ /\ consent' = [consent EXCEPT ![p].state = "EXPIRED"] /\ Ends(c, "failed")
                 /\ UNCHANGED troubles
              \/ StoreFails /\ Ends(c, "uncertain") /\ UNCHANGED consent
        \/ consent[p].state # "ACTIVE" /\ Ends(c, "failed") /\ UNCHANGED <<consent, troubles>>
  /\ UNCHANGED <<connection, admin, wiring, provider, operation>>

\* _validate_preflight_payload; a bad artifact is spent as well.
CheckPayload(c) ==
  /\ Mid(c, "check")
  /\ IF consent[toolCall[c].consent].valid THEN Proceeds(c, "send")
     ELSE Next_(c, [toolCall[c] EXCEPT !.pc = "settle", !.answer = "refused"])
  /\ OnlyCalls

\* The provider takes the post or not, and the answer arrives, refuses or is lost (external).
SendPost(c) ==
  /\ Mid(c, "send")
  /\ \E taken \in BOOLEAN, answer \in {"accepted", "refused", "broken"} :
       /\ answer = "accepted" => taken
       /\ answer = "refused" => ~taken
       /\ provider' = [provider EXCEPT ![c] = IF taken THEN "PROCESSING" ELSE @]
       /\ Next_(c, [toolCall[c] EXCEPT !.pc = "settle", !.answer = answer])
  /\ UNCHANGED <<connection, admin, wiring, consent, operation, troubles>>

\* (mutant) an answer that cannot be read counts as a refusal
SettleConsentAsRefused(c) ==
  /\ Mid(c, "settle")
  /\ consent' = [consent EXCEPT ![toolCall[c].consent].state = "CONSUMED"]
  /\ IF toolCall[c].answer = "accepted" THEN Proceeds(c, "track") ELSE Ends(c, "failed")
  /\ UNCHANGED <<connection, admin, wiring, provider, operation, troubles>>

\* _publish_video after the answer: a broken one raises and leaves the consent CLAIMED.
SettleConsent(c) ==
  /\ Mid(c, "settle")
  /\ LET p == toolCall[c].consent
     IN \/ toolCall[c].answer = "broken" /\ Ends(c, "uncertain") /\ UNCHANGED <<consent, troubles>>
        \/ /\ toolCall[c].answer # "broken"
           /\ \/ /\ consent' = [consent EXCEPT ![p].state = "CONSUMED"] /\ UNCHANGED troubles
                 /\ IF toolCall[c].answer = "accepted" THEN Proceeds(c, "track") ELSE Ends(c, "failed")
              \/ StoreFails /\ Ends(c, "uncertain") /\ UNCHANGED consent
  /\ UNCHANGED <<connection, admin, wiring, provider, operation>>

\* The tracking executor's create: a post that cannot be recorded is uncertain.
TrackPost(c) ==
  /\ Mid(c, "track")
  /\ \/ /\ operation' = [operation EXCEPT ![c] = [state |-> "SUBMITTED", version |-> 0]]
        /\ Ends(c, "success") /\ UNCHANGED troubles
     \/ StoreFails /\ Ends(c, "uncertain") /\ UNCHANGED operation
  /\ UNCHANGED <<connection, admin, wiring, consent, provider>>

----------------------------------------------------------------------------
(* A status poll *)

\* find_external: only a tracked post of the same scope is asked about.
FindTracked(c) ==
  /\ Mid(c, "find")
  /\ IF operation[toolCall[c].post].state = "NONE" THEN Ends(c, "failed") ELSE Proceeds(c, "fetch")
  /\ OnlyCalls

\* The provider's answer may be old by the time it is recorded; unknown words become UNKNOWN.
FetchStatus(c) ==
  /\ Mid(c, "fetch")
  /\ \/ \E s \in {provider[toolCall[c].post], "UNKNOWN"} :
          Next_(c, [toolCall[c] EXCEPT !.pc = "validate", !.answer = s])
     \/ Ends(c, "failed") \/ Ends(c, "uncertain")
  /\ OnlyCalls

\* record_status: the record is read and the transition validated without the lock.
ValidateStatus(c) ==
  /\ Mid(c, "validate")
  /\ LET op == operation[toolCall[c].post]
     IN IF op.state \in Terminal /\ toolCall[c].answer # op.state
        THEN Ends(c, "failed")
        ELSE Next_(c, [toolCall[c] EXCEPT !.pc = "record", !.seen = op.version])
  /\ OnlyCalls

\* (mutant) the write does not look again
RecordStatusBlindly(c) ==
  /\ Mid(c, "record")
  /\ operation' = [operation EXCEPT ![toolCall[c].post] =
                     [state |-> toolCall[c].answer, version |-> @.version + 1]]
  /\ Ends(c, "success")
  /\ UNCHANGED <<connection, admin, wiring, consent, provider, troubles>>

\* record_status: under the lock, only on the record that was validated.
RecordStatus(c) ==
  /\ Mid(c, "record")
  /\ LET d == toolCall[c].post
     IN \/ /\ operation[d].version = toolCall[c].seen
           /\ operation' = [operation EXCEPT ![d] =
                              [state |-> toolCall[c].answer, version |-> @.version + 1]]
           /\ Ends(c, "success") /\ UNCHANGED troubles
        \/ operation[d].version # toolCall[c].seen /\ Ends(c, "failed")
             /\ UNCHANGED <<operation, troubles>>
        \/ StoreFails /\ Ends(c, "failed") /\ UNCHANGED operation
  /\ UNCHANGED <<connection, admin, wiring, consent, provider>>

----------------------------------------------------------------------------
\* The provider finishes a post (external).
ProviderFinishes(c, result) ==
  /\ provider[c] = "PROCESSING"
  /\ provider' = [provider EXCEPT ![c] = result]
  /\ UNCHANGED <<connection, admin, wiring, consent, operation, toolCall, troubles>>

\* A crash: the stores stay, calls are lost, the wiring is that of a fresh start.
Restart ==
  /\ troubles.restarts < MaxRestarts
  /\ troubles' = [troubles EXCEPT !.restarts = @ + 1]
  /\ wiring' = Installed
  /\ admin' = [admin EXCEPT !.op = "none", !.seen = "none"]
  /\ toolCall' = [c \in DOMAIN toolCall |->
                IF toolCall[c].pc \in {"idle", "done"} THEN toolCall[c]
                ELSE [NoTool EXCEPT !.pc = "done", !.reply = "lost",
                                    !.consent = toolCall[c].consent]]
  /\ UNCHANGED <<connection, consent, provider, operation>>

LiveNext ==
  \/ RegisterConnection \/ RemoveConnection \/ SwitchRead("enable") \/ SwitchRead("disable")
  \/ SwitchWrite \/ Bind \/ Unbind \/ RegisterSpec("LIVE") \/ RegisterSpec("CONTRACT_ONLY")
  \/ SetExecutor(TRUE) \/ SetExecutor(FALSE) \/ SyncMarketing \/ Restart
  \/ \E p \in Preflights : RevokeConsent(p) \/ \E valid \in BOOLEAN : CreateConsent(p, valid)
  \/ \E c \in Posts :
       \/ \E p \in Preflights : EnterAdapter(c, p, c)
       \/ ClaimConsent(c) \/ CheckPayload(c) \/ SendPost(c) \/ SettleConsent(c) \/ TrackPost(c)
       \/ \E result \in Terminal : ProviderFinishes(c, result)
  \/ \E c \in Polls :
       \/ \E d \in Posts : EnterAdapter(c, "NONE", d)
       \/ FindTracked(c) \/ FetchStatus(c) \/ ValidateStatus(c) \/ RecordStatus(c)
  \/ \E c \in Posts \union Polls : ResolveCredential(c)

LiveSpec == LiveInit /\ [][LiveNext]_liveVars

----------------------------------------------------------------------------
LiveTypeOK ==
  /\ connection \in {"none", "on", "off"}
  /\ admin \in [op : {"none", "enable", "disable"}, seen : {"none", "on", "off"},
                 changes : 0 .. MaxAdmin]
  /\ wiring \in [bound : BOOLEAN, spec : {"LIVE", "CONTRACT_ONLY"}, executor : BOOLEAN,
                  route : BOOLEAN]
  /\ consent \in [Preflights -> Consents] /\ operation \in [Posts -> Operations]
  /\ provider \in [Posts -> {"NONE", "PROCESSING"} \union Terminal]
  /\ toolCall \in [Posts \union Polls -> LiveCalls]

Posted(c) == provider[c] # "NONE"

\* One consent makes one post at most, over races, unreadable answers, failing stores and
\* restarts ("One-shot, scope-bound provider preflight repository", preflight.py).
OnePostPerConsent ==
  \A c, d \in Posts : Posted(c) /\ Posted(d) /\ toolCall[c].consent = toolCall[d].consent => c = d

\* A call that reports failure has not posted, so that trying again is safe; one that
\* reports success has left a record that can be polled (marketing_live.py:42-50).
FailureMeansNoPost ==
  \A c \in Posts :
    /\ toolCall[c].reply = "failed" => ~Posted(c)
    /\ toolCall[c].reply = "success" => Posted(c) /\ operation[c].state # "NONE"

\* Polls that overtake each other never take back a final state (operations.py:606-615).
FinalStateStays ==
  [][\A c \in Posts : operation[c].state \in Terminal =>
       operation'[c].state = operation[c].state]_liveVars
=============================================================================
