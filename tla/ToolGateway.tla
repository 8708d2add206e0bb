----------------------------- MODULE ToolGateway ----------------------------
(***************************************************************************)
(* ToolGateway.execute (tools/tool_gateway.py) with the authorities it       *)
(* consults: PolicyEngine's in-memory approvals (tools/security.py), the     *)
(* durable idempotency ledger (tools/idempotency.py) and the durable         *)
(* execution intents and receipts (tools/receipts.py).                       *)
(*                                                                         *)
(* Each call of execute runs in a thread of its own.  A step is a critical   *)
(* section of the policy lock, a store transaction, or the adapter being     *)
(* entered or left.  Every transaction may fail.  A crash may happen         *)
(* between any two steps and loses the approvals and the calls; the ledger,  *)
(* the intents and the receipts are in one SQLite file and survive.          *)
(*                                                                         *)
(* An action stands for a request fingerprint: capability, parameters, run   *)
(* and scope.  A key stands for a reservation id: the idempotency key in     *)
(* its capability, provider, connection and scope namespace.                 *)
(***************************************************************************)
EXTENDS Integers, FiniteSets

CONSTANTS
  Calls,         \* calls of execute
  Approvals,     \* pending approvals, each with the token it may turn into
  Actions,       \* request fingerprints
  Gated,         \* actions evaluate wants a human approval for
  Consequential, \* _is_consequential_capability
  Keys,          \* idempotency reservation ids
  KeyOf,         \* the key of an action; only REAL consequential ones have one
  MaxRetries,    \* retry_policy.max_retries
  MaxFaults,     \* bound: store transactions that fail
  MaxCrashes,    \* bound: process crashes
  NoKey, NoAction, NoToken, NoCall

ASSUME GatewayAssumption ==
  /\ Gated \subseteq Consequential /\ Consequential \subseteq Actions
  /\ KeyOf \in [Actions -> Keys \union {NoKey}]
  /\ \A a \in Actions : KeyOf[a] # NoKey => a \in Consequential
  /\ MaxRetries \in Nat /\ MaxFaults \in Nat /\ MaxCrashes \in Nat
  /\ NoKey \notin Keys /\ NoAction \notin Actions
  /\ NoToken \notin Approvals /\ NoCall \notin Calls

VARIABLES
  pc,       \* call -> where its thread is
  act,      \* call -> its action, trusted scope restored from the approval
  tok,      \* call -> the approval token it presents
  result,   \* call -> what the adapter last did
  reply,    \* call -> what its caller is told
  invoked,  \* call -> times the adapter was entered
  pending,  \* _pending_approvals: status, action, expires_at passed
  token,    \* _approved_tokens: status, action, claiming call, consumed, expired
  intent,   \* execution_intents row of the call
  receipt,  \* status of the receipt linked to that intent
  ledger,   \* idempotency_ledger row of a key: state and reserving call
  up, faults, crashes

callVars     == <<pc, act, tok, result, reply, invoked>>
approvalVars == <<pending, token>>
storeVars    == <<intent, receipt, ledger>>
vars         == <<callVars, approvalVars, storeVars, up, faults, crashes>>

PCs      == {"idle", "policy", "claim", "reserve", "prepare", "mark", "ledger",
             "abort", "invoke", "adapter", "consume", "final", "settle", "done",
             "lost"}
Outside  == {"idle", "done", "lost"}
Results  == {"none", "ok", "failed", "raised"}
Replies  == {"NONE", "BLOCKED", "APPROVAL_REQUIRED", "ERROR", "SUCCESS",
             "AMBIGUOUS", "EXCEPTION"}
Refusals == {"BLOCKED", "APPROVAL_REQUIRED"}
Settled  == {"FINALIZED", "AMBIGUOUS"}
Stages   == {"NONE", "PREPARED", "RESERVED", "DISPATCHING"} \union Settled

NoPending == [status |-> "NONE", action |-> NoAction, late |-> FALSE]
Token(s, a) == [status |-> s, action |-> a, claim |-> NoCall,
                consumed |-> FALSE, expired |-> FALSE]

Init ==
  /\ pc      = [c \in Calls |-> "idle"]
  /\ act     = [c \in Calls |-> NoAction]
  /\ tok     = [c \in Calls |-> NoToken]
  /\ result  = [c \in Calls |-> "none"]
  /\ reply   = [c \in Calls |-> "NONE"]
  /\ invoked = [c \in Calls |-> 0]
  /\ pending = [i \in Approvals |-> NoPending]
  /\ token   = [i \in Approvals |-> Token("NONE", NoAction)]
  /\ intent  = [c \in Calls |-> "NONE"]
  /\ receipt = [c \in Calls |-> "NONE"]
  /\ ledger  = [k \in Keys |-> [state |-> "NONE", owner |-> NoCall]]
  /\ up = TRUE /\ faults = 0 /\ crashes = 0

-----------------------------------------------------------------------------
(* Helpers.                                                                 *)

Key(c)       == KeyOf[act[c]]
HasKey(c)    == Key(c) # NoKey
Heavy(c)     == act[c] \in Consequential
\* is_consequential of execute: the call must claim the token it presents.
MustClaim(c) == Heavy(c) /\ tok[c] # NoToken

Goto(c, p) == pc' = [pc EXCEPT ![c] = p]
Answer(c, r) == reply' = [reply EXCEPT ![c] = r]

NoFault == UNCHANGED faults
Fault   == faults < MaxFaults /\ faults' = faults + 1

\* The call leaves with a receipt, through the finally block or not; saving
\* the receipt may fail, and then the store's exception reaches the caller.
LeaveWith(c, r, p) ==
  /\ Goto(c, p)
  /\ \/ Answer(c, r) /\ NoFault
     \/ Answer(c, "EXCEPTION") /\ Fault

Raise(c, p) == Goto(c, p) /\ Answer(c, "EXCEPTION") /\ Fault

-----------------------------------------------------------------------------
(* PolicyEngine.                                                            *)

Fresh(i) == pending[i].status = "NONE" /\ token[i].status = "NONE"

\* An unexpired PENDING proposal for the same action, if there is one.
OpenFor(a) == {i \in Approvals : /\ pending[i].status = "PENDING"
                                 /\ pending[i].action = a /\ ~pending[i].late}

\* create_pending_approval: proposals for the action that ran out are closed,
\* an open one is reused.
CreatePending(a) ==
  LET swept(i) == IF /\ pending[i].status = "PENDING"
                     /\ pending[i].action = a /\ pending[i].late
                    THEN [pending[i] EXCEPT !.status = "EXPIRED"] ELSE pending[i]
  IN  IF OpenFor(a) # {}
        THEN pending' = [i \in Approvals |-> swept(i)]
        ELSE \E n \in Approvals :
               /\ Fresh(n)
               /\ pending' = [i \in Approvals |->
                    IF i = n THEN [status |-> "PENDING", action |-> a, late |-> FALSE]
                             ELSE swept(i)]

\* approve_pending_action of a proposal in time: the token is issued for the
\* action that was proposed.
ApprovePending(i) ==
  /\ up /\ pending[i].status = "PENDING" /\ ~pending[i].late
  /\ pending' = [pending EXCEPT ![i].status = "APPROVED"]
  /\ token'   = [token EXCEPT ![i] = Token("LIVE", pending[i].action)]
  /\ UNCHANGED <<callVars, storeVars, up, faults, crashes>>

\* approve_pending_action after the deadline, whatever the status was.
ApproveTooLate(i) ==
  /\ up /\ pending[i].status \notin {"NONE", "GONE"} /\ pending[i].late
  /\ pending' = [pending EXCEPT ![i].status = "EXPIRED"]
  /\ UNCHANGED <<callVars, token, storeVars, up, faults, crashes>>

\* reject_pending_action does not look at the deadline.
RejectPending(i) ==
  /\ up /\ pending[i].status = "PENDING"
  /\ pending' = [pending EXCEPT ![i].status = "REJECTED"]
  /\ UNCHANGED <<callVars, token, storeVars, up, faults, crashes>>

\* list_pending_approvals expires what ran out.
ListPending ==
  /\ up
  /\ pending' = [i \in Approvals |->
       IF pending[i].status = "PENDING" /\ pending[i].late
         THEN [pending[i] EXCEPT !.status = "EXPIRED"] ELSE pending[i]]
  /\ UNCHANGED <<callVars, token, storeVars, up, faults, crashes>>

\* create_server_approval, or register_approval of a new token that carries a
\* request fingerprint.
IssueApproval(i, a) ==
  /\ up /\ Fresh(i)
  /\ token' = [token EXCEPT ![i] = Token("LIVE", a)]
  /\ UNCHANGED <<callVars, pending, storeVars, up, faults, crashes>>

RevokeApproval(i) ==
  /\ up /\ token[i].status = "LIVE"
  /\ token' = [token EXCEPT ![i].status = "GONE"]
  /\ UNCHANGED <<callVars, pending, storeVars, up, faults, crashes>>

\* Wall-clock time passes the expires_at of a proposal or of a token.
PendingDeadline(i) ==
  /\ pending[i].status \notin {"NONE", "GONE"} /\ ~pending[i].late
  /\ pending' = [pending EXCEPT ![i].late = TRUE]
  /\ UNCHANGED <<callVars, token, storeVars, up, faults, crashes>>

TokenDeadline(i) ==
  /\ token[i].status = "LIVE" /\ ~token[i].expired
  /\ token' = [token EXCEPT ![i].expired = TRUE]
  /\ UNCHANGED <<callVars, pending, storeVars, up, faults, crashes>>

Claimable(i) ==
  /\ token[i].status = "LIVE" /\ token[i].claim = NoCall
  /\ ~token[i].consumed /\ ~token[i].expired

\* The human approval gate of evaluate, read without the lock.
Approved(a, t) == t \in Approvals /\ Claimable(t) /\ token[t].action = a

-----------------------------------------------------------------------------
(* ToolGateway.execute.                                                     *)

Submit(c, a, t) ==
  /\ up /\ pc[c] = "idle"
  /\ act' = [act EXCEPT ![c] = a]
  /\ tok' = [tok EXCEPT ![c] = t]
  /\ Goto(c, "policy")
  /\ UNCHANGED <<result, reply, invoked, approvalVars, storeVars, up, faults, crashes>>

\* A gate before the approval decision turns the call away.
Denied(c, status) ==
  /\ pc[c] = "policy" /\ LeaveWith(c, status, "done")
  /\ UNCHANGED <<act, tok, result, invoked, approvalVars, storeVars, up, crashes>>

\* Unknown or unavailable capability, unknown agent.
CapabilityDenies(c) == Denied(c, "ERROR") \/ Denied(c, "BLOCKED")

\* Semantic or structural denial by the Brain, missing permission, unsupported role.
BrainDenies(c) == Denied(c, "BLOCKED")

GateDenies(c) == CapabilityDenies(c) \/ BrainDenies(c)

\* A gated action without a token is proposed to the operator.
ProposeApproval(c) ==
  /\ pc[c] = "policy" /\ act[c] \in Gated /\ tok[c] = NoToken
  /\ CreatePending(act[c])
  /\ LeaveWith(c, "APPROVAL_REQUIRED", "done")
  /\ UNCHANGED <<act, tok, result, invoked, token, storeVars, up, crashes>>

\* A token revoked between the two unlocked reads of evaluate raises KeyError.
EvaluateRefuses(c) ==
  /\ pc[c] = "policy" /\ act[c] \in Gated /\ tok[c] # NoToken
  /\ ~Approved(act[c], tok[c])
  /\ \/ LeaveWith(c, "APPROVAL_REQUIRED", "done")
     \/ /\ token[tok[c]].status = "GONE"
        /\ Answer(c, "EXCEPTION") /\ Goto(c, "done") /\ NoFault
  /\ UNCHANGED <<act, tok, result, invoked, approvalVars, storeVars, up, crashes>>

EvaluateAllows(c) ==
  /\ pc[c] = "policy" /\ (act[c] \in Gated => Approved(act[c], tok[c]))
  /\ Goto(c, "claim")
  /\ UNCHANGED <<act, tok, result, reply, invoked, approvalVars, storeVars, up,
                 faults, crashes>>

AdapterMissing(c) ==
  /\ pc[c] = "claim"
  /\ LeaveWith(c, "ERROR", "done")
  /\ UNCHANGED <<act, tok, result, invoked, approvalVars, storeVars, up, crashes>>

\* What follows the claim.
AfterClaim(c) == IF HasKey(c) THEN "reserve" ELSE IF Heavy(c) THEN "prepare" ELSE "invoke"

\* Mutant of ClaimApproval: the evaluation is trusted, the claim is not atomic.
ClaimTrustsEvaluate(c) ==
  /\ pc[c] = "claim"
  /\ token' = IF MustClaim(c) THEN [token EXCEPT ![tok[c]].claim = c] ELSE token
  /\ Goto(c, AfterClaim(c))
  /\ UNCHANGED <<act, tok, result, reply, invoked, pending, storeVars, up,
                 faults, crashes>>

ClaimApproval(c) ==
  /\ pc[c] = "claim"
  /\ MustClaim(c) => Claimable(tok[c])
  /\ token' = IF MustClaim(c) THEN [token EXCEPT ![tok[c]].claim = c] ELSE token
  /\ Goto(c, AfterClaim(c))
  /\ UNCHANGED <<act, tok, result, reply, invoked, pending, storeVars, up,
                 faults, crashes>>

ClaimFails(c) ==
  /\ pc[c] = "claim" /\ MustClaim(c) /\ ~Claimable(tok[c])
  /\ LeaveWith(c, "APPROVAL_REQUIRED", "done")
  /\ UNCHANGED <<act, tok, result, invoked, approvalVars, storeVars, up, crashes>>

\* IdempotencyLedger.reserve: one transaction; the primary key decides a race.
Reserve(c) ==
  /\ pc[c] = "reserve" /\ ledger[Key(c)].state = "NONE"
  /\ ledger' = [ledger EXCEPT ![Key(c)] = [state |-> "RESERVED", owner |-> c]]
  /\ Goto(c, "prepare")
  /\ UNCHANGED <<act, tok, result, reply, invoked, approvalVars, intent, receipt,
                 up, faults, crashes>>

\* The key was reserved before, for this or another action, or the store fails;
\* then saving the error receipt may fail with it.
ReserveRefused(c) ==
  /\ pc[c] = "reserve"
  /\ \/ ledger[Key(c)].state # "NONE" /\ LeaveWith(c, "BLOCKED", "consume")
     \/ /\ Fault /\ Goto(c, "consume")
        /\ \E r \in {"ERROR", "EXCEPTION"} : Answer(c, r)
  /\ UNCHANGED <<act, tok, result, invoked, approvalVars, storeVars, up, crashes>>

\* prepare_execution_intent; a store error leaves through the finally block.
PrepareIntent(c) ==
  /\ pc[c] = "prepare"
  /\ \/ /\ intent' = [intent EXCEPT ![c] = "PREPARED"]
        /\ Goto(c, "mark") /\ NoFault /\ UNCHANGED reply
     \/ Raise(c, "consume") /\ UNCHANGED intent
  /\ UNCHANGED <<act, tok, result, invoked, approvalVars, receipt, ledger, up, crashes>>

\* mark_execution_intent_dispatching, durable before the adapter is entered.
MarkDispatching(c) ==
  /\ pc[c] = "mark" /\ intent[c] = "PREPARED"
  /\ \/ /\ intent' = [intent EXCEPT ![c] = "DISPATCHING"]
        /\ Goto(c, IF HasKey(c) THEN "ledger" ELSE "invoke")
        /\ NoFault /\ UNCHANGED reply
     \/ Raise(c, "consume") /\ UNCHANGED intent
  /\ UNCHANGED <<act, tok, result, invoked, approvalVars, receipt, ledger, up, crashes>>

\* IdempotencyLedger.mark_dispatching.
MarkLedger(c) ==
  /\ pc[c] = "ledger"
  /\ \/ /\ ledger' = [ledger EXCEPT ![Key(c)].state = "DISPATCHING"]
        /\ Goto(c, "invoke") /\ NoFault
     \/ Goto(c, "abort") /\ Fault /\ UNCHANGED ledger
  /\ UNCHANGED <<act, tok, result, reply, invoked, approvalVars, intent, receipt,
                 up, crashes>>

\* The predispatch receipt finalizes the intent: nothing was dispatched.
AbortDispatch(c) ==
  /\ pc[c] = "abort"
  /\ \/ /\ intent'  = [intent EXCEPT ![c] = "FINALIZED"]
        /\ receipt' = [receipt EXCEPT ![c] = "ERROR"]
        /\ Answer(c, "ERROR") /\ Goto(c, "consume") /\ NoFault
     \/ Raise(c, "consume") /\ UNCHANGED <<intent, receipt>>
  /\ UNCHANGED <<act, tok, result, invoked, approvalVars, ledger, up, crashes>>

Invoke(c) ==
  /\ pc[c] = "invoke"
  /\ invoked' = [invoked EXCEPT ![c] = @ + 1]
  /\ Goto(c, "adapter")
  /\ UNCHANGED <<act, tok, result, reply, approvalVars, storeVars, up, faults, crashes>>

\* Whether the retry loop may go round again: never for a consequential action.
MayRetry(c) == ~Heavy(c) /\ invoked[c] <= MaxRetries

\* The adapter returns a result or raises; a retryable error starts over.
AdapterReturns(c, r) ==
  /\ pc[c] = "adapter"
  /\ result' = [result EXCEPT ![c] = r]
  /\ \/ Goto(c, "consume")
     \/ r # "ok" /\ MayRetry(c) /\ Goto(c, "invoke")
  /\ UNCHANGED <<act, tok, reply, invoked, approvalVars, storeVars, up, faults, crashes>>

\* Mutant of ConsumeApproval: only a call that dispatched consumes its claim.
ConsumeOnDispatchOnly(c) ==
  /\ pc[c] = "consume"
  /\ LET i == tok[c] IN
     token' = IF /\ MustClaim(c) /\ token[i].status = "LIVE" /\ reply[c] = "NONE"
                THEN [token EXCEPT ![i].consumed = TRUE] ELSE token
  /\ Goto(c, IF reply[c] = "NONE" THEN "final" ELSE "done")
  /\ UNCHANGED <<act, tok, result, reply, invoked, pending, storeVars, up,
                 faults, crashes>>

\* The finally block; a token revoked meanwhile is no longer there.
ConsumeApproval(c) ==
  /\ pc[c] = "consume"
  /\ LET i == tok[c] IN
     token' = IF MustClaim(c) /\ token[i].status = "LIVE"
                THEN [token EXCEPT ![i].consumed = TRUE] ELSE token
  /\ Goto(c, IF reply[c] = "NONE" THEN "final" ELSE "done")
  /\ UNCHANGED <<act, tok, result, reply, invoked, pending, storeVars, up,
                 faults, crashes>>

\* ambiguous_external_outcome, and the receipt execute assembles.
Ambiguous(c) == Heavy(c) /\ result[c] = "raised"
OutcomeOptimistic(c) ==     \* mutant: whatever did not raise succeeded
  IF Ambiguous(c) THEN "AMBIGUOUS" ELSE "SUCCESS"
Outcome(c)   == IF Ambiguous(c) THEN "AMBIGUOUS"
                ELSE IF result[c] = "ok" THEN "SUCCESS" ELSE "ERROR"
EndStateAlwaysFinal(c) == "FINALIZED"  \* mutant: a raise is taken for an answer
EndState(c)  == IF Ambiguous(c) THEN "AMBIGUOUS" ELSE "FINALIZED"

\* finalize_execution_intent stores receipt and intent in one transaction;
\* other actions only save a receipt.
FinalizeIntent(c) ==
  /\ pc[c] = "final"
  /\ \/ /\ IF Heavy(c)
             THEN /\ intent'  = [intent EXCEPT ![c] = EndState(c)]
                  /\ receipt' = [receipt EXCEPT ![c] = Outcome(c)]
             ELSE UNCHANGED <<intent, receipt>>
        /\ Answer(c, Outcome(c)) /\ NoFault
        /\ Goto(c, IF HasKey(c) THEN "settle" ELSE "done")
     \/ Raise(c, "done") /\ UNCHANGED <<intent, receipt>>
  /\ UNCHANGED <<act, tok, result, invoked, approvalVars, ledger, up, crashes>>

\* Mutant of SettleLedger: the ambiguous flag is not passed on.
SettleAlwaysFinal(c) ==
  /\ pc[c] = "settle"
  /\ Goto(c, "done")
  /\ ledger' = [ledger EXCEPT ![Key(c)].state = "FINALIZED"] /\ NoFault
  /\ UNCHANGED <<act, tok, result, reply, invoked, approvalVars, intent, receipt,
                 up, crashes>>

\* IdempotencyLedger.settle; a failure is only logged.
SettleLedger(c) ==
  /\ pc[c] = "settle"
  /\ Goto(c, "done")
  /\ \/ ledger' = [ledger EXCEPT ![Key(c)].state = EndState(c)] /\ NoFault
     \/ Fault /\ UNCHANGED ledger
  /\ UNCHANGED <<act, tok, result, reply, invoked, approvalVars, intent, receipt,
                 up, crashes>>

-----------------------------------------------------------------------------
(* Crash and restart.                                                       *)

Crash ==
  /\ up /\ crashes < MaxCrashes
  /\ crashes' = crashes + 1
  /\ up' = FALSE
  /\ pc' = [c \in Calls |-> IF pc[c] \in Outside THEN pc[c] ELSE "lost"]
  /\ pending' = [i \in Approvals |->
       IF pending[i].status = "NONE" THEN pending[i]
                                     ELSE [pending[i] EXCEPT !.status = "GONE"]]
  /\ token' = [i \in Approvals |->
       IF token[i].status = "NONE" THEN token[i]
                                   ELSE [token[i] EXCEPT !.status = "GONE"]]
  /\ UNCHANGED <<act, tok, result, reply, invoked, storeVars, faults>>

\* Mutant of ReconcileIntent: an intent found DISPATCHING is taken back.
ReconcileRewinds(c) ==
  /\ ~up /\ intent[c] = "DISPATCHING"
  /\ intent' = [intent EXCEPT ![c] = "PREPARED"]
  /\ UNCHANGED <<callVars, approvalVars, receipt, ledger, up, faults, crashes>>

\* reconcile_unfinished_intents, one transaction per intent, while the backend
\* is being constructed; PREPARED intents and the ledger stay as they are.
ReconcileIntent(c) ==
  /\ ~up /\ intent[c] = "DISPATCHING"
  /\ intent' = [intent EXCEPT ![c] = "AMBIGUOUS"]
  /\ UNCHANGED <<callVars, approvalVars, receipt, ledger, up, faults, crashes>>

\* The backend serves requests once every intent is reconciled.
RestartUnreconciled ==  \* mutant
  /\ ~up /\ up' = TRUE
  /\ UNCHANGED <<callVars, approvalVars, storeVars, faults, crashes>>

Restart ==
  /\ ~up /\ \A c \in Calls : intent[c] # "DISPATCHING"
  /\ up' = TRUE
  /\ UNCHANGED <<callVars, approvalVars, storeVars, faults, crashes>>

-----------------------------------------------------------------------------

Thread(c) ==
  \/ GateDenies(c)
  \/ ProposeApproval(c)
  \/ EvaluateRefuses(c)
  \/ EvaluateAllows(c)
  \/ AdapterMissing(c)
  \/ ClaimApproval(c)
  \/ ClaimFails(c)
  \/ Reserve(c)
  \/ ReserveRefused(c)
  \/ PrepareIntent(c)
  \/ MarkDispatching(c)
  \/ MarkLedger(c)
  \/ AbortDispatch(c)
  \/ Invoke(c)
  \/ \E r \in Results \ {"none"} : AdapterReturns(c, r)
  \/ ConsumeApproval(c)
  \/ FinalizeIntent(c)
  \/ SettleLedger(c)

Authority(i) ==
  \/ ApprovePending(i)
  \/ ApproveTooLate(i)
  \/ RejectPending(i)
  \/ \E a \in Actions : IssueApproval(i, a)
  \/ RevokeApproval(i)
  \/ PendingDeadline(i)
  \/ TokenDeadline(i)

Recovery == (\E c \in Calls : ReconcileIntent(c)) \/ Restart

Next ==
  \/ \E c \in Calls, a \in Actions, t \in Approvals \union {NoToken} : Submit(c, a, t)
  \/ \E c \in Calls : Thread(c)
  \/ \E i \in Approvals : Authority(i)
  \/ ListPending
  \/ Crash
  \/ Recovery

Spec == Init /\ [][Next]_vars

\* Adapters return (they carry timeouts), threads run on, and a dead backend is
\* started again.
FairSpec == Spec /\ WF_vars(Recovery) /\ \A c \in Calls : WF_vars(Thread(c))

-----------------------------------------------------------------------------
(* Properties.                                                              *)

\* Every variable keeps its type (tools/security.py, receipts.py, idempotency.py).
GatewayTypeOK ==
  /\ pc      \in [Calls -> PCs]
  /\ act     \in [Calls -> Actions \union {NoAction}]
  /\ tok     \in [Calls -> Approvals \union {NoToken}]
  /\ result  \in [Calls -> Results]
  /\ reply   \in [Calls -> Replies]
  /\ invoked \in [Calls -> Nat]
  /\ pending \in [Approvals ->
                  [status : {"NONE", "PENDING", "APPROVED", "REJECTED", "EXPIRED", "GONE"},
                   action : Actions \union {NoAction}, late : BOOLEAN]]
  /\ token   \in [Approvals ->
                  [status : {"NONE", "LIVE", "GONE"},
                   action : Actions \union {NoAction}, claim : Calls \union {NoCall},
                   consumed : BOOLEAN, expired : BOOLEAN]]
  /\ intent  \in [Calls -> Stages]
  /\ receipt \in [Calls -> Replies]
  /\ ledger  \in [Keys -> [state : Stages, owner : Calls \union {NoCall}]]
  /\ up \in BOOLEAN /\ faults \in Nat /\ crashes \in Nat

\* The calls whose consequential action reached the provider.
Fired == {c \in Calls : Heavy(c) /\ invoked[c] > 0}

\* An idempotency key lets one call through to the provider, once, over every
\* race, store failure, crash, restart and fresh approval (reserve,
\* mark_dispatching, the retry loop).
KeyFiresOnce ==
  \A c, d \in Fired : HasKey(c) => invoked[c] = 1 /\ (Key(c) = Key(d) => c = d)

\* A human approval lets one call through to the provider, once, although
\* evaluate reads it long before claim_approval and it may be revoked, expire
\* or be presented by several calls meanwhile.
ApprovalFiresOnce ==
  \A c, d \in Fired : tok[c] # NoToken => invoked[c] = 1 /\ (tok[c] = tok[d] => c = d)

\* A gated action reaches the provider only under an approval that was granted
\* for exactly this action and that this very call has claimed.
GatedFiresApproved ==
  \A c \in Fired : act[c] \in Gated =>
    tok[c] # NoToken /\ token[tok[c]].action = act[c] /\ token[tok[c]].claim = c

\* assess_execution_intent answers NOT_DISPATCHED only for an action that never
\* reached the provider, and a dispatch that a restart finds unfinished is
\* never lost sight of.
NotDispatchedTruthful ==
  \A c \in Fired : intent[c] \in {"DISPATCHING"} \union Settled

\* assess_execution_intent answers CONFIRMED_FINALIZED only when the provider
\* gave a definite answer, which the receipt repeats, or was never entered.
ConfirmedIsDefinite ==
  \A c \in Calls : intent[c] = "FINALIZED" =>
    \/ invoked[c] = 0 /\ receipt[c] = "ERROR"
    \/ result[c] = "ok" /\ receipt[c] = "SUCCESS"
    \/ result[c] = "failed" /\ receipt[c] = "ERROR"

\* The ledger and the intents are written in separate transactions; whatever
\* subset of them survives, a settled key says what its owner's intent says,
\* and a key that is only RESERVED was never used at the provider.
LedgerAgrees ==
  \A k \in Keys :
    /\ ledger[k].state \in Settled => intent[ledger[k].owner] = ledger[k].state
    /\ ledger[k].state = "RESERVED" => invoked[ledger[k].owner] = 0
    /\ \A c \in Fired : Key(c) = k =>
         ledger[k].owner = c /\ ledger[k].state \in {"DISPATCHING"} \union Settled

\* What the caller is told is true: a refusal means the provider was not
\* entered by this call, SUCCESS that it accepted and that the durable record
\* of a consequential action agrees.
ReplyTruthful ==
  \A c \in Calls :
    /\ reply[c] \in Refusals => invoked[c] = 0
    /\ reply[c] = "SUCCESS" =>
         invoked[c] > 0 /\ result[c] = "ok" /\ (Heavy(c) => intent[c] = "FINALIZED")

\* Settled intents keep their state and receipt, ledger rows keep their owner
\* and never go back, over crashes and reconciliation.
EvidenceImmutable ==
  [][/\ \A c \in Calls : intent[c] \in Settled =>
          intent'[c] = intent[c] /\ receipt'[c] = receipt[c]
     /\ \A k \in Keys :
          /\ ledger[k].state # "NONE" => ledger'[k].owner = ledger[k].owner
          /\ ledger[k].state \in Settled => ledger'[k] = ledger[k]
          /\ ledger[k].state = "DISPATCHING" => ledger'[k].state # "RESERVED"]_vars

\* A claimed approval is spent in the end, whichever way the call leaves
\* execute (its finally block), unless it is revoked or lost with the process.
ClaimedEventuallySpent ==
  \A i \in Approvals :
    (token[i].claim # NoCall) ~> (token[i].consumed \/ token[i].status = "GONE")

\* After a crash in mid-dispatch the backend comes back and the operator is
\* told that the outcome is ambiguous.
LostDispatchReported ==
  \A c \in Calls :
    (pc[c] = "lost" /\ intent[c] = "DISPATCHING") ~> (intent[c] = "AMBIGUOUS" /\ up)

\* The gateway implements the abstract promise about consequential effects.
Effects == INSTANCE GovernedEffects WITH
  grant  <- [i \in Approvals |-> token[i].action],
  holder <- [i \in Approvals |-> token[i].claim],
  fired  <- Fired

ImplementsGovernedEffects == Effects!Spec
=============================================================================
