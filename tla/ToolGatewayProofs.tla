------------------------- MODULE ToolGatewayProofs --------------------------
(***************************************************************************)
(* TLAPS proofs about ToolGateway, for every set of calls, approvals,        *)
(* actions and keys and every retry, fault and crash bound.  GatewayInv is   *)
(* the inductive invariant; the safety properties and the refinement of      *)
(* GovernedEffects follow from it.                                           *)
(***************************************************************************)
EXTENDS ToolGateway, TLAPS

Proposals == [status : {"NONE", "PENDING", "APPROVED", "REJECTED", "EXPIRED", "GONE"},
              action : Actions \union {NoAction}, late : BOOLEAN]
Tokens    == [status : {"NONE", "LIVE", "GONE"}, action : Actions \union {NoAction},
              claim : Calls \union {NoCall}, consumed : BOOLEAN, expired : BOOLEAN]

Early    == {"idle", "policy", "claim", "reserve", "prepare"}
Unfired  == Early \union {"mark", "ledger", "abort"}
Claiming == {"reserve", "prepare", "mark", "ledger", "abort", "invoke", "adapter",
             "consume", "final", "settle"}

\* The call is on its way to the provider or back, with no answer yet.
Open(c)     == pc[c] \in {"invoke", "adapter", "final"} \/ (pc[c] = "consume" /\ reply[c] = "NONE")
Returned(c) == pc[c] = "final" \/ (pc[c] = "consume" /\ reply[c] = "NONE")

\* What a thread's position says about its own variables.
PositionInv(c) ==
  /\ pc[c] = "idle" <=> act[c] = NoAction
  /\ ~up => pc[c] \in Outside
  /\ pc[c] \in Early => intent[c] = "NONE"
  /\ pc[c] \in Unfired => invoked[c] = 0 /\ reply[c] = "NONE"
  /\ pc[c] \in {"reserve", "ledger", "abort", "settle"} => HasKey(c)
  /\ pc[c] \in {"prepare", "mark"} => Heavy(c)
  /\ pc[c] = "mark" => intent[c] = "PREPARED"
  /\ pc[c] \in {"ledger", "abort"} => intent[c] = "DISPATCHING"
  /\ Open(c) => reply[c] = "NONE" /\ (Heavy(c) => intent[c] = "DISPATCHING")
  /\ pc[c] = "invoke" /\ Heavy(c) => invoked[c] = 0
  /\ Returned(c) \/ pc[c] = "adapter" => invoked[c] > 0
  /\ Returned(c) => result[c] # "none"
  /\ pc[c] = "consume" /\ reply[c] # "NONE" =>
       invoked[c] = 0 /\ reply[c] \in {"BLOCKED", "ERROR", "EXCEPTION"}
  /\ pc[c] = "settle" => intent[c] = EndState(c)

\* What the durable evidence and the reply say, wherever the thread is.
EvidenceInv(c) ==
  /\ Heavy(c) => invoked[c] \in {0, 1}
  /\ Heavy(c) /\ invoked[c] > 0 => intent[c] \in {"DISPATCHING"} \union Settled
  /\ intent[c] # "NONE" => Heavy(c)
  /\ intent[c] = "FINALIZED" =>
       \/ invoked[c] = 0 /\ receipt[c] = "ERROR"
       \/ result[c] = "ok" /\ receipt[c] = "SUCCESS"
       \/ result[c] = "failed" /\ receipt[c] = "ERROR"
  /\ reply[c] \in Refusals => invoked[c] = 0
  /\ reply[c] = "SUCCESS" =>
       invoked[c] > 0 /\ result[c] = "ok" /\ (Heavy(c) => intent[c] = "FINALIZED")

\* A token is issued once, for the action proposed.
ApprovalInv(i) ==
  /\ token[i].status = "NONE" <=> token[i].action = NoAction
  /\ token[i].status = "NONE" => token[i].claim = NoCall
  /\ pending[i].status = "PENDING" => token[i].status = "NONE" /\ pending[i].action \in Actions

\* The authority under which a call proceeds.
ClaimInv(c) ==
  /\ MustClaim(c) /\ (pc[c] \in Claiming \/ invoked[c] > 0) => token[tok[c]].claim = c
  /\ act[c] \in Gated /\ (pc[c] \in Claiming \union {"claim"} \/ invoked[c] > 0) =>
       tok[c] # NoToken /\ token[tok[c]].action = act[c]

\* A ledger row belongs to a call with that key.
LedgerInv(k) ==
  LET row == ledger[k] IN
  /\ row.state \in {"NONE", "RESERVED", "DISPATCHING"} \union Settled
  /\ row.state # "NONE" => row.owner \in Calls /\ act[row.owner] \in Actions /\ Key(row.owner) = k
  /\ row.state \in Settled => intent[row.owner] = row.state
  /\ row.state = "RESERVED" => invoked[row.owner] = 0

\* The row of a call that got past its reservation.
KeyInv(c) ==
  act[c] \in Actions /\ HasKey(c) =>
    /\ pc[c] \in {"prepare", "mark", "ledger", "abort"} =>
         ledger[Key(c)].owner = c /\ ledger[Key(c)].state = "RESERVED"
    /\ Open(c) \/ pc[c] = "settle" =>
         ledger[Key(c)].owner = c /\ ledger[Key(c)].state = "DISPATCHING"
    /\ invoked[c] > 0 =>
         ledger[Key(c)].owner = c /\ ledger[Key(c)].state \in {"DISPATCHING"} \union Settled

CallInv(c) == PositionInv(c) /\ EvidenceInv(c) /\ ClaimInv(c) /\ KeyInv(c)

GatewayInv ==
  /\ GatewayTypeOK
  /\ \A c \in Calls : CallInv(c)
  /\ \A i \in Approvals : ApprovalInv(i)
  /\ \A k \in Keys : LedgerInv(k)

-----------------------------------------------------------------------------
(* GatewayInv is inductive: one lemma per action or group of like actions.  *)

LEMMA InitInv == Init => GatewayInv
BY GatewayAssumption
   DEF Init, GatewayInv, GatewayTypeOK, CallInv, PositionInv, EvidenceInv, ClaimInv, KeyInv,
       ApprovalInv, LedgerInv, PCs, Results, Replies, Refusals, Stages, Settled, Outside,
       Early, Unfired, Claiming, Open, Returned, Heavy, MustClaim, HasKey, NoPending, Token

\* Updates of one field of an approval record.
LEMMA ProposalLemma ==
  ASSUME NEW p \in Proposals
  PROVE  /\ \A x \in {"EXPIRED", "REJECTED", "APPROVED", "GONE"} :
              [p EXCEPT !.status = x] \in Proposals /\ [p EXCEPT !.status = x].status = x
         /\ [p EXCEPT !.late = TRUE] \in Proposals
         /\ [p EXCEPT !.late = TRUE].status = p.status
         /\ [p EXCEPT !.late = TRUE].action = p.action
BY DEF Proposals

LEMMA TokenLemma ==
  ASSUME NEW t \in Tokens
  PROVE  /\ \A u \in {[t EXCEPT !.expired = TRUE], [t EXCEPT !.consumed = TRUE]} :
              u \in Tokens /\ u.status = t.status /\ u.action = t.action /\ u.claim = t.claim
         /\ \A c \in Calls : LET u == [t EXCEPT !.claim = c] IN
              u \in Tokens /\ u.status = t.status /\ u.action = t.action /\ u.claim = c
BY DEF Tokens

\* The approvals change and nothing else does: claims and granted actions stay.
LEMMA AuthorityFrame ==
  ASSUME GatewayInv, UNCHANGED <<callVars, storeVars, up, faults, crashes>>,
         GatewayTypeOK', \A i \in Approvals : ApprovalInv(i)',
         \A i \in Approvals : token[i].status # "NONE" =>
           token'[i].action = token[i].action /\ token'[i].claim = token[i].claim
  PROVE  GatewayInv'
<1> USE DEF GatewayInv, callVars, storeVars
<1>1. ASSUME NEW c \in Calls PROVE CallInv(c)'
  <2>1. PositionInv(c)' /\ EvidenceInv(c)' /\ KeyInv(c)'
    BY DEF CallInv, PositionInv, EvidenceInv, KeyInv, HasKey, Heavy, Key, Open, Returned,
           EndState, Ambiguous
  <2>2. ClaimInv(c)'
    BY GatewayAssumption
       DEF CallInv, ClaimInv, ApprovalInv, GatewayTypeOK, MustClaim, Heavy
  <2> QED  BY <2>1, <2>2 DEF CallInv
<1>2. ASSUME NEW k \in Keys PROVE LedgerInv(k)'
  BY DEF LedgerInv, Key
<1> QED  BY <1>1, <1>2

LEMMA AuthorityKeepsInv ==
  ASSUME GatewayInv, NEW n \in Approvals, Authority(n) \/ ListPending
  PROVE  GatewayInv'
<1> USE GatewayAssumption DEF GatewayInv, GatewayTypeOK, ApprovalInv, callVars, storeVars
<1>1. CASE ApprovePending(n)
  <2> DEFINE live == [status |-> "LIVE", action |-> pending[n].action, claim |-> NoCall,
                      consumed |-> FALSE, expired |-> FALSE]
  <2>a. /\ pending' = [pending EXCEPT ![n] = [pending[n] EXCEPT !.status = "APPROVED"]]
        /\ token'   = [token EXCEPT ![n] = live]
        /\ pending[n].status = "PENDING"
    BY <1>1 DEF ApprovePending, Token
  <2>b. pending[n] \in Proposals /\ [pending[n] EXCEPT !.status = "APPROVED"] \in Proposals
    <3>1. pending[n] \in Proposals
      BY DEF Proposals
    <3> HIDE DEF GatewayInv
    <3> QED  BY <3>1, ProposalLemma
  <2>c. live \in Tokens
    BY <2>b DEF Proposals, Tokens
  <2>d. pending' \in [Approvals -> Proposals] /\ token' \in [Approvals -> Tokens]
    BY <2>a, <2>b, <2>c DEF Tokens, Proposals
  <2>e. \A i \in Approvals : ApprovalInv(i)'
    BY <1>1 DEF ApprovePending, Token
  <2>f. GatewayTypeOK'
    BY <1>1, <2>d DEF ApprovePending, Tokens, Proposals
  <2>1. GatewayTypeOK' /\ \A i \in Approvals : ApprovalInv(i)'
    BY <2>e, <2>f
  <2> QED  BY <1>1, <2>1, AuthorityFrame DEF ApprovePending, Token
<1>2. ASSUME ApproveTooLate(n) \/ RejectPending(n) \/ PendingDeadline(n) \/ ListPending
      PROVE  GatewayInv'
  <2>1. /\ pending' \in [Approvals -> Proposals]
        /\ \A i \in Approvals : pending'[i].status = "PENDING" =>
             pending[i].status = "PENDING" /\ pending'[i].action = pending[i].action
    <3> DEFINE closed(i, s) == [pending[i] EXCEPT !.status = s]
               late(i)      == [pending[i] EXCEPT !.late = TRUE]
    <3>a. \A i \in Approvals : /\ closed(i, "EXPIRED") \in Proposals /\ closed(i, "REJECTED") \in Proposals
                              /\ late(i) \in Proposals /\ late(i).status = pending[i].status
                              /\ late(i).action = pending[i].action
                              /\ closed(i, "EXPIRED").status = "EXPIRED"
                              /\ closed(i, "REJECTED").status = "REJECTED"
      <4>1. \A i \in Approvals : pending[i] \in Proposals
        BY DEF Proposals
      <4> QED  BY <4>1, ProposalLemma
    <3>1. CASE ApproveTooLate(n)
      <4>1. pending' = [pending EXCEPT ![n] = closed(n, "EXPIRED")]
        BY <3>1 DEF ApproveTooLate
      <4> HIDE DEF closed, late
      <4> QED  BY <3>a, <4>1 DEF Proposals
    <3>2. CASE RejectPending(n)
      <4>1. pending' = [pending EXCEPT ![n] = closed(n, "REJECTED")]
        BY <3>2 DEF RejectPending
      <4> HIDE DEF closed, late
      <4> QED  BY <3>a, <4>1 DEF Proposals
    <3>3. CASE PendingDeadline(n)
      <4>1. pending' = [pending EXCEPT ![n] = late(n)]
        BY <3>3 DEF PendingDeadline
      <4> HIDE DEF closed, late
      <4> QED  BY <3>a, <4>1 DEF Proposals
    <3>4. CASE ListPending
      BY <3>4, <3>a DEF ListPending, Proposals
    <3> QED  BY <1>2, <3>1, <3>2, <3>3, <3>4
  <2>2. UNCHANGED <<callVars, storeVars, up, faults, crashes, token>>
    BY <1>2 DEF ApproveTooLate, RejectPending, PendingDeadline, ListPending
  <2> HIDE <1>2
  <2>3. GatewayTypeOK' /\ \A i \in Approvals : ApprovalInv(i)'
    BY <2>1, <2>2 DEF Proposals
  <2> QED  BY <2>2, <2>3, AuthorityFrame
<1>3. ASSUME NEW a \in Actions, IssueApproval(n, a) PROVE GatewayInv'
  <2>1. GatewayTypeOK' /\ \A i \in Approvals : ApprovalInv(i)'
    BY <1>3 DEF IssueApproval, Fresh, Token
  <2> QED  BY <1>3, <2>1, AuthorityFrame DEF IssueApproval, Fresh, Token
<1>4. CASE RevokeApproval(n)
  <2>1. GatewayTypeOK' /\ \A i \in Approvals : ApprovalInv(i)'
    BY <1>4 DEF RevokeApproval
  <2> QED  BY <1>4, <2>1, AuthorityFrame DEF RevokeApproval
<1>5. CASE TokenDeadline(n)
  <2>1. GatewayTypeOK' /\ \A i \in Approvals : ApprovalInv(i)'
    <3> DEFINE spent == [token[n] EXCEPT !.expired = TRUE]
    <3>1. /\ spent \in Tokens /\ spent.status = token[n].status
          /\ spent.action = token[n].action /\ spent.claim = token[n].claim
      <4>1. token[n] \in Tokens
        BY DEF Tokens
      <4> QED  BY <4>1, TokenLemma
    <3>2. token' = [token EXCEPT ![n] = spent]
      BY <1>5 DEF TokenDeadline
    <3> HIDE DEF spent
    <3>3. token' \in [Approvals -> Tokens]
      BY <3>1, <3>2 DEF Tokens
    <3> QED  BY <1>5, <3>1, <3>2, <3>3 DEF TokenDeadline, Tokens
  <2> QED  BY <1>5, <2>1, AuthorityFrame DEF TokenDeadline
<1> QED  BY <1>1, <1>2, <1>3, <1>4, <1>5 DEF Authority

LEMMA SubmitKeepsInv ==
  ASSUME GatewayInv, NEW q \in Calls, NEW a \in Actions,
         NEW t \in Approvals \union {NoToken}, Submit(q, a, t)
  PROVE  GatewayInv'
<1> USE GatewayAssumption DEF GatewayInv, Submit, Goto, approvalVars, storeVars
<1>1. GatewayTypeOK'
  BY DEF GatewayTypeOK, PCs
<1>2. ASSUME NEW c \in Calls PROVE CallInv(c)'
  BY DEF GatewayTypeOK, CallInv, PositionInv, EvidenceInv, ClaimInv, KeyInv, HasKey, Heavy, Key,
         Open, Returned, EndState, Ambiguous, MustClaim, Early, Unfired, Claiming, Refusals,
         Settled, Outside
<1>3. ASSUME NEW i \in Approvals PROVE ApprovalInv(i)'
  BY DEF ApprovalInv
<1>4. ASSUME NEW k \in Keys PROVE LedgerInv(k)'
  BY DEF LedgerInv, Key, CallInv, PositionInv, GatewayTypeOK
<1> QED  BY <1>1, <1>2, <1>3, <1>4

\* Another call is not disturbed by a step that leaves its variables, its
\* claim and its ledger row alone.
LEMMA OthersKeepInv ==
  ASSUME GatewayInv, NEW c \in Calls, up' = up,
         pc'[c] = pc[c], act'[c] = act[c], tok'[c] = tok[c], result'[c] = result[c],
         reply'[c] = reply[c], invoked'[c] = invoked[c], intent'[c] = intent[c],
         receipt'[c] = receipt[c],
         \A i \in Approvals : token'[i].action = token[i].action
                              /\ (token[i].claim # NoCall => token'[i].claim = token[i].claim),
         \A k \in Keys : ledger[k].state # "NONE" /\ ledger[k].owner = c => ledger'[k] = ledger[k]
  PROVE  CallInv(c)'
<1> USE GatewayAssumption DEF GatewayInv
<1>1. PositionInv(c)' /\ EvidenceInv(c)'
  BY DEF CallInv, PositionInv, EvidenceInv, HasKey, Heavy, Key, Open, Returned, EndState,
         Ambiguous
<1>2. ClaimInv(c)'
  BY DEF GatewayTypeOK, CallInv, ClaimInv, MustClaim, Heavy
<1>3. KeyInv(c)'
  BY DEF CallInv, KeyInv, HasKey, Key, Open, Settled
<1> QED  BY <1>1, <1>2, <1>3 DEF CallInv

\* A call that is refused before the claim, or whose claim fails, leaves with
\* an answer and without a trace.
LEMMA RefusalKeepsInv ==
  ASSUME GatewayInv, NEW q \in Calls, pc[q] \in {"policy", "claim"},
         NEW r \in {"BLOCKED", "APPROVAL_REQUIRED", "ERROR", "EXCEPTION"},
         pc' = [pc EXCEPT ![q] = "done"], reply' = [reply EXCEPT ![q] = r],
         UNCHANGED <<act, tok, result, invoked, token, storeVars, up>>,
         GatewayTypeOK', \A i \in Approvals : ApprovalInv(i)'
  PROVE  GatewayInv'
<1> USE GatewayAssumption DEF GatewayInv, storeVars
<1>1. ASSUME NEW c \in Calls PROVE CallInv(c)'
  <2>1. CASE c # q
    BY <2>1, OthersKeepInv DEF GatewayTypeOK
  <2>2. CASE c = q
    BY <2>2 DEF GatewayTypeOK, CallInv, PositionInv, EvidenceInv, ClaimInv, KeyInv, HasKey,
                Heavy, Key,
         Open, Returned, EndState, Ambiguous, MustClaim, Early, Unfired, Claiming, Refusals,
         Settled, Outside
  <2> QED  BY <2>1, <2>2
<1>2. ASSUME NEW k \in Keys PROVE LedgerInv(k)'
  BY DEF LedgerInv, Key
<1> QED  BY <1>1, <1>2

LEMMA CreatePendingLemma ==
  ASSUME GatewayInv, NEW a \in Actions, CreatePending(a), UNCHANGED token
  PROVE  /\ pending' \in [Approvals -> Proposals]
         /\ \A i \in Approvals : ApprovalInv(i)'
<1> DEFINE swept(i) == IF pending[i].status = "PENDING" /\ pending[i].action = a /\ pending[i].late
                         THEN [pending[i] EXCEPT !.status = "EXPIRED"] ELSE pending[i]
           new == [status |-> "PENDING", action |-> a, late |-> FALSE]
<1>1. \A i \in Approvals : swept(i) \in Proposals /\ (swept(i).status = "PENDING" => swept(i) = pending[i])
  BY DEF GatewayInv, GatewayTypeOK, Proposals
<1>2. new \in Proposals /\ new.action \in Actions
  BY DEF Proposals
<1>3. CASE pending' = [i \in Approvals |-> swept(i)]
  <2> HIDE DEF swept
  <2> QED  BY <1>1, <1>3 DEF ApprovalInv, GatewayInv
<1>4. ASSUME NEW n \in Approvals, Fresh(n),
             pending' = [i \in Approvals |-> IF i = n THEN new ELSE swept(i)]
      PROVE  pending' \in [Approvals -> Proposals] /\ \A i \in Approvals : ApprovalInv(i)'
  <2> HIDE DEF swept, new
  <2> QED  BY <1>1, <1>2, <1>4 DEF ApprovalInv, GatewayInv, Fresh
<1> QED  BY <1>3, <1>4 DEF CreatePending

LEMMA PolicyKeepsInv ==
  ASSUME GatewayInv, NEW q \in Calls,
         GateDenies(q) \/ ProposeApproval(q) \/ EvaluateRefuses(q) \/ AdapterMissing(q) \/ ClaimFails(q)
  PROVE  GatewayInv'
<1> DEFINE R == {"BLOCKED", "APPROVAL_REQUIRED", "ERROR", "EXCEPTION"}
<1> USE GatewayAssumption DEF approvalVars, storeVars
<1>1. PICK r \in R : /\ pc[q] \in {"policy", "claim"}
                      /\ pc' = [pc EXCEPT ![q] = "done"] /\ reply' = [reply EXCEPT ![q] = r]
                      /\ UNCHANGED <<act, tok, result, invoked, token, storeVars, up, crashes>>
                      /\ faults' \in {faults, faults + 1}
  BY DEF GateDenies, CapabilityDenies, BrainDenies, Denied, ProposeApproval, EvaluateRefuses,
         AdapterMissing, ClaimFails, LeaveWith, Goto,
         Answer, NoFault, Fault
<1>2. /\ pending' \in [Approvals -> Proposals]
      /\ \A i \in Approvals : ApprovalInv(i)'
  <2>1. CASE ProposeApproval(q)
    BY <2>1, CreatePendingLemma DEF ProposeApproval
  <2>2. CASE UNCHANGED approvalVars
    BY <2>2 DEF GatewayInv, GatewayTypeOK, ApprovalInv, Proposals
  <2> QED  BY <2>1, <2>2 DEF GateDenies, CapabilityDenies, BrainDenies, Denied,
                             EvaluateRefuses, AdapterMissing, ClaimFails
<1>3. GatewayTypeOK'
  BY <1>1, <1>2 DEF GatewayInv, GatewayTypeOK, Proposals, PCs, Replies
<1> QED  BY <1>1, <1>2, <1>3, RefusalKeepsInv

\* Evaluation lets the call go on to its claim.
LEMMA EvaluateKeepsInv ==
  ASSUME GatewayInv, NEW q \in Calls, EvaluateAllows(q)
  PROVE  GatewayInv'
<1> USE GatewayAssumption DEF GatewayInv, EvaluateAllows, Goto, approvalVars, storeVars
<1>1. GatewayTypeOK'
  BY DEF GatewayTypeOK, PCs, Results, Replies, Stages, Settled
<1>2. ASSUME NEW c \in Calls PROVE CallInv(c)'
  <2>1. CASE c # q
    BY <2>1, OthersKeepInv DEF GatewayTypeOK
  <2>2. CASE c = q
    BY <2>2 DEF GatewayTypeOK, Approved, CallInv, PositionInv, EvidenceInv, ClaimInv, KeyInv,
                HasKey, Heavy, Key, Open, Returned,
               EndState, Ambiguous, MustClaim, Early, Unfired, Claiming, Refusals, Settled,
               Outside
  <2> QED  BY <2>1, <2>2
<1>3. ASSUME NEW i \in Approvals PROVE ApprovalInv(i)'
  BY DEF ApprovalInv
<1>4. ASSUME NEW k \in Keys PROVE LedgerInv(k)'
  BY DEF LedgerInv, Key
<1> QED  BY <1>1, <1>2, <1>3, <1>4

\* The key had no row, so no other call relied on it.
LEMMA ReserveKeepsInv ==
  ASSUME GatewayInv, NEW q \in Calls, Reserve(q)
  PROVE  GatewayInv'
<1> USE GatewayAssumption DEF GatewayInv, Reserve, Goto, approvalVars
<1>1. GatewayTypeOK'
  BY DEF GatewayTypeOK, PCs, Results, Replies, Stages, Settled
<1>2. ASSUME NEW c \in Calls PROVE CallInv(c)'
  <2>1. CASE c # q
    BY <2>1, OthersKeepInv DEF GatewayTypeOK, LedgerInv, Key, HasKey, CallInv, PositionInv
  <2>2. CASE c = q
    BY <2>2 DEF GatewayTypeOK, CallInv, PositionInv, EvidenceInv, ClaimInv, KeyInv, HasKey,
                Heavy, Key, Open, Returned,
               EndState, Ambiguous, MustClaim, Early, Unfired, Claiming, Refusals, Settled,
               Outside
  <2> QED  BY <2>1, <2>2
<1>3. ASSUME NEW i \in Approvals PROVE ApprovalInv(i)'
  BY DEF ApprovalInv
<1>4. ASSUME NEW k \in Keys PROVE LedgerInv(k)'
  BY DEF LedgerInv, Key, GatewayTypeOK, CallInv, PositionInv, HasKey, Settled, Early, Unfired
<1> QED  BY <1>1, <1>2, <1>3, <1>4

\* A call that moves on, with an answer, stays typed.
LEMMA AnswerTyped ==
  ASSUME GatewayInv, NEW c \in Calls, NEW p \in PCs, NEW r \in Replies
  PROVE  [pc EXCEPT ![c] = p] \in [Calls -> PCs] /\ [reply EXCEPT ![c] = r] \in [Calls -> Replies]
<1>1. pc \in [Calls -> PCs] /\ reply \in [Calls -> Replies]
  BY DEF GatewayInv, GatewayTypeOK
<1> QED  BY <1>1

\* The key is taken or the store failed.
LEMMA ReserveRefusedKeepsInv ==
  ASSUME GatewayInv, NEW q \in Calls, ReserveRefused(q)
  PROVE  GatewayInv'
<1> USE GatewayAssumption DEF GatewayInv, ReserveRefused, Goto, Answer, LeaveWith, NoFault,
                              Fault, approvalVars, storeVars
<1>1. GatewayTypeOK'
  <2>1. faults' \in Nat
    BY DEF GatewayTypeOK
  <2>2. pc' \in [Calls -> PCs] /\ reply' \in [Calls -> Replies]
    <3>1. \E r \in {"BLOCKED", "ERROR", "EXCEPTION"} :
            /\ pc'    = [pc EXCEPT ![q] = "consume"]
            /\ reply' = [reply EXCEPT ![q] = r]
      OBVIOUS
    <3>2. "consume" \in PCs /\ {"BLOCKED", "ERROR", "EXCEPTION"} \subseteq Replies
      BY DEF PCs, Replies
    <3> QED  BY <3>1, <3>2, AnswerTyped
  <2>3. intent' \in [Calls -> Stages] /\ receipt' \in [Calls -> Replies]
    BY DEF GatewayTypeOK, Stages, Settled, Replies
  <2>4. ledger' \in [Keys -> [state : Stages, owner : Calls \union {NoCall}]]
    BY DEF GatewayTypeOK, Stages, Settled
  <2> QED  BY <2>1, <2>2, <2>3, <2>4 DEF GatewayTypeOK
<1>2. ASSUME NEW c \in Calls PROVE CallInv(c)'
  <2>1. CASE c # q
    BY <2>1, OthersKeepInv DEF GatewayTypeOK
  <2>2. CASE c = q
    BY <2>2 DEF GatewayTypeOK, CallInv, PositionInv, EvidenceInv, ClaimInv, KeyInv, HasKey,
                Heavy, Key, Open, Returned,
               EndState, Ambiguous, MustClaim, Early, Unfired, Claiming, Refusals, Settled,
               Outside
  <2> QED  BY <2>1, <2>2
<1>3. ASSUME NEW i \in Approvals PROVE ApprovalInv(i)'
  BY DEF ApprovalInv
<1>4. ASSUME NEW k \in Keys PROVE LedgerInv(k)'
  BY DEF LedgerInv, Key
<1> QED  BY <1>1, <1>2, <1>3, <1>4

\* The intent is recorded before anything is dispatched.
LEMMA PrepareKeepsInv ==
  ASSUME GatewayInv, NEW q \in Calls, PrepareIntent(q)
  PROVE  GatewayInv'
<1> USE GatewayAssumption DEF GatewayInv, PrepareIntent, Goto, Answer, Raise, NoFault, Fault,
                              approvalVars
<1>1. GatewayTypeOK'
  <2>1. faults' \in Nat
    BY DEF GatewayTypeOK
  <2>2. pc' \in [Calls -> PCs] /\ reply' \in [Calls -> Replies]
    BY DEF GatewayTypeOK, PCs, Replies
  <2>3. intent' \in [Calls -> Stages] /\ receipt' \in [Calls -> Replies]
    BY DEF GatewayTypeOK, Stages, Settled, Replies
  <2>4. ledger' \in [Keys -> [state : Stages, owner : Calls \union {NoCall}]]
    BY DEF GatewayTypeOK, Stages, Settled
  <2> QED  BY <2>1, <2>2, <2>3, <2>4 DEF GatewayTypeOK
<1>2. ASSUME NEW c \in Calls PROVE CallInv(c)'
  <2>1. CASE c # q
    BY <2>1, OthersKeepInv DEF GatewayTypeOK
  <2>2. CASE c = q
    BY <2>2 DEF GatewayTypeOK, CallInv, PositionInv, EvidenceInv, ClaimInv, KeyInv, HasKey,
                Heavy, Key, Open, Returned,
               EndState, Ambiguous, MustClaim, Early, Unfired, Claiming, Refusals, Settled,
               Outside
  <2> QED  BY <2>1, <2>2
<1>3. ASSUME NEW i \in Approvals PROVE ApprovalInv(i)'
  BY DEF ApprovalInv
<1>4. ASSUME NEW k \in Keys PROVE LedgerInv(k)'
  BY DEF LedgerInv, Key, GatewayTypeOK, CallInv, PositionInv, Early, Settled
<1> QED  BY <1>1, <1>2, <1>3, <1>4

\* DISPATCHING is durable before the adapter is entered.
LEMMA MarkKeepsInv ==
  ASSUME GatewayInv, NEW q \in Calls, MarkDispatching(q)
  PROVE  GatewayInv'
<1> USE GatewayAssumption DEF GatewayInv, MarkDispatching, Goto, Answer, Raise, NoFault,
                              Fault, approvalVars
<1>1. GatewayTypeOK'
  <2>1. faults' \in Nat
    BY DEF GatewayTypeOK
  <2>2. pc' \in [Calls -> PCs] /\ reply' \in [Calls -> Replies]
    BY DEF GatewayTypeOK, PCs, Replies
  <2>3. intent' \in [Calls -> Stages] /\ receipt' \in [Calls -> Replies]
    BY DEF GatewayTypeOK, Stages, Settled, Replies
  <2>4. ledger' \in [Keys -> [state : Stages, owner : Calls \union {NoCall}]]
    BY DEF GatewayTypeOK, Stages, Settled
  <2> QED  BY <2>1, <2>2, <2>3, <2>4 DEF GatewayTypeOK
<1>2. ASSUME NEW c \in Calls PROVE CallInv(c)'
  <2>1. CASE c # q
    BY <2>1, OthersKeepInv DEF GatewayTypeOK
  <2>2. CASE c = q
    BY <2>2 DEF GatewayTypeOK, CallInv, PositionInv, EvidenceInv, ClaimInv, KeyInv, HasKey,
                Heavy, Key, Open, Returned,
               EndState, Ambiguous, MustClaim, Early, Unfired, Claiming, Refusals, Settled,
               Outside
  <2> QED  BY <2>1, <2>2
<1>3. ASSUME NEW i \in Approvals PROVE ApprovalInv(i)'
  BY DEF ApprovalInv
<1>4. ASSUME NEW k \in Keys PROVE LedgerInv(k)'
  BY DEF LedgerInv, Key, GatewayTypeOK, CallInv, PositionInv, Settled
<1> QED  BY <1>1, <1>2, <1>3, <1>4

\* The ledger follows, or the call backs out.
LEMMA MarkLedgerKeepsInv ==
  ASSUME GatewayInv, NEW q \in Calls, MarkLedger(q)
  PROVE  GatewayInv'
<1> USE GatewayAssumption DEF GatewayInv, MarkLedger, Goto, NoFault, Fault, approvalVars
<1>1. GatewayTypeOK'
  <2>1. faults' \in Nat
    BY DEF GatewayTypeOK
  <2>2. pc' \in [Calls -> PCs] /\ reply' \in [Calls -> Replies]
    BY DEF GatewayTypeOK, PCs, Replies
  <2>3. intent' \in [Calls -> Stages] /\ receipt' \in [Calls -> Replies]
    BY DEF GatewayTypeOK, Stages, Settled, Replies
  <2>4. ledger' \in [Keys -> [state : Stages, owner : Calls \union {NoCall}]]
    BY DEF GatewayTypeOK, Stages, Settled
  <2> QED  BY <2>1, <2>2, <2>3, <2>4 DEF GatewayTypeOK
<1>2. ASSUME NEW c \in Calls PROVE CallInv(c)'
  <2>1. CASE c # q
    BY <2>1, OthersKeepInv DEF GatewayTypeOK, CallInv, PositionInv, KeyInv, HasKey, Key
  <2>2. CASE c = q
    BY <2>2 DEF GatewayTypeOK, CallInv, PositionInv, EvidenceInv, ClaimInv, KeyInv, HasKey,
                Heavy, Key, Open, Returned,
               EndState, Ambiguous, MustClaim, Early, Unfired, Claiming, Refusals, Settled,
               Outside
  <2> QED  BY <2>1, <2>2
<1>3. ASSUME NEW i \in Approvals PROVE ApprovalInv(i)'
  BY DEF ApprovalInv
<1>4. ASSUME NEW k \in Keys PROVE LedgerInv(k)'
  BY DEF LedgerInv, Key, GatewayTypeOK, CallInv, PositionInv, KeyInv, HasKey, Settled
<1> QED  BY <1>1, <1>2, <1>3, <1>4

\* Backing out finalizes an intent whose action never ran.
LEMMA AbortKeepsInv ==
  ASSUME GatewayInv, NEW q \in Calls, AbortDispatch(q)
  PROVE  GatewayInv'
<1> USE GatewayAssumption DEF GatewayInv, AbortDispatch, Goto, Answer, Raise, NoFault, Fault,
                              approvalVars
<1>1. GatewayTypeOK'
  <2>1. faults' \in Nat
    BY DEF GatewayTypeOK
  <2>2. pc' \in [Calls -> PCs] /\ reply' \in [Calls -> Replies]
    BY DEF GatewayTypeOK, PCs, Replies
  <2>3. intent' \in [Calls -> Stages] /\ receipt' \in [Calls -> Replies]
    BY DEF GatewayTypeOK, Stages, Settled, Replies
  <2>4. ledger' \in [Keys -> [state : Stages, owner : Calls \union {NoCall}]]
    BY DEF GatewayTypeOK, Stages, Settled
  <2> QED  BY <2>1, <2>2, <2>3, <2>4 DEF GatewayTypeOK
<1>2. ASSUME NEW c \in Calls PROVE CallInv(c)'
  <2>1. CASE c # q
    BY <2>1, OthersKeepInv DEF GatewayTypeOK
  <2>2. CASE c = q
    BY <2>2 DEF GatewayTypeOK, CallInv, PositionInv, EvidenceInv, ClaimInv, KeyInv, HasKey,
                Heavy, Key, Open, Returned,
               EndState, Ambiguous, MustClaim, Early, Unfired, Claiming, Refusals, Settled,
               Outside
  <2> QED  BY <2>1, <2>2
<1>3. ASSUME NEW i \in Approvals PROVE ApprovalInv(i)'
  BY DEF ApprovalInv
<1>4. ASSUME NEW k \in Keys PROVE LedgerInv(k)'
  BY DEF LedgerInv, Key, GatewayTypeOK, CallInv, PositionInv, Settled
<1> QED  BY <1>1, <1>2, <1>3, <1>4

\* The provider is entered: the ledger says DISPATCHING already.
LEMMA InvokeKeepsInv ==
  ASSUME GatewayInv, NEW q \in Calls, Invoke(q)
  PROVE  GatewayInv'
<1> USE GatewayAssumption DEF GatewayInv, Invoke, Goto, approvalVars, storeVars
<1>1. GatewayTypeOK'
  BY DEF GatewayTypeOK, PCs, Results, Replies, Stages, Settled
<1>2. ASSUME NEW c \in Calls PROVE CallInv(c)'
  <2>1. CASE c # q
    BY <2>1, OthersKeepInv DEF GatewayTypeOK
  <2>2. CASE c = q
    BY <2>2 DEF GatewayTypeOK, CallInv, PositionInv, EvidenceInv, ClaimInv, KeyInv, HasKey,
                Heavy, Key, Open, Returned,
               EndState, Ambiguous, MustClaim, Early, Unfired, Claiming, Refusals, Settled,
               Outside
  <2> QED  BY <2>1, <2>2
<1>3. ASSUME NEW i \in Approvals PROVE ApprovalInv(i)'
  BY DEF ApprovalInv
<1>4. ASSUME NEW k \in Keys PROVE LedgerInv(k)'
  BY DEF LedgerInv, Key, GatewayTypeOK, CallInv, PositionInv, KeyInv, Open, HasKey
<1> QED  BY <1>1, <1>2, <1>3, <1>4

\* Only harmless actions go round again.
LEMMA ReturnKeepsInv ==
  ASSUME GatewayInv, NEW q \in Calls, NEW r \in Results \ {"none"}, AdapterReturns(q, r)
  PROVE  GatewayInv'
<1> USE GatewayAssumption DEF GatewayInv, AdapterReturns, Goto, MayRetry, approvalVars,
                              storeVars
<1>1. GatewayTypeOK'
  BY DEF GatewayTypeOK, PCs, Results, Replies, Stages, Settled
<1>2. ASSUME NEW c \in Calls PROVE CallInv(c)'
  <2>1. CASE c # q
    BY <2>1, OthersKeepInv DEF GatewayTypeOK
  <2>2. CASE c = q
    BY <2>2 DEF GatewayTypeOK, CallInv, PositionInv, EvidenceInv, ClaimInv, KeyInv, HasKey,
                Heavy, Key, Open, Returned,
               EndState, Ambiguous, MustClaim, Early, Unfired, Claiming, Refusals, Settled,
               Outside
  <2> QED  BY <2>1, <2>2
<1>3. ASSUME NEW i \in Approvals PROVE ApprovalInv(i)'
  BY DEF ApprovalInv
<1>4. ASSUME NEW k \in Keys PROVE LedgerInv(k)'
  BY DEF LedgerInv, Key
<1> QED  BY <1>1, <1>2, <1>3, <1>4

\* Intent and receipt say what the adapter did.
LEMMA FinalizeKeepsInv ==
  ASSUME GatewayInv, NEW q \in Calls, FinalizeIntent(q)
  PROVE  GatewayInv'
<1> USE GatewayAssumption DEF GatewayInv, FinalizeIntent, Goto, Answer, Raise, NoFault, Fault,
                              approvalVars
<1>1. GatewayTypeOK'
  <2>1. faults' \in Nat
    BY DEF GatewayTypeOK
  <2>2. pc' \in [Calls -> PCs] /\ reply' \in [Calls -> Replies]
    BY DEF GatewayTypeOK, PCs, Replies, Outcome
  <2>3. intent' \in [Calls -> Stages] /\ receipt' \in [Calls -> Replies]
    <3>1. EndState(q) \in Stages /\ Outcome(q) \in Replies
      BY DEF EndState, Outcome, Stages, Settled, Replies
    <3>2. intent \in [Calls -> Stages] /\ receipt \in [Calls -> Replies]
      BY DEF GatewayTypeOK
    <3>3. \/ intent' = [intent EXCEPT ![q] = EndState(q)] /\ receipt' = [receipt EXCEPT ![q] = Outcome(q)]
          \/ UNCHANGED <<intent, receipt>>
      OBVIOUS
    <3> HIDE DEF FinalizeIntent, GatewayInv
    <3> QED  BY <3>1, <3>2, <3>3
  <2>4. ledger' \in [Keys -> [state : Stages, owner : Calls \union {NoCall}]]
    BY DEF GatewayTypeOK, Stages, Settled
  <2> QED  BY <2>1, <2>2, <2>3, <2>4 DEF GatewayTypeOK
<1>2. ASSUME NEW c \in Calls PROVE CallInv(c)'
  <2>1. CASE c # q
    BY <2>1, OthersKeepInv DEF GatewayTypeOK
  <2>2. CASE c = q
    BY <2>2 DEF GatewayTypeOK, Outcome, Results, CallInv, PositionInv, EvidenceInv, ClaimInv,
                KeyInv, HasKey, Heavy, Key, Open, Returned,
               EndState, Ambiguous, MustClaim, Early, Unfired, Claiming, Refusals, Settled,
               Outside
  <2> QED  BY <2>1, <2>2
<1>3. ASSUME NEW i \in Approvals PROVE ApprovalInv(i)'
  BY DEF ApprovalInv
<1>4. ASSUME NEW k \in Keys PROVE LedgerInv(k)'
  BY DEF LedgerInv, Key, GatewayTypeOK, CallInv, PositionInv, Open, Heavy, Settled
<1> QED  BY <1>1, <1>2, <1>3, <1>4

\* The ledger repeats the state of the intent.
LEMMA SettleKeepsInv ==
  ASSUME GatewayInv, NEW q \in Calls, SettleLedger(q)
  PROVE  GatewayInv'
<1> USE GatewayAssumption DEF GatewayInv, SettleLedger, Goto, NoFault, Fault, approvalVars
<1>1. GatewayTypeOK'
  <2>1. faults' \in Nat
    BY DEF GatewayTypeOK
  <2>2. pc' \in [Calls -> PCs] /\ reply' \in [Calls -> Replies]
    BY DEF GatewayTypeOK, PCs, Replies
  <2>3. intent' \in [Calls -> Stages] /\ receipt' \in [Calls -> Replies]
    BY DEF GatewayTypeOK, Stages, Settled, Replies
  <2>4. ledger' \in [Keys -> [state : Stages, owner : Calls \union {NoCall}]]
    <3>1. EndState(q) \in Stages
      BY DEF EndState, Stages, Settled
    <3>2. CASE UNCHANGED ledger
      BY <3>2 DEF GatewayTypeOK
    <3>3. CASE ledger' = [ledger EXCEPT ![Key(q)].state = EndState(q)]
      <4> DEFINE x == EndState(q)
      <4> HIDE DEF x
      <4> QED  BY <3>1, <3>3 DEF GatewayTypeOK, x
    <3> QED  BY <3>2, <3>3
  <2> QED  BY <2>1, <2>2, <2>3, <2>4 DEF GatewayTypeOK
<1>2. ASSUME NEW c \in Calls PROVE CallInv(c)'
  <2>1. CASE c # q
    BY <2>1, OthersKeepInv DEF GatewayTypeOK, CallInv, PositionInv, KeyInv, HasKey, Key
  <2>2. CASE c = q
    BY <2>2 DEF GatewayTypeOK, CallInv, PositionInv, EvidenceInv, ClaimInv, KeyInv, HasKey,
                Heavy, Key, Open, Returned,
               EndState, Ambiguous, MustClaim, Early, Unfired, Claiming, Refusals, Settled,
               Outside
  <2> QED  BY <2>1, <2>2
<1>3. ASSUME NEW i \in Approvals PROVE ApprovalInv(i)'
  BY DEF ApprovalInv
<1>4. ASSUME NEW k \in Keys PROVE LedgerInv(k)'
  BY DEF LedgerInv, Key, GatewayTypeOK, CallInv, PositionInv, KeyInv, HasKey, EndState,
         Ambiguous, Settled
<1> QED  BY <1>1, <1>2, <1>3, <1>4

\* Claiming succeeds for one call only, and consuming leaves the claim.
LEMMA ClaimKeepsInv ==
  ASSUME GatewayInv, NEW q \in Calls, ClaimApproval(q)
  PROVE  GatewayInv'
<1> USE GatewayAssumption DEF GatewayInv, ClaimApproval, Goto, storeVars
<1>1. MustClaim(q) => /\ tok[q] \in Approvals /\ Claimable(tok[q])
                      /\ token' = [token EXCEPT ![tok[q]] = [token[tok[q]] EXCEPT !.claim = q]]
  BY DEF GatewayTypeOK, MustClaim
<1>2. ~MustClaim(q) => UNCHANGED token
  OBVIOUS
<1>3. /\ token' \in [Approvals -> Tokens]
      /\ \A i \in Approvals : /\ token'[i].status = token[i].status
                              /\ token'[i].action = token[i].action
                              /\ token[i].claim # NoCall => token'[i].claim = token[i].claim
                              /\ token[i].status = "NONE" => token'[i].claim = token[i].claim
      /\ MustClaim(q) => token'[tok[q]].claim = q
  <2>1. \A i \in Approvals : token[i] \in Tokens
    BY DEF GatewayTypeOK, Tokens
  <2>2. CASE MustClaim(q)
    <3> DEFINE u == [token[tok[q]] EXCEPT !.claim = q]
    <3>1. /\ u \in Tokens /\ u.status = token[tok[q]].status /\ u.action = token[tok[q]].action
          /\ u.claim = q
      BY <1>1, <2>1, <2>2, TokenLemma
    <3>2. token' = [token EXCEPT ![tok[q]] = u]
      BY <1>1, <2>2
    <3> HIDE DEF u
    <3> QED  BY <1>1, <2>1, <2>2, <3>1, <3>2 DEF Claimable, GatewayTypeOK
  <2>3. CASE ~MustClaim(q)
    BY <1>2, <2>1, <2>3 DEF GatewayTypeOK
  <2> QED  BY <2>2, <2>3
<1>4. GatewayTypeOK'
  BY <1>3 DEF GatewayTypeOK, Tokens, PCs, AfterClaim
<1>5. ASSUME NEW c \in Calls PROVE CallInv(c)'
  <2>1. CASE c # q
    BY <1>3, <2>1, OthersKeepInv DEF GatewayTypeOK
  <2>2. CASE c = q
    <3>1. PositionInv(c)' /\ EvidenceInv(c)' /\ KeyInv(c)'
      BY <2>2 DEF GatewayTypeOK, CallInv, PositionInv, EvidenceInv, KeyInv, HasKey, Heavy, Key,
           Open, Returned, EndState, Ambiguous, Early, Unfired, Refusals, Settled, Outside,
           AfterClaim
    <3>2. ClaimInv(c)'
      <4>1. act[c] \in Gated => tok[c] \in Approvals /\ token[tok[c]].action = act[c]
        BY <2>2 DEF CallInv, ClaimInv, GatewayTypeOK
      <4>2. MustClaim(c)' <=> MustClaim(c)
        BY DEF MustClaim, Heavy
      <4>3. MustClaim(c) => token'[tok'[c]].claim = c
        BY <1>3, <2>2
      <4>4. act'[c] \in Gated => tok'[c] # NoToken /\ token'[tok'[c]].action = act'[c]
        BY <1>3, <4>1
      <4> QED  BY <4>2, <4>3, <4>4 DEF ClaimInv
    <3> QED  BY <3>1, <3>2 DEF CallInv
  <2> QED  BY <2>1, <2>2
<1>6. ASSUME NEW i \in Approvals PROVE ApprovalInv(i)'
  BY <1>3 DEF ApprovalInv
<1>7. ASSUME NEW k \in Keys PROVE LedgerInv(k)'
  BY DEF LedgerInv, Key
<1> QED  BY <1>4, <1>5, <1>6, <1>7

LEMMA ConsumeKeepsInv ==
  ASSUME GatewayInv, NEW q \in Calls, ConsumeApproval(q)
  PROVE  GatewayInv'
<1> USE GatewayAssumption DEF GatewayInv, ConsumeApproval, Goto, storeVars
<1>1. token \in [Approvals -> Tokens]
  BY DEF GatewayTypeOK, Tokens
<1>2. /\ token' \in [Approvals -> Tokens]
      /\ \A i \in Approvals : /\ token'[i].status = token[i].status
                              /\ token'[i].action = token[i].action
                              /\ token'[i].claim = token[i].claim
  <2>0. UNCHANGED token \/ (MustClaim(q) /\ token' = [token EXCEPT ![tok[q]].consumed = TRUE])
    OBVIOUS
  <2> HIDE DEF ConsumeApproval
  <2>1. CASE UNCHANGED token
    BY <1>1, <2>1
  <2>2. CASE MustClaim(q) /\ token' = [token EXCEPT ![tok[q]].consumed = TRUE]
    <3> DEFINE u == [token[tok[q]] EXCEPT !.consumed = TRUE]
    <3>1. tok[q] \in Approvals
      BY <2>2 DEF GatewayTypeOK, MustClaim
    <3>2. /\ u \in Tokens /\ u.status = token[tok[q]].status /\ u.action = token[tok[q]].action
          /\ u.claim = token[tok[q]].claim
      BY <1>1, <3>1, TokenLemma
    <3>3. token' = [token EXCEPT ![tok[q]] = u]
      BY <2>2
    <3> HIDE DEF u
    <3> QED  BY <1>1, <3>1, <3>2, <3>3
  <2> QED  BY <2>0, <2>1, <2>2
<1>3. GatewayTypeOK'
  BY <1>2 DEF GatewayTypeOK, Tokens, PCs
<1>4. ASSUME NEW c \in Calls PROVE CallInv(c)'
  <2>1. CASE c # q
    BY <1>2, <2>1, OthersKeepInv DEF GatewayTypeOK
  <2>2. CASE c = q
    <3>1. PositionInv(c)' /\ EvidenceInv(c)' /\ KeyInv(c)'
      BY <2>2 DEF GatewayTypeOK, CallInv, PositionInv, EvidenceInv, KeyInv, HasKey, Heavy, Key,
           Open, Returned, EndState, Ambiguous, Early, Unfired, Refusals, Settled, Outside
    <3>2. ClaimInv(c)'
      BY <1>2, <2>2 DEF GatewayTypeOK, CallInv, ClaimInv, MustClaim, Heavy, Claiming
    <3> QED  BY <3>1, <3>2 DEF CallInv
  <2> QED  BY <2>1, <2>2
<1>5. ASSUME NEW i \in Approvals PROVE ApprovalInv(i)'
  BY <1>2 DEF ApprovalInv
<1>6. ASSUME NEW k \in Keys PROVE LedgerInv(k)'
  BY DEF LedgerInv, Key
<1> QED  BY <1>3, <1>4, <1>5, <1>6

\* A crash keeps every durable row and every claim on record.
LEMMA CrashKeepsInv ==
  ASSUME GatewayInv, Crash
  PROVE  GatewayInv'
<1> USE GatewayAssumption DEF GatewayInv, Crash, storeVars
<1>1. /\ pending' \in [Approvals -> Proposals] /\ token' \in [Approvals -> Tokens]
      /\ \A i \in Approvals : /\ pending'[i].status # "PENDING"
                              /\ token'[i].status = "NONE" <=> token[i].status = "NONE"
                              /\ token'[i].action = token[i].action
                              /\ token'[i].claim = token[i].claim
  <2>1. ASSUME NEW t \in Tokens
        PROVE  LET u == [t EXCEPT !.status = "GONE"] IN
               u \in Tokens /\ u.status = "GONE" /\ u.action = t.action /\ u.claim = t.claim
    BY DEF Tokens
  <2>2. \A i \in Approvals : pending[i] \in Proposals /\ token[i] \in Tokens
    BY DEF GatewayTypeOK, Proposals, Tokens
  <2> DEFINE lostP(i) == [pending[i] EXCEPT !.status = "GONE"]
             lostT(i) == [token[i] EXCEPT !.status = "GONE"]
  <2>3. \A i \in Approvals :
          /\ lostP(i) \in Proposals /\ lostP(i).status = "GONE"
          /\ lostT(i) \in Tokens /\ lostT(i).status = "GONE"
          /\ lostT(i).action = token[i].action /\ lostT(i).claim = token[i].claim
    BY <2>1, <2>2, ProposalLemma
  <2>4. /\ pending' = [i \in Approvals |-> IF pending[i].status = "NONE" THEN pending[i] ELSE lostP(i)]
        /\ token'   = [i \in Approvals |-> IF token[i].status = "NONE" THEN token[i] ELSE lostT(i)]
    OBVIOUS
  <2> HIDE DEF GatewayInv, Crash, lostP, lostT
  <2> QED  BY <2>2, <2>3, <2>4
<1>2. GatewayTypeOK'
  <2>1. pc' \in [Calls -> PCs]
    BY DEF GatewayTypeOK, PCs, Outside
  <2>2. crashes' \in Nat
    BY DEF GatewayTypeOK
  <2>3. up' \in BOOLEAN
    OBVIOUS
  <2>4. UNCHANGED <<act, tok, result, reply, invoked, intent, receipt, ledger, faults>>
    OBVIOUS
  <2> HIDE DEF Crash
  <2> QED  BY <1>1, <2>1, <2>2, <2>3, <2>4 DEF GatewayTypeOK, Tokens, Proposals
<1>3. ASSUME NEW c \in Calls PROVE CallInv(c)'
  <2>1. PositionInv(c)'
    BY DEF GatewayTypeOK, CallInv, PositionInv, Open, Returned, Early, Unfired, Outside
  <2>2. EvidenceInv(c)'
    BY DEF CallInv, EvidenceInv, Heavy
  <2>3. ClaimInv(c)'
    BY <1>1 DEF GatewayTypeOK, CallInv, ClaimInv, MustClaim, Heavy, Claiming, Outside
  <2>4. KeyInv(c)'
    BY DEF GatewayTypeOK, CallInv, KeyInv, HasKey, Key, Open, Outside
  <2> QED  BY <2>1, <2>2, <2>3, <2>4 DEF CallInv
<1>4. ASSUME NEW i \in Approvals PROVE ApprovalInv(i)'
  BY <1>1 DEF ApprovalInv
<1>5. ASSUME NEW k \in Keys PROVE LedgerInv(k)'
  BY DEF LedgerInv, Key
<1> QED  BY <1>2, <1>3, <1>4, <1>5

\* Reconciliation touches only intents of calls that are no longer running.
LEMMA RecoveryKeepsInv ==
  ASSUME GatewayInv, Recovery
  PROVE  GatewayInv'
<1> USE GatewayAssumption DEF GatewayInv, callVars, approvalVars, storeVars
<1>1. CASE Restart
  <2>1. GatewayTypeOK'
    BY <1>1 DEF Restart, GatewayTypeOK
  <2>2. ASSUME NEW c \in Calls PROVE CallInv(c)'
    BY <1>1 DEF Restart, CallInv, PositionInv, EvidenceInv, ClaimInv, KeyInv, HasKey, Heavy,
                Key,
         Open, Returned, EndState, Ambiguous, MustClaim
  <2>3. ASSUME NEW i \in Approvals PROVE ApprovalInv(i)'
    BY <1>1 DEF Restart, ApprovalInv
  <2>4. ASSUME NEW k \in Keys PROVE LedgerInv(k)'
    BY <1>1 DEF Restart, LedgerInv, Key
  <2> QED  BY <2>1, <2>2, <2>3, <2>4
<1>2. ASSUME NEW q \in Calls, ReconcileIntent(q) PROVE GatewayInv'
  <2> USE <1>2 DEF ReconcileIntent
  <2>1. GatewayTypeOK'
    BY DEF GatewayTypeOK, Stages, Settled
  <2>2. ASSUME NEW c \in Calls PROVE CallInv(c)'
    <3>1. CASE c # q
      BY <3>1, OthersKeepInv DEF GatewayTypeOK
    <3>2. CASE c = q
      BY <3>2 DEF GatewayTypeOK, CallInv, PositionInv, EvidenceInv, ClaimInv, KeyInv, HasKey,
                  Heavy,
           Key, Open, Returned, EndState, Ambiguous, MustClaim, Early, Unfired, Claiming,
           Refusals,
           Settled, Outside
    <3> QED  BY <3>1, <3>2
  <2>3. ASSUME NEW i \in Approvals PROVE ApprovalInv(i)'
    BY DEF ApprovalInv
  <2>4. ASSUME NEW k \in Keys PROVE LedgerInv(k)'
    BY DEF GatewayTypeOK, LedgerInv, Key, Settled
  <2> QED  BY <2>1, <2>2, <2>3, <2>4
<1> QED  BY <1>1, <1>2 DEF Recovery

LEMMA StepKeepsInv == GatewayInv /\ [Next]_vars => GatewayInv'
<1> SUFFICES ASSUME GatewayInv, [Next]_vars PROVE GatewayInv'
  OBVIOUS
<1>1. ASSUME NEW c \in Calls, Thread(c) PROVE GatewayInv'
  BY <1>1, PolicyKeepsInv, EvaluateKeepsInv, ClaimKeepsInv, ReserveKeepsInv,
     ReserveRefusedKeepsInv, PrepareKeepsInv, MarkKeepsInv, MarkLedgerKeepsInv, AbortKeepsInv,
     InvokeKeepsInv, ReturnKeepsInv, ConsumeKeepsInv, FinalizeKeepsInv, SettleKeepsInv
     DEF Thread
<1>2. ASSUME ListPending PROVE GatewayInv'
  <2>1. CASE Approvals # {}
    BY <1>2, <2>1, AuthorityKeepsInv
  <2>2. CASE Approvals = {}
    <3>1. GatewayTypeOK' /\ \A i \in Approvals : ApprovalInv(i)'
      BY <1>2, <2>2 DEF ListPending, GatewayInv, GatewayTypeOK, callVars, storeVars
    <3> QED  BY <1>2, <2>2, <3>1, AuthorityFrame DEF ListPending
  <2> QED  BY <2>1, <2>2
<1>3. CASE UNCHANGED vars
  BY <1>3 DEF vars, callVars, approvalVars, storeVars, GatewayInv, GatewayTypeOK, CallInv,
      PositionInv, EvidenceInv, ClaimInv, KeyInv, HasKey, Heavy, Key, Open, Returned, EndState,
      Ambiguous, MustClaim, ApprovalInv, LedgerInv
<1> QED  BY <1>1, <1>2, <1>3, SubmitKeepsInv, AuthorityKeepsInv, CrashKeepsInv, RecoveryKeepsInv
         DEF Next

-----------------------------------------------------------------------------
(* Theorems.                                                                *)

\* GatewayInv holds in every state execute, the policy engine, the stores and
\* a restart can produce.
THEOREM GatewayInvariance == Spec => []GatewayInv
BY InitInv, StepKeepsInv, PTL DEF Spec

\* The variables keep their types.
THEOREM GatewayTypeCorrect == Spec => []GatewayTypeOK
<1>1. GatewayInv => GatewayTypeOK
  BY DEF GatewayInv
<1> QED  BY <1>1, GatewayInvariance, PTL

\* One provider dispatch per idempotency key, over crashes and races.
THEOREM KeyTheorem == Spec => []KeyFiresOnce
<1>1. GatewayInv => KeyFiresOnce
  BY GatewayAssumption
     DEF GatewayInv, GatewayTypeOK, CallInv, EvidenceInv, KeyInv, KeyFiresOnce, Fired, Heavy,
         HasKey, Key
<1> QED  BY <1>1, GatewayInvariance, PTL

\* One provider dispatch per human approval.
THEOREM ApprovalTheorem == Spec => []ApprovalFiresOnce
<1>1. GatewayInv => ApprovalFiresOnce
  BY DEF GatewayInv, GatewayTypeOK, CallInv, EvidenceInv, ClaimInv, ApprovalFiresOnce, Fired,
         Heavy,
         MustClaim
<1> QED  BY <1>1, GatewayInvariance, PTL

\* Gated actions run only under an approval for exactly them.
THEOREM GatedTheorem == Spec => []GatedFiresApproved
<1>1. GatewayInv => GatedFiresApproved
  BY DEF GatewayInv, CallInv, ClaimInv, GatedFiresApproved, Fired, Heavy, MustClaim
<1> QED  BY <1>1, GatewayInvariance, PTL

\* NOT_DISPATCHED and CONFIRMED_FINALIZED assessments are true.
THEOREM AssessmentTheorem == Spec => [](NotDispatchedTruthful /\ ConfirmedIsDefinite)
<1>1. GatewayInv => NotDispatchedTruthful /\ ConfirmedIsDefinite
  BY DEF GatewayInv, CallInv, EvidenceInv, NotDispatchedTruthful, ConfirmedIsDefinite, Fired
<1> QED  BY <1>1, GatewayInvariance, PTL

\* A CONFIRMED_FINALIZED assessment stands for a definite provider answer.
THEOREM ConfirmedTheorem == Spec => []ConfirmedIsDefinite
<1>1. NotDispatchedTruthful /\ ConfirmedIsDefinite => ConfirmedIsDefinite
  OBVIOUS
<1> QED  BY <1>1, AssessmentTheorem, PTL

\* The ledger never contradicts the intents.
THEOREM LedgerTheorem == Spec => []LedgerAgrees
<1>1. GatewayInv => LedgerAgrees
  BY GatewayAssumption
     DEF GatewayInv, GatewayTypeOK, CallInv, KeyInv, LedgerInv, LedgerAgrees, Fired, Heavy,
         HasKey, Key, Settled
<1> QED  BY <1>1, GatewayInvariance, PTL

\* Callers are told the truth.
THEOREM ReplyTheorem == Spec => []ReplyTruthful
<1>1. GatewayInv => ReplyTruthful
  BY DEF GatewayInv, CallInv, EvidenceInv, ReplyTruthful
<1> QED  BY <1>1, GatewayInvariance, PTL

\* Settled evidence is never rewritten.
THEOREM EvidenceTheorem == Spec => EvidenceImmutable
<1> DEFINE Kept(c) == intent[c] \in Settled => intent'[c] = intent[c] /\ receipt'[c] = receipt[c]
           Held(k) == /\ ledger[k].state # "NONE" => ledger'[k].owner = ledger[k].owner
                      /\ ledger[k].state \in Settled => ledger'[k] = ledger[k]
                      /\ ledger[k].state = "DISPATCHING" => ledger'[k].state # "RESERVED"
           Fixed   == (\A c \in Calls : Kept(c)) /\ (\A k \in Keys : Held(k))
<1>1. ASSUME GatewayInv, Next PROVE Fixed
  <2> USE <1>1
  <2>1. CASE UNCHANGED storeVars
    BY <2>1 DEF storeVars, Settled
  <2>2. ASSUME NEW q \in Calls, Reserve(q) PROVE Fixed
    BY <2>2 DEF Reserve, GatewayInv, GatewayTypeOK, Settled
  <2>3. ASSUME NEW q \in Calls, PrepareIntent(q) \/ MarkDispatching(q) PROVE Fixed
    BY <2>3 DEF PrepareIntent, MarkDispatching, GatewayInv, GatewayTypeOK, CallInv, PositionInv,
                Early, Settled
  <2>4. ASSUME NEW q \in Calls, AbortDispatch(q) PROVE Fixed
    BY <2>4 DEF AbortDispatch, GatewayInv, GatewayTypeOK, CallInv, PositionInv, Settled
  <2>5. ASSUME NEW q \in Calls, FinalizeIntent(q) PROVE Fixed
    BY <2>5 DEF FinalizeIntent, GatewayInv, GatewayTypeOK, CallInv, PositionInv, Open, Settled
  <2>6. ASSUME NEW q \in Calls, MarkLedger(q) PROVE Fixed
    BY <2>6, GatewayAssumption DEF MarkLedger, GatewayInv, GatewayTypeOK, CallInv, PositionInv,
                KeyInv, HasKey, Key, Settled
  <2>7. ASSUME NEW q \in Calls, SettleLedger(q) PROVE Fixed
    <3>1. UNCHANGED <<intent, receipt>> /\ pc[q] = "settle"
      BY <2>7 DEF SettleLedger
    <3>2. EndState(q) # "RESERVED"
      BY DEF EndState
    <3>3. HasKey(q) => ledger[Key(q)].state = "DISPATCHING"
      <4>1. act[q] \in Actions
        BY <3>1 DEF GatewayInv, GatewayTypeOK, CallInv, PositionInv
      <4> QED  BY <3>1, <4>1 DEF GatewayInv, CallInv, KeyInv
    <3>4. ASSUME NEW k \in Keys PROVE Held(k)
      <4>1. ledger \in [Keys -> [state : Stages, owner : Calls \union {NoCall}]]
        BY DEF GatewayInv, GatewayTypeOK
      <4>2. CASE ledger' = ledger
        BY <4>1, <4>2 DEF Settled
      <4>3. CASE ledger' = [ledger EXCEPT ![Key(q)].state = EndState(q)]
        <5>1. CASE k # Key(q)
          BY <4>1, <4>3, <5>1 DEF Settled
        <5>2. CASE k = Key(q)
          <6>1. ledger[k].state = "DISPATCHING"
            BY <3>3, <5>2, GatewayAssumption DEF HasKey
          <6>2. ledger'[k] = [ledger[k] EXCEPT !.state = EndState(q)]
            BY <4>1, <4>3, <5>2
          <6> QED  BY <3>2, <4>1, <6>1, <6>2 DEF Settled
        <5> QED  BY <5>1, <5>2
      <4> QED  BY <2>7, <4>2, <4>3 DEF SettleLedger
    <3> QED  BY <3>1, <3>4
  <2>8. ASSUME NEW q \in Calls, ReconcileIntent(q) PROVE Fixed
    BY <2>8 DEF ReconcileIntent, GatewayInv, GatewayTypeOK, Settled
  <2> HIDE DEF Fixed
  <2>9. ASSUME NEW q \in Calls, Thread(q) PROVE Fixed
    BY <2>1, <2>2, <2>3, <2>4, <2>5, <2>6, <2>7, <2>9
       DEF Thread, GateDenies, CapabilityDenies, BrainDenies, Denied, ProposeApproval,
           EvaluateRefuses, EvaluateAllows, AdapterMissing,
           ClaimApproval, ClaimFails, ReserveRefused, Invoke, AdapterReturns, ConsumeApproval
  <2>10. ASSUME NEW i \in Approvals, Authority(i) PROVE Fixed
    BY <2>1, <2>10 DEF Authority, ApprovePending, ApproveTooLate, RejectPending, IssueApproval,
                      RevokeApproval, PendingDeadline, TokenDeadline
  <2> QED  BY <2>1, <2>8, <2>9, <2>10 DEF Next, Submit, ListPending, Crash, Recovery, Restart
<1>2. GatewayInv /\ [Next]_vars => [Fixed]_vars
  BY <1>1
<1> QED  BY <1>2, GatewayInvariance, PTL DEF Spec, EvidenceImmutable

-----------------------------------------------------------------------------
(* Refinement of GovernedEffects.                                           *)

\* A step that leaves requests, adapter entries, grants and claims alone.
Quiet ==
  /\ UNCHANGED <<act, tok, invoked>>
  /\ \A i \in Approvals : /\ token'[i].action = token[i].action
                          /\ token'[i].claim = token[i].claim

\* The steps that are not quiet.
Loud ==
  \/ \E c \in Calls, a \in Actions, t \in Approvals \union {NoToken} : Submit(c, a, t)
  \/ \E i \in Approvals : ApprovePending(i) \/ \E a \in Actions : IssueApproval(i, a)
  \/ \E c \in Calls : ClaimApproval(c) \/ Invoke(c)

LEMMA QuietLemma == GatewayInv /\ [Next]_vars => Quiet \/ Loud
<1> SUFFICES ASSUME GatewayInv, [Next]_vars, ~Loud PROVE Quiet
  OBVIOUS
<1> USE DEF GatewayInv, GatewayTypeOK
<1>1. CASE UNCHANGED <<act, tok, invoked, token>>
  BY <1>1 DEF Quiet
<1>2. ASSUME NEW c \in Calls, Thread(c) PROVE Quiet
  <2>1. CASE ConsumeApproval(c)
    BY <2>1 DEF ConsumeApproval, Quiet
  <2>2. CASE ~ConsumeApproval(c)
    BY <1>1, <1>2, <2>2
       DEF Loud, Thread, GateDenies, CapabilityDenies, BrainDenies, Denied, ProposeApproval,
           EvaluateRefuses, EvaluateAllows,
           AdapterMissing, ClaimFails, Reserve, ReserveRefused, PrepareIntent, MarkDispatching,
           MarkLedger, AbortDispatch, AdapterReturns, FinalizeIntent, SettleLedger, approvalVars
  <2> QED  BY <2>1, <2>2
<1>3. ASSUME NEW i \in Approvals, Authority(i) PROVE Quiet
  <2>1. CASE RevokeApproval(i)
    BY <2>1 DEF RevokeApproval, Quiet, callVars
  <2>2. CASE TokenDeadline(i)
    BY <2>2 DEF TokenDeadline, Quiet, callVars
  <2>3. CASE ApproveTooLate(i) \/ RejectPending(i) \/ PendingDeadline(i)
    BY <1>1, <2>3 DEF ApproveTooLate, RejectPending, PendingDeadline, callVars
  <2> QED  BY <1>3, <2>1, <2>2, <2>3 DEF Authority, Loud
<1>4. CASE Crash
  BY <1>4 DEF Crash, Quiet
<1>5. CASE ListPending \/ Recovery \/ UNCHANGED vars
  BY <1>1, <1>5 DEF ListPending, Recovery, ReconcileIntent, Restart, vars, callVars,
                    approvalVars
<1> QED  BY <1>2, <1>3, <1>4, <1>5 DEF Next, Loud

\* execute, the policy engine and the stores implement the abstract promise:
\* one effect per call, approval and key, and none without its approval.
THEOREM EffectsTheorem == Spec => ImplementsGovernedEffects
<1> DEFINE grant  == [i \in Approvals |-> token[i].action]
           holder == [i \in Approvals |-> token[i].claim]
           abs    == <<act, tok, grant, holder, Fired>>
<1>1. Init => Effects!Init
  BY DEF Init, Effects!Init, Token, Fired
<1>2. GatewayInv /\ [Next]_vars => [Effects!Next]_abs
  <2> SUFFICES ASSUME GatewayInv, [Next]_vars PROVE Effects!Next \/ abs' = abs
    OBVIOUS
  <2> USE GatewayAssumption DEF GatewayInv, GatewayTypeOK
  <2>1. CASE Quiet
    <3>1. Fired' = Fired
      BY <2>1 DEF Quiet, Fired, Heavy
    <3>2. grant' = grant /\ holder' = holder
      BY <2>1 DEF Quiet
    <3> QED  BY <2>1, <3>1, <3>2 DEF Quiet
  <2>2. ASSUME NEW c \in Calls, NEW a \in Actions, NEW t \in Approvals \union {NoToken},
               Submit(c, a, t)
        PROVE  Effects!Next
    <3>1. act[c] = NoAction /\ invoked[c] = 0
      BY <2>2 DEF Submit, CallInv, PositionInv, Unfired, Early
    <3>2. Fired' = Fired
      BY <2>2, <3>1 DEF Submit, Fired, Heavy
    <3>3. grant' = grant /\ holder' = holder
      BY <2>2 DEF Submit, approvalVars
    <3>4. Effects!Ask(c, a, t)
      BY <2>2, <3>1, <3>2, <3>3 DEF Submit, Effects!Ask
    <3> QED  BY <3>4 DEF Effects!Next
  <2>3. ASSUME NEW i \in Approvals, NEW a \in Actions, token[i].status = "NONE",
               token' = [token EXCEPT ![i] = Token("LIVE", a)], UNCHANGED callVars
        PROVE  Effects!Next
    <3>1. token[i].action = NoAction /\ token[i].claim = NoCall
      BY <2>3 DEF ApprovalInv
    <3>2. Fired' = Fired
      BY <2>3 DEF callVars, Fired, Heavy
    <3>3. grant' = [grant EXCEPT ![i] = a] /\ holder' = holder
      BY <2>3, <3>1 DEF Token
    <3>4. Effects!Grant(i, a)
      BY <2>3, <3>1, <3>2, <3>3 DEF callVars, Effects!Grant
    <3> QED  BY <3>4 DEF Effects!Next
  <2>4. ASSUME NEW c \in Calls, ClaimApproval(c) PROVE Effects!Next \/ abs' = abs
    <3>1. Fired' = Fired /\ UNCHANGED <<act, tok>>
      BY <2>4 DEF ClaimApproval, Fired, Heavy
    <3>2. CASE ~MustClaim(c)
      BY <2>4, <3>1, <3>2 DEF ClaimApproval
    <3>3. CASE MustClaim(c)
      <4>1. PICK i \in Approvals : /\ tok[c] = i /\ Claimable(i)
                                   /\ token' = [token EXCEPT ![i].claim = c]
        BY <2>4, <3>3 DEF ClaimApproval, MustClaim
      <4>a. \A j \in Approvals : token'[j].action = token[j].action
                                 /\ token'[j].claim = IF j = i THEN c ELSE token[j].claim
        BY <4>1 DEF GatewayTypeOK, Tokens
      <4>2. grant' = grant /\ holder' = [holder EXCEPT ![i] = c]
        <5>1. grant' = grant
          BY <4>a
        <5>2. holder' = [j \in Approvals |-> IF j = i THEN c ELSE token[j].claim]
          BY <4>a
        <5>3. [holder EXCEPT ![i] = c] = [j \in Approvals |-> IF j = i THEN c ELSE token[j].claim]
          OBVIOUS
        <5> QED  BY <5>1, <5>2, <5>3
      <4>3. holder[i] = NoCall /\ grant[i] # NoAction
        BY <4>1 DEF Claimable, ApprovalInv
      <4>4. Effects!Spend(c, i)
        BY <3>1, <4>1, <4>2, <4>3 DEF Effects!Spend
      <4> QED  BY <4>4 DEF Effects!Next
    <3> QED  BY <3>2, <3>3
  <2>5. ASSUME NEW c \in Calls, Invoke(c) PROVE Effects!Next \/ abs' = abs
    <3>1. /\ pc[c] = "invoke" /\ invoked' = [invoked EXCEPT ![c] = @ + 1]
          /\ UNCHANGED <<act, tok, token>>
      BY <2>5 DEF Invoke, approvalVars
    <3>2. CASE ~Heavy(c)
      <4>1. Fired' = Fired
        BY <3>1, <3>2 DEF Fired, Heavy
      <4> QED  BY <3>1, <4>1
    <3>3. CASE Heavy(c)
      <4>1. invoked[c] = 0 /\ Fired' = Fired \union {c}
        BY <3>1, <3>3 DEF CallInv, PositionInv, Fired, Heavy
      <4>2. c \notin Fired
        BY <4>1 DEF Fired
      <4>3. act[c] \in Gated => tok[c] \in Approvals /\ grant[tok[c]] = act[c]
        BY <3>1 DEF CallInv, ClaimInv, Claiming
      <4>4. tok[c] \in Approvals => holder[tok[c]] = c
        BY <3>1, <3>3 DEF CallInv, ClaimInv, MustClaim, Claiming
      <4>5. ASSUME NEW d \in Fired, KeyOf[act[c]] # NoKey PROVE KeyOf[act[d]] # KeyOf[act[c]]
        <5>1. act[c] \in Actions /\ ledger[Key(c)].owner = c
          BY <3>1, <3>3, <4>5 DEF CallInv, KeyInv, Open, HasKey, Key, Heavy
        <5>2. HasKey(d) => ledger[Key(d)].owner = d
          BY DEF Fired, CallInv, KeyInv, Heavy
        <5> QED  BY <4>2, <4>5, <5>1, <5>2 DEF HasKey, Key, Fired
      <4>6. Effects!Fire(c)
        BY <3>1, <3>3, <4>1, <4>2, <4>3, <4>4, <4>5 DEF Effects!Fire, Heavy
      <4> QED  BY <4>6 DEF Effects!Next
    <3> QED  BY <3>2, <3>3
  <2>6. ASSUME NEW i \in Approvals, ApprovePending(i) PROVE Effects!Next
    <3>1. token[i].status = "NONE" /\ pending[i].action \in Actions
      BY <2>6 DEF ApprovePending, ApprovalInv
    <3> QED  BY <2>3, <2>6, <3>1 DEF ApprovePending
  <2>7. ASSUME NEW i \in Approvals, NEW a \in Actions, IssueApproval(i, a) PROVE Effects!Next
    BY <2>3, <2>7 DEF IssueApproval, Fresh
  <2> HIDE DEF abs
  <2> QED  BY <2>1, <2>2, <2>4, <2>5, <2>6, <2>7, QuietLemma DEF Loud
<1> QED  BY <1>1, <1>2, GatewayInvariance, PTL
         DEF Spec, ImplementsGovernedEffects, Effects!Spec, Effects!absVars
=============================================================================
