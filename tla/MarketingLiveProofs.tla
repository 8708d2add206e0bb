------------------------- MODULE MarketingLiveProofs -------------------------
(***************************************************************************)
(* TLAPS proofs about MarketingLive, for any posts, polls, consents, store   *)
(* faults and restarts.  LiveInv is the inductive invariant.                 *)
(***************************************************************************)
EXTENDS MarketingLive, TLAPS

Before == {"idle", "prepared", "claim", "check", "send"}
Holding == {"check", "send", "settle", "track"}

\* The call has claimed its consent: it may still post, or has.
Holds(c) == toolCall[c].pc \in Holding \/ Posted(c)

\* What a publishing call's position says of its consent and of the provider.
PostInv(c) ==
  /\ toolCall[c].pc \in Before => ~Posted(c)
  /\ toolCall[c].pc \in {"prepared", "claim"} \union Holding => toolCall[c].consent \in Preflights
  /\ toolCall[c].pc \notin {"find", "fetch", "validate", "record"}
  /\ toolCall[c].pc = "settle" =>
       /\ toolCall[c].answer = "refused" => ~Posted(c)
       /\ toolCall[c].answer = "accepted" => Posted(c)
       /\ toolCall[c].answer \in {"refused", "accepted", "broken"}
  /\ toolCall[c].pc = "track" => Posted(c)
  /\ toolCall[c].pc # "done" => operation[c].state = "NONE" /\ toolCall[c].reply = "none"
  /\ operation[c].state # "NONE" => Posted(c)
  /\ toolCall[c].reply = "failed" => ~Posted(c)
  /\ toolCall[c].reply = "success" => operation[c].state # "NONE"

Spent(p) == consent[p].state \in {"CLAIMED", "CONSUMED"}

\* A consent that was claimed stays spent, and one call holds it.
ConsentInv(c) ==
  Holds(c) =>
    /\ toolCall[c].consent \in Preflights /\ Spent(toolCall[c].consent)
    /\ \A d \in Posts : Holds(d) /\ toolCall[d].consent = toolCall[c].consent => d = c

\* A poll asks about a tracked post only; what it is about to write over the
\* record it has seen is a step the record's state allows.
PollInv(c) ==
  LET k == toolCall[c]
      op == operation[k.post]
  IN /\ k.pc \in {"prepared", "find", "fetch", "validate", "record"} => k.post \in Posts
     /\ k.pc \in {"fetch", "validate", "record"} => op.state # "NONE"
     /\ k.pc \in {"validate", "record"} => k.answer \in {"PROCESSING", "UNKNOWN"} \union Terminal
     /\ k.pc = "record" =>
          /\ k.seen <= op.version
          /\ op.version = k.seen /\ op.state \in Terminal => k.answer = op.state

\* An enable or disable that is under way has its change reserved.
AdminInv == admin.op # "none" => admin.changes < MaxAdmin

LiveInv ==
  /\ LiveTypeOK /\ AdminInv
  /\ \A c \in Posts : PostInv(c) /\ ConsentInv(c)
  /\ \A c \in Polls : PollInv(c)

----------------------------------------------------------------------------
(* What a step leaves alone *)

LEMMA LiveInitially == MarketingAssumption /\ LiveInit => LiveInv
<1> SUFFICES ASSUME MarketingAssumption, LiveInit PROVE LiveInv OBVIOUS
<1>1. LiveTypeOK /\ AdminInv
  BY DEF MarketingAssumption, LiveInit, LiveTypeOK, AdminInv, Installed, Consents, Operations,
         Untracked, LiveCalls, NoTool, Terminal
<1>2. ASSUME NEW c \in Posts PROVE PostInv(c) /\ ConsentInv(c)
  BY <1>2 DEF LiveInit, NoTool, Untracked, PostInv, ConsentInv, Holds, Holding, Posted, Before
<1>3. ASSUME NEW c \in Polls PROVE PollInv(c)
  BY <1>3 DEF LiveInit, NoTool, PollInv
<1> QED BY <1>1, <1>2, <1>3 DEF LiveInv

\* A poll is undisturbed by a step that leaves it and the tracked posts alone.
LEMMA PollKept ==
  ASSUME LiveInv, NEW c \in Polls, toolCall'[c] = toolCall[c],
         \A d \in Posts : operation[d].state # "NONE" => operation'[d] = operation[d]
  PROVE  PollInv(c)'
BY DEF LiveInv, PollInv, Terminal

\* A call that claims nothing keeps its claim if it has one.
LEMMA ClaimKept ==
  ASSUME LiveInv, NEW q \in Posts,
         \A c \in Posts \ {q} : toolCall'[c] = toolCall[c] /\ provider'[c] = provider[c],
         \A p \in Preflights : Spent(p) => Spent(p)',
         Holds(q)' => Holds(q) /\ toolCall'[q].consent = toolCall[q].consent
  PROVE  ConsentInv(q)'
<1>1. ASSUME NEW d \in Posts, d # q PROVE Holds(d)' <=> Holds(d)
  BY <1>1 DEF Holds, Posted
<1> QED BY <1>1 DEF LiveInv, ConsentInv

\* It is enough to look at the call that takes the step, and at the polls.
LEMMA StepOf ==
  ASSUME LiveInv, NEW q \in Posts \union Polls, LiveTypeOK', AdminInv',
         \A c \in (Posts \union Polls) \ {q} : toolCall'[c] = toolCall[c],
         \A c \in Posts \ {q} :
           /\ provider'[c] = provider[c]
           /\ operation'[c].state = "NONE" <=> operation[c].state = "NONE",
         \A p \in Preflights : Spent(p) => Spent(p)',
         q \in Posts => PostInv(q)' /\ ConsentInv(q)',
         \A c \in Polls : PollInv(c)'
  PROVE  LiveInv'
<1>1. ASSUME NEW c \in Posts, c # q PROVE PostInv(c)' /\ (Holds(c)' <=> Holds(c))
  BY <1>1 DEF LiveInv, PostInv, Holds, Posted
<1>2. ASSUME NEW c \in Posts, c # q PROVE ConsentInv(c)'
  <2> SUFFICES ASSUME Holds(c)' PROVE ConsentInv(c)' BY DEF ConsentInv
  <2>1. /\ toolCall'[c] = toolCall[c] /\ toolCall[c].consent \in Preflights
        /\ Spent(toolCall[c].consent)
        /\ \A d \in Posts : Holds(d) /\ toolCall[d].consent = toolCall[c].consent => d = c
    BY <1>1, <1>2 DEF LiveInv, ConsentInv
  <2>2. ASSUME NEW d \in Posts, Holds(d)', toolCall'[d].consent = toolCall'[c].consent PROVE d = c
    <3>1. CASE d = q
      BY <1>2, <2>2, <3>1 DEF ConsentInv
    <3>2. CASE d # q
      BY <1>1, <2>1, <2>2, <3>2
    <3> QED BY <3>1, <3>2
  <2> QED BY <2>1, <2>2 DEF ConsentInv
<1> QED BY <1>1, <1>2 DEF LiveInv

\* No call takes a step.
LEMMA QuietStep ==
  ASSUME LiveInv, LiveTypeOK', AdminInv', UNCHANGED <<operation, toolCall>>,
         \A c \in Posts : Posted(c)' <=> Posted(c),
         \A p \in Preflights : Spent(p) => Spent(p)'
  PROVE  LiveInv'
<1>1. ASSUME NEW c \in Posts PROVE PostInv(c)' /\ (Holds(c)' <=> Holds(c))
  BY <1>1 DEF LiveInv, PostInv, Holds
<1>2. ASSUME NEW c \in Posts PROVE ConsentInv(c)'
  BY <1>1, <1>2 DEF LiveInv, ConsentInv
<1>3. ASSUME NEW c \in Polls PROVE PollInv(c)'
  BY <1>3 DEF LiveInv, PollInv
<1> QED BY <1>1, <1>2, <1>3 DEF LiveInv

----------------------------------------------------------------------------
(* Accounts, wiring, consents and the provider *)

Administration ==
  \/ RegisterConnection \/ RemoveConnection \/ SwitchRead("enable") \/ SwitchRead("disable")
  \/ SwitchWrite \/ Bind \/ Unbind \/ RegisterSpec("LIVE") \/ RegisterSpec("CONTRACT_ONLY")
  \/ SetExecutor(TRUE) \/ SetExecutor(FALSE) \/ SyncMarketing

LEMMA AdministrationStep == MarketingAssumption /\ LiveInv /\ Administration => LiveInv'
<1> SUFFICES ASSUME MarketingAssumption, LiveInv, Administration PROVE LiveInv' OBVIOUS
<1>1. LiveTypeOK /\ AdminInv BY DEF LiveInv
<1>2. UNCHANGED <<consent, provider, operation, toolCall, troubles>>
  BY DEF Administration, RegisterConnection, RemoveConnection, SwitchRead, SwitchWrite, Bind, Unbind,
         RegisterSpec, SetExecutor, SyncMarketing, Elsewhere
<1>3. /\ connection' \in {"none", "on", "off"}
      /\ wiring' \in [bound : BOOLEAN, spec : {"LIVE", "CONTRACT_ONLY"}, executor : BOOLEAN,
                      route : BOOLEAN]
  BY <1>1 DEF LiveTypeOK, Administration, RegisterConnection, RemoveConnection, SwitchRead,
              SwitchWrite, Bind, Unbind, RegisterSpec, SetExecutor, SyncMarketing
<1>4. /\ admin' \in [op : {"none", "enable", "disable"}, seen : {"none", "on", "off"},
                     changes : 0 .. MaxAdmin]
      /\ AdminInv'
  <2>1. CASE Change /\ Changed
    BY <1>1, <2>1 DEF MarketingAssumption, LiveTypeOK, AdminInv, Change, Changed
  <2>2. CASE SwitchRead("enable") \/ SwitchRead("disable")
    BY <1>1, <2>2 DEF MarketingAssumption, LiveTypeOK, AdminInv, SwitchRead, Change
  <2>3. CASE SwitchWrite
    <3>1. admin.changes \in 0 .. MaxAdmin /\ admin.changes < MaxAdmin /\ MaxAdmin \in Nat
      BY <1>1, <2>3 DEF MarketingAssumption, LiveTypeOK, AdminInv, SwitchWrite
    <3>2. admin.changes + 1 \in 0 .. MaxAdmin BY <3>1
    <3>3. admin' = [op |-> "none", seen |-> "none", changes |-> admin.changes + 1]
      BY <1>1, <2>3 DEF LiveTypeOK, SwitchWrite
    <3> QED BY <3>2, <3>3 DEF AdminInv
  <2>4. CASE UNCHANGED admin
    BY <1>1, <2>4 DEF LiveTypeOK, AdminInv
  <2> QED
    BY <2>1, <2>2, <2>3, <2>4 DEF Administration, RegisterConnection, RemoveConnection, Bind, Unbind,
       RegisterSpec, SetExecutor, SyncMarketing
<1>5. LiveTypeOK' BY <1>1, <1>2, <1>3, <1>4 DEF LiveTypeOK
<1> QED BY <1>2, <1>4, <1>5, QuietStep DEF Posted, Spent

LEMMA ConsentStep ==
  ASSUME LiveInv, NEW p \in Preflights,
         RevokeConsent(p) \/ \E valid \in BOOLEAN : CreateConsent(p, valid)
  PROVE  LiveInv'
<1>1. LiveTypeOK' /\ AdminInv'
  BY DEF LiveInv, LiveTypeOK, AdminInv, RevokeConsent, CreateConsent, Consents
<1>2. ASSUME NEW r \in Preflights, Spent(r) PROVE Spent(r)'
  BY <1>2 DEF LiveInv, LiveTypeOK, RevokeConsent, CreateConsent, Spent, Consents
<1>3. UNCHANGED <<operation, toolCall, provider>> BY DEF RevokeConsent, CreateConsent
<1> QED BY <1>1, <1>2, <1>3, QuietStep DEF Posted

LEMMA ProviderStep ==
  ASSUME LiveInv, NEW q \in Posts, NEW result \in Terminal, ProviderFinishes(q, result)
  PROVE  LiveInv'
<1>1. LiveTypeOK' /\ AdminInv'
  BY DEF LiveInv, LiveTypeOK, AdminInv, ProviderFinishes, Terminal
<1>2. ASSUME NEW c \in Posts PROVE Posted(c)' <=> Posted(c)
  BY <1>2 DEF LiveInv, LiveTypeOK, ProviderFinishes, Posted, Terminal
<1>3. UNCHANGED <<operation, toolCall, consent>> BY DEF ProviderFinishes
<1> QED BY <1>1, <1>2, <1>3, QuietStep DEF Spent

----------------------------------------------------------------------------
(* The steps of a call *)

CallTypeOK == toolCall \in [Posts \union Polls -> LiveCalls]
OthersStay(q) == \A c \in (Posts \union Polls) \ {q} : toolCall'[c] = toolCall[c]

LEMMA ProceedsCall ==
  ASSUME CallTypeOK, NEW q \in Posts \union Polls, NEW pc, Proceeds(q, pc),
         [toolCall[q] EXCEPT !.pc = pc] \in LiveCalls
  PROVE  /\ CallTypeOK' /\ OthersStay(q)
         /\ toolCall'[q] = [toolCall[q] EXCEPT !.pc = pc]
BY DEF CallTypeOK, OthersStay, Proceeds, Next_

LEMMA EndsCall ==
  ASSUME CallTypeOK, NEW q \in Posts \union Polls,
         NEW reply \in {"none", "failed", "uncertain", "success", "lost"}, Ends(q, reply)
  PROVE  /\ CallTypeOK' /\ OthersStay(q)
         /\ toolCall'[q].pc = "done" /\ toolCall'[q].reply = reply
         /\ toolCall'[q].consent = toolCall[q].consent
<1>1. PICK k : k = [NoTool EXCEPT !.pc = "done", !.reply = reply, !.consent = toolCall[q].consent]
  OBVIOUS
<1>2. k.pc = "done" /\ k.reply = reply /\ k.consent = toolCall[q].consent
  BY <1>1 DEF NoTool
<1>3. toolCall[q].consent \in Preflights \union {"NONE"} BY DEF CallTypeOK, LiveCalls
<1>4. k \in LiveCalls BY <1>1, <1>3 DEF NoTool, LiveCalls
<1>5. toolCall' = [toolCall EXCEPT ![q] = k] BY <1>1 DEF Ends, Next_
<1> QED BY <1>2, <1>4, <1>5 DEF CallTypeOK, OthersStay

\* What is to be checked when a call ends.
LEMMA EndStep ==
  ASSUME MarketingAssumption, LiveInv, NEW q \in Posts \union Polls,
         NEW reply \in {"none", "failed", "uncertain", "success", "lost"}, Ends(q, reply),
         UNCHANGED <<connection, admin, wiring, provider>>,
         consent' \in [Preflights -> Consents], operation' \in [Posts -> Operations],
         \A p \in Preflights : Spent(p) => Spent(p)',
         \A c \in Posts \ {q} : operation'[c].state = "NONE" <=> operation[c].state = "NONE",
         q \in Posts =>
           /\ Posted(q) => Holds(q)
           /\ operation'[q].state # "NONE" => Posted(q)
           /\ reply = "failed" => ~Posted(q)
           /\ reply = "success" => operation'[q].state # "NONE",
         \A c \in Polls \ {q} : PollInv(c)'
  PROVE  LiveInv'
<1>1. CallTypeOK BY DEF LiveInv, LiveTypeOK, CallTypeOK
<1>2. /\ CallTypeOK' /\ OthersStay(q)
      /\ toolCall'[q].pc = "done" /\ toolCall'[q].reply = reply
      /\ toolCall'[q].consent = toolCall[q].consent
  BY <1>1, EndsCall
<1>3. LiveTypeOK' /\ AdminInv'
  BY <1>2 DEF LiveInv, LiveTypeOK, AdminInv, CallTypeOK
<1>4. q \in Posts => PostInv(q)'
  BY <1>2 DEF PostInv, Posted, Before, Holding
<1>5. q \in Posts => ConsentInv(q)'
  BY <1>2, ClaimKept DEF Holds, Holding, Posted, OthersStay
<1>6. ASSUME NEW c \in Polls PROVE PollInv(c)'
  BY <1>2, <1>6 DEF PollInv
<1> QED BY <1>2, <1>3, <1>4, <1>5, <1>6, StepOf DEF OthersStay, Posted

\* What is to be checked when a call goes on.
LEMMA GoOnStep ==
  ASSUME MarketingAssumption, LiveInv, NEW q \in Posts \union Polls, NEW k \in LiveCalls,
         Next_(q, k), UNCHANGED <<connection, admin, wiring, operation>>,
         consent' \in [Preflights -> Consents],
         provider' \in [Posts -> {"NONE", "PROCESSING"} \union Terminal],
         \A p \in Preflights : Spent(p) => Spent(p)',
         \A c \in Posts \ {q} : provider'[c] = provider[c],
         q \in Posts /\ toolCall'[q] = k => PostInv(q)' /\ ConsentInv(q)',
         q \in Polls /\ toolCall'[q] = k => PollInv(q)'
  PROVE  LiveInv'
<1>1. CallTypeOK' /\ OthersStay(q) /\ toolCall'[q] = k
  BY DEF LiveInv, LiveTypeOK, CallTypeOK, OthersStay, Next_
<1>2. LiveTypeOK' /\ AdminInv'
  BY <1>1 DEF LiveInv, LiveTypeOK, AdminInv, CallTypeOK
<1>3. ASSUME NEW c \in Polls PROVE PollInv(c)'
  <2>1. CASE c = q BY <1>1, <2>1
  <2>2. CASE c # q BY <1>1, <2>2, PollKept DEF OthersStay
  <2> QED BY <2>1, <2>2
<1> QED BY <1>1, <1>2, <1>3, StepOf DEF OthersStay

\* A call that fails, or ends unsure, without having touched anything.
LEMMA FailStep ==
  ASSUME MarketingAssumption, LiveInv, NEW q \in Posts \union Polls,
         NEW reply \in {"failed", "uncertain"}, Ends(q, reply),
         UNCHANGED <<connection, admin, wiring, consent, provider, operation>>,
         q \in Posts => toolCall[q].pc # "done",
         q \in Posts /\ reply = "failed" => ~Posted(q)
  PROVE  LiveInv'
<1>1. OthersStay(q) BY EndsCall DEF LiveInv, LiveTypeOK, CallTypeOK
<1>2. ASSUME NEW c \in Polls \ {q} PROVE PollInv(c)'
  BY <1>1, <1>2, PollKept DEF OthersStay
<1>3. q \in Posts =>
        /\ Posted(q) => Holds(q)
        /\ operation'[q].state # "NONE" => Posted(q)
  BY DEF LiveInv, PostInv, Holds
<1>4. consent' \in [Preflights -> Consents] /\ operation' \in [Posts -> Operations]
  BY DEF LiveInv, LiveTypeOK
<1>5. \A p \in Preflights : Spent(p) => Spent(p)' BY DEF Spent
<1>6. reply # "success" /\ reply \in {"none", "failed", "uncertain", "success", "lost"} OBVIOUS
<1> QED BY <1>2, <1>3, <1>4, <1>5, <1>6, EndStep

LEMMA EnterAdapterStep ==
  ASSUME MarketingAssumption, LiveInv, NEW q \in Posts \union Polls,
         NEW p \in Preflights \union {"NONE"}, NEW d \in Posts, EnterAdapter(q, p, d),
         q \in Posts => p \in Preflights
  PROVE  LiveInv'
<1>1. CASE Ends(q, "failed")
  BY <1>1, FailStep DEF EnterAdapter, OnlyCalls, Mid, LiveInv, PostInv, Before
<1>2. CASE Next_(q, [toolCall[q] EXCEPT !.pc = "prepared", !.consent = p, !.post = d])
  <2>1. PICK k : k = [toolCall[q] EXCEPT !.pc = "prepared", !.consent = p, !.post = d] OBVIOUS
  <2>0. toolCall[q] \in LiveCalls /\ d \in Posts \union {"NONE"} BY DEF LiveInv, LiveTypeOK
  <2>2. /\ k \in LiveCalls /\ k.pc = "prepared" /\ k.consent = p /\ k.post = d
        /\ k.reply = toolCall[q].reply
    <3>1. k.pc = "prepared" /\ k.consent = p /\ k.post = d /\ k.reply = toolCall[q].reply
      BY <2>0, <2>1 DEF LiveCalls
    <3>2. k = [pc |-> "prepared", consent |-> p, post |-> d, answer |-> toolCall[q].answer,
               seen |-> toolCall[q].seen, reply |-> toolCall[q].reply]
      BY <2>0, <2>1 DEF LiveCalls
    <3>3. k \in LiveCalls BY <2>0, <3>2 DEF LiveCalls
    <3> QED BY <3>1, <3>3
  <2>3. ASSUME q \in Posts, toolCall'[q] = k PROVE PostInv(q)' /\ ConsentInv(q)'
    BY <2>2, <2>3 DEF LiveInv, EnterAdapter, OnlyCalls, Mid, PostInv, ConsentInv, Holds, Posted,
                      Before, Holding
  <2>4. q \in Polls /\ toolCall'[q] = k => PollInv(q)' BY <2>2 DEF PollInv
  <2> QED
    BY <1>2, <2>1, <2>2, <2>3, <2>4, GoOnStep
    DEF EnterAdapter, OnlyCalls, LiveInv, LiveTypeOK, Spent
<1> QED BY <1>1, <1>2 DEF EnterAdapter

LEMMA ResolveStep ==
  ASSUME MarketingAssumption, LiveInv, NEW q \in Posts \union Polls, ResolveCredential(q)
  PROVE  LiveInv'
<1>1. CASE Ends(q, "failed")
  BY <1>1, FailStep DEF ResolveCredential, OnlyCalls, Mid, LiveInv, PostInv, Before
<1>2. CASE Proceeds(q, IF q \in Posts THEN "claim" ELSE "find")
  <2>1. PICK k : k = [toolCall[q] EXCEPT !.pc = IF q \in Posts THEN "claim" ELSE "find"] OBVIOUS
  <2>2. /\ k \in LiveCalls /\ k.pc = (IF q \in Posts THEN "claim" ELSE "find")
        /\ k.consent = toolCall[q].consent /\ k.post = toolCall[q].post
        /\ k.reply = toolCall[q].reply
    <3>1. toolCall[q] \in LiveCalls BY DEF LiveInv, LiveTypeOK
    <3>2. CASE q \in Posts BY <2>1, <3>1, <3>2 DEF LiveCalls
    <3>3. CASE q \notin Posts BY <2>1, <3>1, <3>3 DEF LiveCalls
    <3> QED BY <3>2, <3>3
  <2>3. ASSUME q \in Posts, toolCall'[q] = k PROVE PostInv(q)' /\ ConsentInv(q)'
    BY <2>2, <2>3 DEF LiveInv, ResolveCredential, OnlyCalls, Mid, PostInv, ConsentInv, Holds, Posted,
                      Before, Holding
  <2>4. q \in Polls /\ toolCall'[q] = k => PollInv(q)'
    BY <2>2 DEF MarketingAssumption, LiveInv, PollInv, ResolveCredential, Mid
  <2> QED
    BY <1>2, <2>1, <2>2, <2>3, <2>4, GoOnStep
    DEF ResolveCredential, Proceeds, OnlyCalls, LiveInv, LiveTypeOK, Spent
<1> QED BY <1>1, <1>2 DEF ResolveCredential

LEMMA ClaimStep ==
  ASSUME MarketingAssumption, LiveInv, NEW q \in Posts, ClaimConsent(q)
  PROVE  LiveInv'
<1> DEFINE p == toolCall[q].consent
<1>0. /\ toolCall[q].pc = "claim" /\ p \in Preflights /\ ~Posted(q)
      /\ UNCHANGED <<connection, admin, wiring, provider, operation>>
      /\ operation[q].state = "NONE" /\ toolCall[q].reply = "none"
  BY DEF LiveInv, PostInv, ClaimConsent, Mid, Before
<1>1. CASE consent[p].state = "ACTIVE" /\ consent' = [consent EXCEPT ![p].state = "CLAIMED"]
           /\ Proceeds(q, "check")
  <2>1. PICK k : k = [toolCall[q] EXCEPT !.pc = "check"] OBVIOUS
  <2>2. /\ k \in LiveCalls /\ k.pc = "check" /\ k.consent = p /\ k.reply = "none"
    BY <1>0, <2>1 DEF LiveInv, LiveTypeOK, LiveCalls
  <2>3. /\ consent' \in [Preflights -> Consents]
        /\ \A r \in Preflights : r = p \/ Spent(r) => Spent(r)'
    <3>1. consent \in [Preflights -> Consents] /\ consent[p] \in Consents
      BY <1>0 DEF LiveInv, LiveTypeOK
    <3>2. PICK row : row = [consent[p] EXCEPT !.state = "CLAIMED"] OBVIOUS
    <3>3. row \in Consents /\ row.state = "CLAIMED" BY <3>1, <3>2 DEF Consents
    <3>4. consent' = [consent EXCEPT ![p] = row] BY <1>1, <3>2
    <3> HIDE DEF p
    <3> QED BY <1>0, <3>1, <3>3, <3>4 DEF Spent
  <2>4. OthersStay(q) /\ toolCall'[q] = k
    BY <1>1, <2>1 DEF LiveInv, LiveTypeOK, OthersStay, Proceeds, Next_
  <2>5. ASSUME NEW d \in Posts, Holds(d)', toolCall'[d].consent = p PROVE d = q
    <3> SUFFICES ASSUME d # q PROVE FALSE OBVIOUS
    <3>1. Holds(d) /\ toolCall[d].consent = p
      BY <1>0, <2>4, <2>5 DEF OthersStay, Holds, Posted
    <3> QED BY <1>1, <3>1 DEF LiveInv, ConsentInv, Spent
  <2>6. PostInv(q)' BY <1>0, <2>2, <2>4 DEF PostInv, Posted, Before, Holding
  <2>7. ConsentInv(q)' BY <1>0, <2>2, <2>3, <2>4, <2>5 DEF ConsentInv
  <2>8. q \notin Polls BY DEF MarketingAssumption
  <2>9. provider' \in [Posts -> {"NONE", "PROCESSING"} \union Terminal]
    BY <1>0 DEF LiveInv, LiveTypeOK
  <2> QED
    BY <1>0, <1>1, <2>1, <2>2, <2>3, <2>6, <2>7, <2>8, <2>9, GoOnStep DEF Proceeds
<1>2. CASE consent[p].state = "ACTIVE" /\ consent' = [consent EXCEPT ![p].state = "EXPIRED"]
           /\ Ends(q, "failed")
  <2>1. /\ consent' \in [Preflights -> Consents]
        /\ \A r \in Preflights : Spent(r) => Spent(r)'
    BY <1>0, <1>2 DEF LiveInv, LiveTypeOK, Consents, Spent
  <2>2. OthersStay(q) BY <1>2, EndsCall DEF LiveInv, LiveTypeOK, CallTypeOK
  <2>3. ASSUME NEW c \in Polls \ {q} PROVE PollInv(c)'
    BY <1>0, <2>2, <2>3, PollKept DEF OthersStay
  <2>4. operation' \in [Posts -> Operations] BY <1>0 DEF LiveInv, LiveTypeOK
  <2> QED BY <1>0, <1>2, <2>1, <2>3, <2>4, EndStep
<1>3. CASE UNCHANGED consent /\ (Ends(q, "failed") \/ Ends(q, "uncertain"))
  BY <1>0, <1>3, FailStep
<1> QED BY <1>1, <1>2, <1>3 DEF ClaimConsent

LEMMA CheckStep ==
  ASSUME MarketingAssumption, LiveInv, NEW q \in Posts, CheckPayload(q)
  PROVE  LiveInv'
<1>0. /\ toolCall[q].pc = "check" /\ ~Posted(q) /\ toolCall[q] \in LiveCalls
      /\ operation[q].state = "NONE" /\ toolCall[q].reply = "none"
      /\ toolCall[q].consent \in Preflights /\ Holds(q) /\ OnlyCalls
  BY DEF LiveInv, LiveTypeOK, PostInv, CheckPayload, Mid, Before, Holds, Holding
<1>1. PICK k : /\ \/ k = [toolCall[q] EXCEPT !.pc = "send"]
                  \/ k = [toolCall[q] EXCEPT !.pc = "settle", !.answer = "refused"]
               /\ Next_(q, k)
  BY DEF CheckPayload, Proceeds
<1>2. /\ k \in LiveCalls /\ k.consent = toolCall[q].consent /\ k.reply = "none"
      /\ k.pc = "send" \/ (k.pc = "settle" /\ k.answer = "refused")
  <2>1. CASE k = [toolCall[q] EXCEPT !.pc = "send"] BY <1>0, <2>1 DEF LiveCalls
  <2>2. CASE k = [toolCall[q] EXCEPT !.pc = "settle", !.answer = "refused"]
    BY <1>0, <2>2 DEF LiveCalls
  <2> QED BY <1>1, <2>1, <2>2
<1>3. OthersStay(q) /\ toolCall'[q] = k
  BY <1>1 DEF LiveInv, LiveTypeOK, OthersStay, Next_
<1>4. PostInv(q)' BY <1>0, <1>2, <1>3 DEF OnlyCalls, PostInv, Posted, Before, Holding
<1>5. ConsentInv(q)' BY <1>0, <1>2, <1>3, ClaimKept DEF OnlyCalls, OthersStay, Spent
<1> QED
  BY <1>0, <1>1, <1>2, <1>4, <1>5, GoOnStep
  DEF OnlyCalls, LiveInv, LiveTypeOK, MarketingAssumption, Spent

LEMMA SendStep ==
  ASSUME MarketingAssumption, LiveInv, NEW q \in Posts, SendPost(q)
  PROVE  LiveInv'
<1>0. /\ toolCall[q].pc = "send" /\ ~Posted(q) /\ toolCall[q] \in LiveCalls
      /\ operation[q].state = "NONE" /\ toolCall[q].reply = "none"
      /\ toolCall[q].consent \in Preflights /\ Holds(q)
      /\ provider \in [Posts -> {"NONE", "PROCESSING"} \union Terminal]
      /\ UNCHANGED <<connection, admin, wiring, consent, operation, troubles>>
  BY DEF LiveInv, LiveTypeOK, PostInv, SendPost, Mid, Before, Holds, Holding
<1>1. PICK taken \in BOOLEAN, answer \in {"accepted", "refused", "broken"} :
        /\ answer = "accepted" => taken
        /\ answer = "refused" => ~taken
        /\ provider' = [provider EXCEPT ![q] = IF taken THEN "PROCESSING" ELSE @]
        /\ Next_(q, [toolCall[q] EXCEPT !.pc = "settle", !.answer = answer])
  BY DEF SendPost
<1>2. PICK k : k = [toolCall[q] EXCEPT !.pc = "settle", !.answer = answer] OBVIOUS
<1>3. /\ k \in LiveCalls /\ k.consent = toolCall[q].consent /\ k.reply = "none"
      /\ k.pc = "settle" /\ k.answer = answer
  BY <1>0, <1>2 DEF LiveCalls
<1>4. OthersStay(q) /\ toolCall'[q] = k
  BY <1>1, <1>2 DEF LiveInv, LiveTypeOK, OthersStay, Next_
<1>5. /\ provider' \in [Posts -> {"NONE", "PROCESSING"} \union Terminal]
      /\ \A c \in Posts \ {q} : provider'[c] = provider[c]
      /\ Posted(q)' <=> taken
  BY <1>0, <1>1 DEF Posted
<1>6. PostInv(q)' BY <1>0, <1>1, <1>3, <1>4, <1>5 DEF PostInv, Before, Holding
<1>7. ConsentInv(q)' BY <1>0, <1>3, <1>4, <1>5, ClaimKept DEF OthersStay, Spent
<1> QED
  BY <1>0, <1>1, <1>2, <1>3, <1>5, <1>6, <1>7, GoOnStep
  DEF LiveInv, LiveTypeOK, MarketingAssumption, Spent

LEMMA SettleStep ==
  ASSUME MarketingAssumption, LiveInv, NEW q \in Posts, SettleConsent(q)
  PROVE  LiveInv'
<1> DEFINE p == toolCall[q].consent
<1>0. /\ toolCall[q].pc = "settle" /\ toolCall[q] \in LiveCalls
      /\ toolCall[q].answer = "refused" => ~Posted(q)
      /\ toolCall[q].answer = "accepted" => Posted(q)
      /\ toolCall[q].answer \in {"refused", "accepted", "broken"}
      /\ operation[q].state = "NONE" /\ toolCall[q].reply = "none"
      /\ p \in Preflights /\ Holds(q)
      /\ UNCHANGED <<connection, admin, wiring, provider, operation>>
  BY DEF LiveInv, LiveTypeOK, PostInv, SettleConsent, Mid, Before, Holds, Holding
<1>1. CASE UNCHANGED consent /\ Ends(q, "uncertain")
  BY <1>0, <1>1, FailStep
<1>2. CASE /\ consent' = [consent EXCEPT ![p].state = "CONSUMED"] /\ toolCall[q].answer # "broken"
           /\ IF toolCall[q].answer = "accepted" THEN Proceeds(q, "track") ELSE Ends(q, "failed")
  <2>1. /\ consent' \in [Preflights -> Consents]
        /\ \A r \in Preflights : Spent(r) => Spent(r)'
    <3>1. consent \in [Preflights -> Consents] /\ consent[p] \in Consents
      BY <1>0 DEF LiveInv, LiveTypeOK
    <3>2. PICK row : row = [consent[p] EXCEPT !.state = "CONSUMED"] OBVIOUS
    <3>3. row \in Consents /\ row.state = "CONSUMED" BY <3>1, <3>2 DEF Consents
    <3>4. consent' = [consent EXCEPT ![p] = row] BY <1>2, <3>2
    <3> HIDE DEF p
    <3> QED BY <1>0, <3>1, <3>3, <3>4 DEF Spent
  <2>2. operation' \in [Posts -> Operations]
        /\ provider' \in [Posts -> {"NONE", "PROCESSING"} \union Terminal]
    BY <1>0 DEF LiveInv, LiveTypeOK
  <2>3. CASE toolCall[q].answer = "accepted" /\ Proceeds(q, "track")
    <3>1. PICK k : k = [toolCall[q] EXCEPT !.pc = "track"] OBVIOUS
    <3>2. k \in LiveCalls /\ k.consent = p /\ k.reply = "none" /\ k.pc = "track"
      BY <1>0, <3>1 DEF LiveCalls
    <3>3. OthersStay(q) /\ toolCall'[q] = k
      BY <2>3, <3>1 DEF LiveInv, LiveTypeOK, OthersStay, Proceeds, Next_
    <3>4. PostInv(q)' BY <1>0, <2>3, <3>2, <3>3 DEF PostInv, Posted, Before, Holding
    <3>5. ConsentInv(q)' BY <1>0, <2>1, <3>2, <3>3, ClaimKept DEF OthersStay
    <3> QED
      BY <1>0, <2>1, <2>2, <2>3, <3>1, <3>2, <3>4, <3>5, GoOnStep
      DEF MarketingAssumption, Proceeds
  <2>4. CASE toolCall[q].answer # "accepted" /\ Ends(q, "failed")
    <3>1. ~Posted(q) BY <1>0, <1>2, <2>4
    <3>2. OthersStay(q) BY <2>4, EndsCall DEF LiveInv, LiveTypeOK, CallTypeOK
    <3>3. ASSUME NEW c \in Polls \ {q} PROVE PollInv(c)'
      BY <1>0, <3>2, <3>3, PollKept DEF OthersStay
    <3> QED BY <1>0, <2>1, <2>2, <2>4, <3>1, <3>3, EndStep
  <2> QED BY <1>2, <2>3, <2>4
<1> QED BY <1>1, <1>2 DEF SettleConsent

LEMMA TrackStep ==
  ASSUME MarketingAssumption, LiveInv, NEW q \in Posts, TrackPost(q)
  PROVE  LiveInv'
<1>0. /\ toolCall[q].pc = "track" /\ Posted(q) /\ Holds(q) /\ operation[q].state = "NONE"
      /\ UNCHANGED <<connection, admin, wiring, consent, provider>>
  BY DEF LiveInv, PostInv, TrackPost, Mid, Holds
<1>1. CASE UNCHANGED operation /\ Ends(q, "uncertain")
  BY <1>0, <1>1, FailStep
<1>2. CASE /\ operation' = [operation EXCEPT ![q] = [state |-> "SUBMITTED", version |-> 0]]
           /\ Ends(q, "success")
  <2>1. /\ operation' \in [Posts -> Operations] /\ operation'[q].state # "NONE"
        /\ \A c \in Posts \ {q} : operation'[c] = operation[c]
    BY <1>2 DEF LiveInv, LiveTypeOK, Operations
  <2>2. OthersStay(q) BY <1>2, EndsCall DEF LiveInv, LiveTypeOK, CallTypeOK
  <2>3. ASSUME NEW c \in Polls \ {q} PROVE PollInv(c)'
    BY <1>0, <2>1, <2>2, <2>3, PollKept DEF OthersStay
  <2>4. consent' \in [Preflights -> Consents] BY <1>0 DEF LiveInv, LiveTypeOK
  <2> QED BY <1>0, <1>2, <2>1, <2>3, <2>4, EndStep DEF Spent
<1> QED BY <1>1, <1>2 DEF TrackPost

\* A poll that ends, whatever it has written to a tracked post.
LEMMA PollEnds ==
  ASSUME MarketingAssumption, LiveInv, NEW q \in Polls,
         NEW reply \in {"failed", "uncertain", "success"}, Ends(q, reply),
         UNCHANGED <<connection, admin, wiring, consent, provider>>,
         operation' \in [Posts -> Operations],
         \A c \in Posts : operation'[c].state = "NONE" <=> operation[c].state = "NONE",
         \A c \in Polls \ {q} : PollInv(c)'
  PROVE  LiveInv'
<1>1. consent' \in [Preflights -> Consents] BY DEF LiveInv, LiveTypeOK
<1>2. q \notin Posts BY DEF MarketingAssumption
<1> QED BY <1>1, <1>2, EndStep DEF Spent

LEMMA FindStep ==
  ASSUME MarketingAssumption, LiveInv, NEW q \in Polls, FindTracked(q)
  PROVE  LiveInv'
<1>0. /\ toolCall[q].pc = "find" /\ toolCall[q] \in LiveCalls /\ q \notin Posts /\ OnlyCalls
      /\ toolCall[q].post \in Posts
  BY DEF MarketingAssumption, LiveInv, LiveTypeOK, PollInv, FindTracked, Mid
<1>1. CASE Ends(q, "failed") BY <1>0, <1>1, FailStep DEF OnlyCalls
<1>2. CASE operation[toolCall[q].post].state # "NONE" /\ Proceeds(q, "fetch")
  <2>1. PICK k : k = [toolCall[q] EXCEPT !.pc = "fetch"] OBVIOUS
  <2>2. k \in LiveCalls /\ k.pc = "fetch" /\ k.post = toolCall[q].post
    BY <1>0, <2>1 DEF LiveCalls
  <2>3. toolCall'[q] = k => PollInv(q)' BY <1>0, <1>2, <2>2 DEF PollInv, OnlyCalls
  <2> QED
    BY <1>0, <1>2, <2>1, <2>2, <2>3, GoOnStep
    DEF Proceeds, OnlyCalls, LiveInv, LiveTypeOK, Spent
<1> QED BY <1>1, <1>2 DEF FindTracked

LEMMA FetchStep ==
  ASSUME MarketingAssumption, LiveInv, NEW q \in Polls, FetchStatus(q)
  PROVE  LiveInv'
<1>0. /\ toolCall[q].pc = "fetch" /\ toolCall[q] \in LiveCalls /\ q \notin Posts /\ OnlyCalls
      /\ toolCall[q].post \in Posts /\ operation[toolCall[q].post].state # "NONE"
      /\ provider[toolCall[q].post] \in {"PROCESSING"} \union Terminal
  BY DEF MarketingAssumption, LiveInv, LiveTypeOK, PollInv, PostInv, Posted, FetchStatus, Mid
<1>1. CASE Ends(q, "failed") \/ Ends(q, "uncertain") BY <1>0, <1>1, FailStep DEF OnlyCalls
<1>2. CASE \E s \in {provider[toolCall[q].post], "UNKNOWN"} :
             Next_(q, [toolCall[q] EXCEPT !.pc = "validate", !.answer = s])
  <2>0. PICK s \in {provider[toolCall[q].post], "UNKNOWN"} :
          Next_(q, [toolCall[q] EXCEPT !.pc = "validate", !.answer = s])
    BY <1>2
  <2>1. PICK k : k = [toolCall[q] EXCEPT !.pc = "validate", !.answer = s] OBVIOUS
  <2>2. k \in LiveCalls /\ k.pc = "validate" /\ k.post = toolCall[q].post /\ k.answer = s
    BY <1>0, <2>0, <2>1 DEF LiveCalls, Terminal
  <2>3. toolCall'[q] = k => PollInv(q)' BY <1>0, <2>0, <2>2 DEF PollInv, OnlyCalls
  <2> QED
    BY <1>0, <2>0, <2>1, <2>2, <2>3, GoOnStep DEF OnlyCalls, LiveInv, LiveTypeOK, Spent
<1> QED BY <1>1, <1>2 DEF FetchStatus

LEMMA ValidateStep ==
  ASSUME MarketingAssumption, LiveInv, NEW q \in Polls, ValidateStatus(q)
  PROVE  LiveInv'
<1> DEFINE op == operation[toolCall[q].post]
<1>0. /\ toolCall[q].pc = "validate" /\ toolCall[q] \in LiveCalls /\ q \notin Posts /\ OnlyCalls
      /\ toolCall[q].post \in Posts /\ op.state # "NONE" /\ op \in Operations
      /\ toolCall[q].answer \in {"PROCESSING", "UNKNOWN"} \union Terminal
  BY DEF MarketingAssumption, LiveInv, LiveTypeOK, PollInv, ValidateStatus, Mid
<1>1. CASE Ends(q, "failed") BY <1>0, <1>1, FailStep DEF OnlyCalls
<1>2. CASE /\ op.state \in Terminal => toolCall[q].answer = op.state
           /\ Next_(q, [toolCall[q] EXCEPT !.pc = "record", !.seen = op.version])
  <2>1. PICK k : k = [toolCall[q] EXCEPT !.pc = "record", !.seen = op.version] OBVIOUS
  <2>2. /\ k \in LiveCalls /\ k.pc = "record" /\ k.post = toolCall[q].post
        /\ k.answer = toolCall[q].answer /\ k.seen = op.version /\ op.version \in Nat
    BY <1>0, <2>1 DEF LiveCalls, Operations
  <2>3. toolCall'[q] = k => PollInv(q)' BY <1>0, <1>2, <2>2 DEF PollInv, OnlyCalls
  <2> QED
    BY <1>0, <1>2, <2>1, <2>2, <2>3, GoOnStep DEF OnlyCalls, LiveInv, LiveTypeOK, Spent
<1> QED BY <1>1, <1>2 DEF ValidateStatus

\* A poll that writes makes every other poll that has read the same post write nothing.
LEMMA RecordStep ==
  ASSUME MarketingAssumption, LiveInv, NEW q \in Polls, RecordStatus(q)
  PROVE  LiveInv'
<1> DEFINE d == toolCall[q].post
<1>0. /\ toolCall[q].pc = "record" /\ toolCall[q] \in LiveCalls /\ q \notin Posts
      /\ d \in Posts /\ operation[d].state # "NONE" /\ operation \in [Posts -> Operations]
      /\ toolCall[q].answer \in {"PROCESSING", "UNKNOWN"} \union Terminal
      /\ UNCHANGED <<connection, admin, wiring, consent, provider>>
  BY DEF MarketingAssumption, LiveInv, LiveTypeOK, PollInv, RecordStatus, Mid
<1>1. CASE UNCHANGED operation /\ Ends(q, "failed") BY <1>0, <1>1, FailStep
<1>2. CASE /\ operation' = [operation EXCEPT ![d] = [state |-> toolCall[q].answer,
                                                      version |-> @.version + 1]]
           /\ Ends(q, "success")
  <2>1. PICK row : row = [state |-> toolCall[q].answer, version |-> operation[d].version + 1]
    OBVIOUS
  <2>2. row \in Operations /\ row.state # "NONE" /\ row.version = operation[d].version + 1
        /\ operation[d].version \in Nat
    BY <1>0, <2>1 DEF Operations, Terminal
  <2>3. operation' = [operation EXCEPT ![d] = row] BY <1>2, <2>1
  <2>4. OthersStay(q) BY <1>2, EndsCall DEF LiveInv, LiveTypeOK, CallTypeOK
  <2>5. ASSUME NEW c \in Polls \ {q} PROVE PollInv(c)'
    <3>1. toolCall'[c] = toolCall[c] /\ PollInv(c) /\ toolCall[c].seen \in Nat
      BY <2>4, <2>5 DEF OthersStay, LiveInv, LiveTypeOK, LiveCalls
    <3>2. CASE toolCall[c].post = d
      <4>1. operation'[toolCall[c].post] = row BY <1>0, <2>3, <3>2
      <4>2. toolCall[c].pc = "record" => toolCall[c].seen <= operation[d].version
        BY <3>1, <3>2 DEF PollInv
      <4>3. toolCall[c].pc = "record" =>
              toolCall[c].seen <= row.version /\ toolCall[c].seen # row.version
        BY <2>2, <3>1, <4>2
      <4> HIDE DEF d
      <4> QED BY <2>2, <3>1, <4>1, <4>3 DEF PollInv
    <3>3. CASE toolCall[c].post # d
      <4>1. toolCall[c].post \in Posts =>
              operation'[toolCall[c].post] = operation[toolCall[c].post]
        BY <1>0, <2>3, <3>3
      <4> QED BY <3>1, <4>1 DEF PollInv
    <3> QED BY <3>2, <3>3
  <2>6. /\ operation' \in [Posts -> Operations]
        /\ \A c \in Posts : operation'[c].state = "NONE" <=> operation[c].state = "NONE"
    BY <1>0, <2>2, <2>3
  <2> QED BY <1>0, <1>2, <2>5, <2>6, PollEnds
<1> QED BY <1>1, <1>2 DEF RecordStatus

\* A restart drops the calls under way; what they posted still holds their consents.
LEMMA RestartStep ==
  ASSUME MarketingAssumption, LiveInv, Restart
  PROVE  LiveInv'
<1>0. /\ UNCHANGED <<connection, consent, provider, operation>>
      /\ CallTypeOK /\ LiveTypeOK /\ AdminInv
  BY DEF LiveInv, LiveTypeOK, CallTypeOK, Restart
<1>1. ASSUME NEW c \in Posts \union Polls
      PROVE  /\ toolCall'[c] \in LiveCalls /\ toolCall'[c].consent = toolCall[c].consent
             /\ \/ toolCall[c].pc \in {"idle", "done"} /\ toolCall'[c] = toolCall[c]
                \/ toolCall'[c].pc = "done" /\ toolCall'[c].reply = "lost"
  <2>1. DOMAIN toolCall = Posts \union Polls /\ toolCall[c] \in LiveCalls
    BY <1>0, <1>1 DEF CallTypeOK
  <2>2. CASE toolCall[c].pc \in {"idle", "done"}
    BY <2>1, <2>2 DEF Restart
  <2>3. CASE toolCall[c].pc \notin {"idle", "done"}
    <3>1. PICK k : k = [NoTool EXCEPT !.pc = "done", !.reply = "lost", !.consent = toolCall[c].consent]
      OBVIOUS
    <3>2. k.pc = "done" /\ k.reply = "lost" /\ k.consent = toolCall[c].consent
      BY <3>1 DEF NoTool
    <3>3. toolCall[c].consent \in Preflights \union {"NONE"} BY <2>1 DEF LiveCalls
    <3>4. k \in LiveCalls BY <3>1, <3>3 DEF NoTool, LiveCalls
    <3>5. toolCall'[c] = k BY <2>1, <2>3, <3>1 DEF Restart
    <3> QED BY <3>2, <3>4, <3>5
  <2> QED BY <2>2, <2>3
<1>2. CallTypeOK'
  BY <1>0, <1>1 DEF CallTypeOK, Restart
<1>3. /\ wiring' = [bound |-> FALSE, spec |-> "LIVE", executor |-> TRUE, route |-> TRUE]
      /\ admin' \in [op : {"none", "enable", "disable"}, seen : {"none", "on", "off"},
                     changes : 0 .. MaxAdmin]
      /\ admin'.op = "none"
  BY <1>0 DEF LiveTypeOK, Restart, Installed
<1>4. LiveTypeOK' /\ AdminInv'
  BY <1>0, <1>2, <1>3 DEF LiveTypeOK, AdminInv, CallTypeOK
<1>5. ASSUME NEW c \in Posts PROVE PostInv(c)' /\ (Holds(c)' => Holds(c))
  BY <1>0, <1>1, <1>5 DEF LiveInv, PostInv, Holds, Holding, Posted, Before
<1>6. ASSUME NEW c \in Posts PROVE ConsentInv(c)'
  BY <1>0, <1>1, <1>5, <1>6 DEF LiveInv, ConsentInv, Spent
<1>7. ASSUME NEW c \in Polls PROVE PollInv(c)'
  BY <1>0, <1>1, <1>7 DEF LiveInv, PollInv
<1> QED BY <1>4, <1>5, <1>6, <1>7 DEF LiveInv

----------------------------------------------------------------------------
(* The invariant and what follows from it *)

LEMMA LiveStep ==
  ASSUME MarketingAssumption, LiveInv, [LiveNext]_liveVars
  PROVE  LiveInv'
<1>1. CASE Administration BY <1>1, AdministrationStep
<1>2. CASE \E p \in Preflights : RevokeConsent(p) \/ \E valid \in BOOLEAN : CreateConsent(p, valid)
  BY <1>2, ConsentStep
<1>3. ASSUME NEW c \in Posts, NEW p \in Preflights, EnterAdapter(c, p, c) PROVE LiveInv'
  BY <1>3, EnterAdapterStep
<1>4. ASSUME NEW c \in Posts,
             \/ ClaimConsent(c) \/ CheckPayload(c) \/ SendPost(c) \/ SettleConsent(c) \/ TrackPost(c)
             \/ \E result \in Terminal : ProviderFinishes(c, result)
      PROVE  LiveInv'
  BY <1>4, ClaimStep, CheckStep, SendStep, SettleStep, TrackStep, ProviderStep
<1>5. ASSUME NEW c \in Polls, NEW d \in Posts, EnterAdapter(c, "NONE", d) PROVE LiveInv'
  BY <1>5, EnterAdapterStep DEF MarketingAssumption
<1>6. ASSUME NEW c \in Polls,
             FindTracked(c) \/ FetchStatus(c) \/ ValidateStatus(c) \/ RecordStatus(c)
      PROVE  LiveInv'
  BY <1>6, FindStep, FetchStep, ValidateStep, RecordStep
<1>7. ASSUME NEW c \in Posts \union Polls, ResolveCredential(c) PROVE LiveInv'
  BY <1>7, ResolveStep
<1>8. CASE Restart BY <1>8, RestartStep
<1>9. CASE UNCHANGED liveVars
  <2>1. LiveTypeOK' /\ AdminInv' BY <1>9 DEF liveVars, LiveInv, LiveTypeOK, AdminInv
  <2> QED BY <1>9, <2>1, QuietStep DEF liveVars, Posted, Spent
<1> QED
  BY <1>1, <1>2, <1>3, <1>4, <1>5, <1>6, <1>7, <1>8, <1>9 DEF LiveNext, Administration

\* The invariant holds of every reachable state, whatever the number of posts, polls and
\* consents, of store faults and of restarts.
THEOREM LiveInvariance == LiveSpec => []LiveInv
<1>1. LiveInit => LiveInv BY LiveInitially, MarketingAssumption
<1>2. LiveInv /\ [LiveNext]_liveVars => LiveInv' BY LiveStep, MarketingAssumption
<1> QED BY <1>1, <1>2, PTL DEF LiveSpec

\* The state of the LIVE boundary keeps its type.
THEOREM LiveTypeCorrect == LiveSpec => []LiveTypeOK
<1>1. LiveInv => LiveTypeOK BY DEF LiveInv
<1> QED BY <1>1, LiveInvariance, PTL

\* One consent makes one post at most: the claim, and not the later settling, spends it, so
\* neither an unreadable answer nor a crash gives it back.
THEOREM OnePostTheorem == LiveSpec => []OnePostPerConsent
<1>1. ASSUME LiveInv PROVE OnePostPerConsent
  BY <1>1 DEF LiveInv, ConsentInv, Holds, OnePostPerConsent
<1> QED BY <1>1, LiveInvariance, PTL

\* A call that answers "failed" has posted nothing, and a success can be polled.
THEOREM FailureTheorem == LiveSpec => []FailureMeansNoPost
<1>1. ASSUME LiveInv PROVE FailureMeansNoPost
  BY <1>1 DEF LiveInv, PostInv, FailureMeansNoPost
<1> QED BY <1>1, LiveInvariance, PTL

\* No poll, however old its answer, takes a post out of its final state.
THEOREM FinalTheorem == LiveSpec => FinalStateStays
<1> DEFINE Stays == \A c \in Posts : operation[c].state \in Terminal =>
                      operation'[c].state = operation[c].state
<1>1. ASSUME MarketingAssumption, LiveInv, [LiveNext]_liveVars PROVE [Stays]_liveVars
  <2> SUFFICES ASSUME NEW c \in Posts, operation[c].state \in Terminal
               PROVE  operation'[c].state = operation[c].state
    OBVIOUS
  <2>1. CASE UNCHANGED operation BY <2>1
  <2>2. ASSUME NEW q \in Posts, TrackPost(q) PROVE operation'[c].state = operation[c].state
    BY <1>1, <2>2 DEF LiveInv, LiveTypeOK, PostInv, TrackPost, Mid, Terminal
  <2>3. ASSUME NEW q \in Polls, RecordStatus(q) PROVE operation'[c].state = operation[c].state
    BY <1>1, <2>3 DEF LiveInv, LiveTypeOK, PollInv, RecordStatus, Mid
  <2> QED
    BY <1>1, <2>1, <2>2, <2>3
    DEF LiveNext, liveVars, RegisterConnection, RemoveConnection, SwitchRead, SwitchWrite, Bind,
        Unbind, RegisterSpec, SetExecutor, SyncMarketing, Elsewhere, RevokeConsent, CreateConsent,
        EnterAdapter, OnlyCalls, ResolveCredential, ClaimConsent, CheckPayload, SendPost,
        SettleConsent, ProviderFinishes, FindTracked, FetchStatus, ValidateStatus, Restart
<1> QED BY <1>1, LiveInvariance, MarketingAssumption, PTL DEF LiveSpec, FinalStateStays
=============================================================================
