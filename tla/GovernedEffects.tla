-------------------------- MODULE GovernedEffects ---------------------------
(***************************************************************************)
(* What the tool gateway promises about consequential actions, without       *)
(* policy records, stores, crashes or retries: an action reaches its         *)
(* provider at most once per call, per human approval and per idempotency    *)
(* key, and a gated action only under an approval granted for exactly it.    *)
(***************************************************************************)
CONSTANTS Calls, Approvals, Actions, Gated, Consequential, KeyOf, NoKey,
          NoAction, NoToken, NoCall

VARIABLES
  act,     \* action of each call
  tok,     \* approval token each call presents
  grant,   \* action each approval was granted for
  holder,  \* the call that spent the approval
  fired    \* calls whose consequential action reached the provider

absVars == <<act, tok, grant, holder, fired>>

Init ==
  /\ act    = [c \in Calls |-> NoAction]
  /\ tok    = [c \in Calls |-> NoToken]
  /\ grant  = [i \in Approvals |-> NoAction]
  /\ holder = [i \in Approvals |-> NoCall]
  /\ fired  = {}

Ask(c, a, t) ==
  /\ act[c] = NoAction
  /\ act' = [act EXCEPT ![c] = a]
  /\ tok' = [tok EXCEPT ![c] = t]
  /\ UNCHANGED <<grant, holder, fired>>

Grant(i, a) ==
  /\ grant[i] = NoAction
  /\ grant' = [grant EXCEPT ![i] = a]
  /\ UNCHANGED <<act, tok, holder, fired>>

Spend(c, i) ==
  /\ tok[c] = i /\ holder[i] = NoCall /\ grant[i] # NoAction
  /\ holder' = [holder EXCEPT ![i] = c]
  /\ UNCHANGED <<act, tok, grant, fired>>

Fire(c) ==
  /\ act[c] \in Consequential /\ c \notin fired
  /\ act[c] \in Gated => tok[c] \in Approvals /\ grant[tok[c]] = act[c]
  /\ tok[c] \in Approvals => holder[tok[c]] = c
  /\ \A d \in fired : KeyOf[act[c]] # NoKey => KeyOf[act[d]] # KeyOf[act[c]]
  /\ fired' = fired \union {c}
  /\ UNCHANGED <<act, tok, grant, holder>>

Next ==
  \/ \E c \in Calls, a \in Actions, t \in Approvals \union {NoToken} : Ask(c, a, t)
  \/ \E i \in Approvals, a \in Actions : Grant(i, a)
  \/ \E c \in Calls, i \in Approvals : Spend(c, i)
  \/ \E c \in Calls : Fire(c)

Spec == Init /\ [][Next]_absVars
=============================================================================
