---- MODULE OneVoice ----
(***************************************************************************)
(* What the caller of the model gateway relies on: while nothing has been  *)
(* said the gateway may ask one provider after another; the first word     *)
(* binds it to that provider; the answer is closed exactly once, and then  *)
(* no provider is left talking.                                            *)
(***************************************************************************)
CONSTANTS Providers, NoProvider

VARIABLES
  asked,   \* the provider whose answer is open
  voice,   \* the provider that has spoken
  closed   \* the answer is complete, failed or abandoned

Init == asked = NoProvider /\ voice = NoProvider /\ closed = FALSE

Ask(p) ==
  /\ ~closed /\ voice = NoProvider
  /\ asked' = p /\ UNCHANGED <<voice, closed>>

Speak(p) ==
  /\ ~closed /\ asked = p
  /\ voice' = p /\ UNCHANGED <<asked, closed>>

GiveUp ==
  /\ ~closed /\ voice = NoProvider
  /\ asked' = NoProvider /\ UNCHANGED <<voice, closed>>

Close ==
  /\ ~closed
  /\ closed' = TRUE /\ asked' = NoProvider /\ voice' \in {voice, asked}

Forget == asked' = NoProvider /\ voice' = NoProvider /\ closed' = FALSE

Next == (\E p \in Providers : Ask(p) \/ Speak(p)) \/ GiveUp \/ Close \/ Forget

Spec == Init /\ [][Next]_<<asked, voice, closed>>
====
