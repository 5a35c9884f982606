--------------------------- MODULE HandoffPromise ---------------------------
(***************************************************************************)
(* What a group promises about the handoffs its members ask for: somebody  *)
(* who asks for a headset starts to connect it only after another member   *)
(* has announced, for this very handoff, that it let go, or after the      *)
(* deadline of the request has passed on the asking member's clock; and a  *)
(* handoff that is over stays over.  GroupHub implements this              *)
(* specification.                                                          *)
(***************************************************************************)
EXTENDS Integers

CONSTANTS Host, NoHost, Nonce, MaxClock

VARIABLES
  stage,  \* how far the handoff of each nonce has come
  by,     \* the member that asked
  due,    \* its deadline
  freed,  \* the members that announced a release for it
  clock   \* the members' clocks

vars == <<stage, by, due, freed, clock>>

Init ==
  /\ stage = [n \in Nonce |-> "fresh"]
  /\ by = [n \in Nonce |-> NoHost]
  /\ due = [n \in Nonce |-> 0]
  /\ freed = [n \in Nonce |-> {}]
  /\ clock \in [Host -> 0 .. MaxClock]

\* A member asks: the deadline counts from here.
Ask(n, h) ==
  /\ stage[n] = "fresh"
  /\ stage' = [stage EXCEPT ![n] = "asked"]
  /\ by' = [by EXCEPT ![n] = h]
  /\ \E t \in clock[h] .. MaxClock : due' = [due EXCEPT ![n] = t]
  /\ UNCHANGED <<freed, clock>>

\* It is busy with something else, or has left; the others never hear of it.
Refuse(n) ==
  /\ stage[n] = "asked"
  /\ stage' = [stage EXCEPT ![n] = "fresh"]
  /\ by' = [by EXCEPT ![n] = NoHost]
  /\ due' = [due EXCEPT ![n] = 0]
  /\ UNCHANGED <<freed, clock>>

\* The handoff begins, at any time after it was asked for: its deadline may be
\* over by then.
Begin(n) ==
  /\ stage[n] = "asked"
  /\ stage' = [stage EXCEPT ![n] = "waiting"]
  /\ UNCHANGED <<by, due, freed, clock>>

LetGo(n, h) ==
  /\ stage[n] \notin {"fresh", "asked"} /\ h # by[n]
  /\ freed' = [freed EXCEPT ![n] = @ \cup {h}]
  /\ UNCHANGED <<stage, by, due, clock>>

Connect(n) ==
  /\ stage[n] = "waiting"
  /\ freed[n] # {} \/ clock[by[n]] >= due[n]
  /\ stage' = [stage EXCEPT ![n] = "connecting"]
  /\ UNCHANGED <<by, due, freed, clock>>

Finish(n) ==
  /\ stage[n] \in {"waiting", "connecting"}
  /\ stage' = [stage EXCEPT ![n] = "over"]
  /\ UNCHANGED <<by, due, freed, clock>>

TimePasses ==
  /\ clock' \in [Host -> 0 .. MaxClock]
  /\ \A h \in Host : clock'[h] >= clock[h]
  /\ UNCHANGED <<stage, by, due, freed>>

Next ==
  \/ \E n \in Nonce : Refuse(n) \/ Begin(n) \/ Connect(n) \/ Finish(n)
  \/ \E n \in Nonce, h \in Host : Ask(n, h) \/ LetGo(n, h)
  \/ TimePasses

Spec == Init /\ [][Next]_vars
=============================================================================
