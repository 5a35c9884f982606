----------------------------- MODULE MCGroupHub -----------------------------
(* Instances of GroupHub for TLC. *)
EXTENDS GroupHub, TLC

CONSTANTS a, b, c, hp1, hp2, n1, n2

NoSkew == [h \in Host |-> 0]

\* Host a runs one unit ahead of the others.
OneAhead == [h \in Host |-> IF h = a THEN 1 ELSE 0]

\* b streams with hp1 and nobody has a control channel.
HeldByB ==
  /\ Init
  /\ holding = [h \in Host |-> IF h = b THEN hp1 ELSE NoHeadset]
  /\ \A h \in Host : op[h].controlAddress = NoHeadset

\* b streams with hp1 and everybody has a control channel to it.
SharedByAll ==
  /\ Init
  /\ holding = [h \in Host |-> IF h = b THEN hp1 ELSE NoHeadset]
  /\ \A h \in Host : op[h].controlAddress = hp1

SharedByAllSpec == SharedByAll /\ [][Next]_vars
HeldByBSpec == HeldByB /\ [][Next]_vars
HeldByBFairSpec == HeldByBSpec /\ Fairness

NonceSymmetry == Permutations(Nonce)
=============================================================================
