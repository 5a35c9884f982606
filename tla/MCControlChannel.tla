-------------------------- MODULE MCControlChannel --------------------------
(* Instances of ControlChannel for TLC, one platform each. *)
EXTENDS ControlChannel, TLC

CONSTANTS h1, h2

HeadsetSymmetry == Permutations(Headset)
=============================================================================
