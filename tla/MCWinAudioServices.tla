------------------------ MODULE MCWinAudioServices ------------------------
(* Instances of WinAudioServices for TLC. *)
EXTENDS WinAudioServices, TLC

CONSTANTS a1, a2, hfp

AddressSymmetry == Permutations(Address)
=============================================================================
