---------------------------- MODULE MCKeyRotation ----------------------------
(* TLC instances of KeyRotation.  The processes of a kind run the same code. *)
EXTENDS KeyRotation, TLC

ProcessSymmetry == Permutations(Server) \cup Permutations(Rotator)
=============================================================================
