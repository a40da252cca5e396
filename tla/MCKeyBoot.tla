----------------------------- MODULE MCKeyBoot -----------------------------
(* Small instances of KeyBoot: the constants are given in the .cfg files. *)
EXTENDS KeyBoot
=============================================================================
