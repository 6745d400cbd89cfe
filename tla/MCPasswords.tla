---------------------------- MODULE MCPasswords ----------------------------
(* Passwords with three concurrent requests of any kinds.                  *)
EXTENDS Passwords, TLC

RequestSymmetry == Permutations(Requests)
============================================================================
