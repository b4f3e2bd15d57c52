---------------------------- MODULE MCEnrollment ----------------------------
(* Small instances of Enrollment for TLC.                                   *)
EXTENDS Enrollment, TLC

MCSymmetry == Permutations(Workers) \cup Permutations(Tokens) \cup Permutations(Machines)
=============================================================================
