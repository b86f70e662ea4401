------------------------------ MODULE MCLimiter ------------------------------
(* Instance of Limiter for TLC. *)
EXTENDS Limiter, TLC

MCSymmetry == Permutations(Permits) \cup Permutations(Sources)
=============================================================================
