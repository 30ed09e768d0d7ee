---------------------------- MODULE MCSessionPool ---------------------------
(* SessionPool for TLC: a few interchangeable profiles.                    *)
EXTENDS SessionPool, TLC

Symmetry == Permutations(Profiles)
=============================================================================
