--------------------------- MODULE MCProfileOAuth ---------------------------
(* ProfileOAuth for TLC: two requests or polls at a time, of one instance  *)
(* or of two.                                                              *)
EXTENDS ProfileOAuth, TLC

CONSTANTS w1, w2, w3, i1, i2, c1, c2

\* w1 and w2 contend for a mutex; w3 shares the row with them and nothing else.
TwoInstances == w1 :> i1 @@ w2 :> i1 @@ w3 :> i2

\* The workers of the first instance are alike.
Symmetry == Permutations(Clients) \cup Permutations({w1, w2})
=============================================================================
