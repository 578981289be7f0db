----------------------------- MODULE MCSessions -----------------------------
(***************************************************************************)
(* One user, three sessions of up to three families, two reset tokens and  *)
(* two requests at a time.                                                 *)
(***************************************************************************)
EXTENDS Sessions, TLC

CONSTANTS ann, k1, k2

MCSymmetry == Permutations({k1, k2})
=============================================================================
