----------------------------- MODULE MCAccounts -----------------------------
(***************************************************************************)
(* One customer with two points and a unit of store credit, and two sales  *)
(* that each want all of them; the second one needs the larger limit.      *)
(***************************************************************************)
EXTENDS Accounts, TLC

CONSTANTS ann, s1, s2, k1, k2

MCCustomerOf == [s \in {s1, s2} |-> ann]
MCBasket ==
    (s1 :> [total |-> 5, redeem |-> 2, credit |-> 1, financed |-> 2]) @@
    (s2 :> [total |-> 7, redeem |-> 2, credit |-> 1, financed |-> 3])
MCOpeningPoints == ann :> 2
MCOpeningCredit == ann :> 1
MCAdjustments == {-1, 1}

MCSymmetry == Permutations({k1, k2})
=============================================================================
