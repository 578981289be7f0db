--------------------------- MODULE MCCreditLedger ---------------------------
(***************************************************************************)
(* A credit sale for 16 cents: three cases for 11 and a charger for 5, so  *)
(* that a case is worth a third of a cent less than 4.  8 cents are paid   *)
(* at the till, 2 by points and 6 on credit, in two installments that      *)
(* differ from the balance by the cent the till tolerates.                 *)
(***************************************************************************)
EXTENDS CreditLedger, TLC

CONSTANTS sale, case, charger, c1, c2

MCQuantity == sale :> ((case :> 3) @@ (charger :> 1))
MCGrain == sale :> 3
MCPrice == sale :> ((case :> 11) @@ (charger :> 15))
MCTendered == sale :> 8
MCBalance == sale :> 6
MCPlan == sale :> <<3, 4>>

MCSymmetry == Permutations({c1, c2})
=============================================================================
