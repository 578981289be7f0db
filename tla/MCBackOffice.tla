---------------------------- MODULE MCBackOffice ----------------------------
(***************************************************************************)
(* Two requests at a time in every service.                                *)
(*                                                                         *)
(* Staff: two super administrators, who are interchangeable, and a         *)
(* manager.  Purchasing: one piece each of a cable and of a serialized     *)
(* phone; a piece is two quanta, and a proposal asks for one and a half    *)
(* cables.  Forecast: sales on either side of midnight in Colombo, in the  *)
(* hours of a discount, and in the last week of the data.                  *)
(* Promotions: a rule that is made and edited, in three moments, and a     *)
(* rule of lower priority that always applies.                             *)
(***************************************************************************)
EXTENDS BackOffice, TLC

CONSTANTS k1, k2, cable, phone, sale, bundle, root, boss, mgr, super, manager, clerk

MCSymmetry == Permutations({k1, k2}) \cup Permutations({root, boss})

MCRoleSets == {{super}, {manager}, {clerk}}
MCGrants == {{"users:manage", "sales"}, {"sales"}}

MCMoments == {<<0, 31>>, <<4, 15>>}

MCDiscountRules == {[from |-> 301, to |-> 349]}

MCOrdered == (cable :> 2) @@ (phone :> 2)
MCProposals == {cable :> 3}

MCPriority == (sale :> 2) @@ (bundle :> 1)
=============================================================================
