---------------------------- MODULE MCServices -----------------------------
(***************************************************************************)
(* Promotions: a rule that is made and edited once, in three moments, and  *)
(* a rule of lower priority that always applies; what overlapping edits do *)
(* is checked in BackOffice.  Offline sales: three operations in three     *)
(* batches, two of which share one; two submissions at a time, of the same *)
(* batch or of two.  The assistant: a question about up to two things,     *)
(* with the calls the code makes.                                          *)
(***************************************************************************)
EXTENDS Services, TLC

CONSTANTS sale, bundle, o1, o2, o3, b1, b2, b3

MCPriority == (sale :> 2) @@ (bundle :> 1)

MCContents == (b1 :> {o1, o2}) @@ (b2 :> {o2}) @@ (b3 :> {o3})
=============================================================================
