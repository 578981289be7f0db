----------------------------- MODULE MCStockRoom -----------------------------
(***************************************************************************)
(* Two branches, one product counted by quantity and one serialized, two   *)
(* transfers (out and back) and two sales of the same goods.               *)
(***************************************************************************)
EXTENDS StockRoom, TLC

CONSTANTS shop, depot, cable, phone, u1, u2, outbound, inbound, s1, s2, d1, d2, c1, c2

MCProductOf == [u \in {u1, u2} |-> phone]
MCHome == [u \in {u1, u2} |-> shop]
MCGoods(cables, phones) == (cable :> cables) @@ (phone :> phones)
MCOpening == (shop :> MCGoods(1, 1)) @@ (depot :> MCGoods(0, 0))
MCSource == (outbound :> shop) @@ (inbound :> depot)
MCDestination == (outbound :> depot) @@ (inbound :> shop)
MCLines == (outbound :> MCGoods(1, 1)) @@ (inbound :> MCGoods(0, 1))
MCSaleBranch == (s1 :> shop) @@ (s2 :> depot)
MCSaleLines == (s1 :> MCGoods(1, 1)) @@ (s2 :> MCGoods(0, 1))

\* Desks are interchangeable, and so are tills.
MCSymmetry == Permutations({d1, d2}) \cup Permutations({c1, c2})
=============================================================================
