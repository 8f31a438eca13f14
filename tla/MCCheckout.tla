----------------------------- MODULE MCCheckout -----------------------------
(* Constant values for the runs of Checkout.                                *)
EXTENDS Checkout, TLC

CONSTANTS x, y, s1, s2

TwoShops == x :> s1 @@ y :> s2
OneShop == x :> s1

Scarce == x :> {1, 2}
ScarceTwo == x :> {1, 2} @@ y :> {1}

Symmetry == Permutations(Calls) \cup Permutations(Rows) \cup Permutations(Buyers)
                \cup Permutations(Checkouts)
=============================================================================
