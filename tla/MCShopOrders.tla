--------------------------- MODULE MCShopOrders ---------------------------
(* Instances of ShopOrders for TLC. *)
EXTENDS ShopOrders, TLC

CONSTANTS buyer, admin, o1, o2

Coins(b, a) == buyer :> b @@ admin :> a

TwoByOne == o1 :> buyer @@ o2 :> buyer
TwoOneEach == o1 :> 1 @@ o2 :> 1
OneTwo == o1 :> 1 @@ o2 :> 2

Scarce == [stock |-> 3, price |-> 1, onSale |-> TRUE, maxPerUser |-> 2]
Plenty == [stock |-> 2, price |-> 1, onSale |-> TRUE, maxPerUser |-> 0]

Restocks == {Unlimited, 1}

Rich == Coins(3, 1)
Poor == Coins(1, 0)
=============================================================================
