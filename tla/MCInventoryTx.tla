---------------------------- MODULE MCInventoryTx ----------------------------
(* Instances of InventoryTx for TLC. *)
EXTENDS InventoryTx

CONSTANTS o1, o2, i1, i2, apple, pear, plum

Line(p, q) == [product |-> p, quantity |-> q, unitPrice |-> 1]

(* The same two products in both orders, two lines of one product, an      *)
(* unknown product after one that is locked, and an invalid line.          *)
ApplePear == <<Line(apple, 1), Line(pear, 1)>>
PearApple == <<Line(pear, 1), Line(apple, 1)>>
TwoApples == <<Line(apple, 1), Line(apple, 1)>>
PearPlum  == <<Line(pear, 1), Line(plum, 1)>>
Negative  == <<Line(apple, 0 - 1)>>

AllCarts == {ApplePear, PearApple, TwoApples, PearPlum, Negative}
TwoCarts == {ApplePear, PearApple, Negative}

(* None, as much as there is, one more, the greatest number of 4 bits, and *)
(* what wraps to 1.                                                        *)
Asks == [product : {apple, plum}, quantity : {0, 1, 2, 3, 7, 17}]

TwoUnits == [p \in Product |-> 2]
=============================================================================
