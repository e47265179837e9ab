----------------------------- MODULE StockLookup -----------------------------
(***************************************************************************)
(* GET /stock/{productId}: what inventory-service answers from the         *)
(* committed rows of its ledger, without locking any.  The quantity asked  *)
(* for is a Go int; the answer is computed in int32, of Width bits here.   *)
(***************************************************************************)
EXTENDS StockLedger

CONSTANT Width      \* bits of the narrow integers, 32 in the code

MaxNarrow == 2 ^ (Width - 1) - 1

(* The conversion int32(n) keeps the low bits. *)
Narrow(n) == LET low == n % (2 ^ Width) IN
             IF low <= MaxNarrow THEN low ELSE low - 2 ^ Width

Refused(status) == [status |-> status, available |-> FALSE, stockLevel |-> 0]

(* What is left of a product, and whether it is enough. *)
Found(product, enough) ==
    [status |-> 200, available |-> enough, stockLevel |-> Available(product)]

(* CheckStock that asks for a unit to spare. *)
CheckStockStrict(product, n) ==
    CASE n <= 0                             -> Refused(400)
      [] n > 0 /\ product \notin Product -> Refused(404)
      [] OTHER -> Found(product, Available(product) > Narrow(n))

(* CheckStock: 400 unless the quantity is positive, 404 for a product that *)
(* has no row.  What strconv.Atoi cannot read is a 400 too, and left out.  *)
CheckStock(product, n) ==
    CASE n <= 0                             -> Refused(400)
      [] n > 0 /\ product \notin Product -> Refused(404)
      [] OTHER -> Found(product, Available(product) >= Narrow(n))
=============================================================================
