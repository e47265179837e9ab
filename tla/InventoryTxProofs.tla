--------------------------- MODULE InventoryTxProofs ---------------------------
(***************************************************************************)
(* That the transactions of inventory-service amount to the single steps   *)
(* of StockLedger, for any number of sessions, orders, products and lines, *)
(* any stock, and statements that fail or deadlock anywhere; and that the  *)
(* lookup tells what they have committed.                                  *)
(*                                                                         *)
(* What a session has changed of a product's row is seen by nobody else,   *)
(* and nobody else changes that row before the session ends: it holds the  *)
(* lock.  So what SELECT ... FOR UPDATE found free is still free when the  *)
(* reserve commits, and what a release gives back is still held.           *)
(***************************************************************************)
EXTENDS InventoryTx, OrderItemsProofs

-----------------------------------------------------------------------------
(* Units in a list of rows. *)

(* Units, of any list of rows. *)
Share(list, p, i) == IF list[i].product = p THEN list[i].quantity ELSE 0
Counted(list, p, R) == SumFunctionOnSet([i \in R |-> Share(list, p, i)], R)

LEMMA UnitsAreCounted == \A o, p, R : Units(o, p, R) = Counted(rows[o], p, R)
BY DEF Units, Counted, Share, SumFunction

LEMMA RowsAreFinite ==
    ASSUME NEW list \in Seq(Row), NEW R \in SUBSET (DOMAIN list)
    PROVE  /\ IsFiniteSet(R)
           /\ \A i \in R : list[i] \in Row
           /\ \A i \in R : \A p : Share(list, p, i) \in Nat
<1>1. Len(list) \in Nat /\ DOMAIN list = 1..Len(list) /\ \A i \in DOMAIN list : list[i] \in Row
  BY LenProperties, ElementOfSeq
<1>2. IsFiniteSet(R)
  <2>1. IsFiniteSet(DOMAIN list)
    BY <1>1, FS_Interval
  <2> QED
    BY <2>1, FS_Subset
<1>3. \A i \in R : \A p : Share(list, p, i) \in Nat
  BY <1>1 DEF Share, Row
<1> QED
  BY <1>1, <1>2, <1>3

LEMMA CountedIsNat ==
    ASSUME NEW list \in Seq(Row), NEW R \in SUBSET (DOMAIN list), NEW p
    PROVE  /\ Counted(list, p, R) \in Nat
           /\ Counted(list, p, R) > 0 <=> \E i \in R : list[i].product = p
<1>1. PICK f : f = [i \in R |-> Share(list, p, i)]
  OBVIOUS
<1>2. \A i \in R : f[i] \in Nat /\ (f[i] > 0 <=> list[i].product = p)
  <2>1. \A i \in R : list[i].quantity \in Nat \ {0}
    BY RowsAreFinite DEF Row
  <2> QED
    BY <1>1, <2>1 DEF Share
<1> QED
  BY <1>1, <1>2, RowsAreFinite, SumOfNaturals DEF Counted

(* It is their products and quantities that count. *)
LEMMA CountedAlike ==
    ASSUME NEW list \in Seq(Row), NEW R \in SUBSET (DOMAIN list), NEW other, NEW p,
           \A i \in R : /\ other[i].product = list[i].product
                        /\ other[i].quantity = list[i].quantity
    PROVE  Counted(other, p, R) = Counted(list, p, R)
<1>1. PICK f, g : f = [i \in R |-> Share(list, p, i)] /\ g = [i \in R |-> Share(other, p, i)]
  OBVIOUS
<1>2. \A i \in R : f[i] = g[i] /\ f[i] \in Int
  <2>1. \A i \in R : Share(list, p, i) \in Nat
    BY RowsAreFinite
  <2> QED
    BY <1>1, <2>1 DEF Share
<1> QED
  BY <1>1, <1>2, RowsAreFinite, SumSame DEF Counted

LEMMA CountedTogether ==
    ASSUME NEW list \in Seq(Row), NEW R \in SUBSET (DOMAIN list), NEW Q \in SUBSET (DOMAIN list),
           R \cap Q = {}, NEW p
    PROVE  Counted(list, p, R \cup Q) = Counted(list, p, R) + Counted(list, p, Q)
<1>1. PICK f : f = [i \in R \cup Q |-> Share(list, p, i)]
  OBVIOUS
<1>2. PICK g, h : g = [i \in R |-> Share(list, p, i)] /\ h = [i \in Q |-> Share(list, p, i)]
  OBVIOUS
<1>3. /\ \A i \in R : g[i] = f[i] /\ g[i] \in Int
      /\ \A i \in Q : h[i] = f[i] /\ h[i] \in Int
      /\ \A i \in R \cup Q : f[i] \in Int
  <2>1. \A i \in R \cup Q : Share(list, p, i) \in Nat
    BY RowsAreFinite
  <2> QED
    BY <1>1, <1>2, <2>1
<1>4. IsFiniteSet(R) /\ IsFiniteSet(Q)
  BY RowsAreFinite
<1>5. SumFunctionOnSet(f, R \cup Q) = SumFunctionOnSet(f, R) + SumFunctionOnSet(f, Q)
  BY <1>3, <1>4, SumOfUnion
<1>6. SumFunctionOnSet(g, R) = SumFunctionOnSet(f, R)
  BY <1>3, <1>4, SumSame
<1>7. SumFunctionOnSet(h, Q) = SumFunctionOnSet(f, Q)
  BY <1>3, <1>4, SumSame
<1> QED
  BY <1>1, <1>2, <1>5, <1>6, <1>7 DEF Counted

(* The same numbers, a few places further on. *)
LEMMA SumShifted ==
    ASSUME NEW m \in Nat, NEW n \in Nat, NEW f, NEW g,
           \A i \in 1..m : f[i] \in Int /\ g[n + i] = f[i]
    PROVE  SumFunctionOnSet(g, (n + 1)..(n + m)) = SumFunctionOnSet(f, 1..m)
<1> DEFINE Shifted(T) == { n + i : i \in T }
<1>1. PICK A : A = { T \in SUBSET (1..m) :
                       SumFunctionOnSet(g, Shifted(T)) = SumFunctionOnSet(f, T) }
  OBVIOUS
<1>2. ASSUME NEW T \in SUBSET (1..m), NEW x \in 1..m, T \in A, x \notin T
      PROVE  T \cup {x} \in A
  <2>1. IsFiniteSet(T) /\ IsFiniteSet(Shifted(T))
    <3>1. Shifted(T) \subseteq (n + 1)..(n + m)
      OBVIOUS
    <3>2. IsFiniteSet(1..m) /\ IsFiniteSet((n + 1)..(n + m))
      BY FS_Interval
    <3> HIDE DEF Shifted
    <3> QED
      BY <3>1, <3>2, FS_Subset
  <2>2. n + x \notin Shifted(T)
    BY <1>2
  <2>3. SumFunctionOnSet(f, T \cup {x}) = SumFunctionOnSet(f, T) + f[x]
    BY <1>2, <2>1, SumWith
  <2>4. SumFunctionOnSet(g, Shifted(T) \cup {n + x}) = SumFunctionOnSet(g, Shifted(T)) + g[n + x]
    <3>1. \A y \in Shifted(T) \cup {n + x} : g[y] \in Int
      OBVIOUS
    <3> HIDE DEF Shifted
    <3> QED
      BY <2>1, <2>2, <3>1, SumWith
  <2>5. Shifted(T) \cup {n + x} = Shifted(T \cup {x})
    OBVIOUS
  <2> QED
    BY <1>1, <1>2, <2>3, <2>4, <2>5
<1>3. {} \in A
  <2>1. Shifted({}) = {}
    OBVIOUS
  <2> QED
    BY <1>1, <2>1, SumOfNothing
<1>4. 1..m \in A
  <2>1. IsFiniteSet(1..m)
    BY FS_Interval
  <2> QED
    BY <1>2, <1>3, <2>1, OneByOne
<1>5. Shifted(1..m) = (n + 1)..(n + m)
  <2>1. \A y \in (n + 1)..(n + m) : y - n \in 1..m /\ y = n + (y - n)
    OBVIOUS
  <2> QED
    BY <2>1
<1> QED
  BY <1>1, <1>4, <1>5

-----------------------------------------------------------------------------
(* What the two commits do to a list of rows. *)

Having(list, status) == { i \in DOMAIN list : list[i].status = status }

LEMMA StatusIsHad == \A o, status : WithStatus(o, status) = Having(rows[o], status)
BY DEF WithStatus, Having

(* The rows that INSERT makes of the items of an order. *)
Inserts(items) == [i \in DOMAIN items |-> [product |-> items[i].product,
                                           quantity |-> items[i].quantity,
                                           status |-> "active"]]

LEMMA RowsInserted ==
    ASSUME NEW list \in Seq(Row), NEW items \in ValidCart, Wanted(items) \subseteq Product
    PROVE  /\ list \o Inserts(items) \in Seq(Row)
           /\ DOMAIN list \subseteq DOMAIN (list \o Inserts(items))
           /\ \A i \in DOMAIN list : (list \o Inserts(items))[i] = list[i]
           /\ Having(list, "active") \subseteq Having(list \o Inserts(items), "active")
           /\ Having(list \o Inserts(items), "released") = Having(list, "released")
           /\ \A p : /\ Counted(list \o Inserts(items), p, Having(list \o Inserts(items), "active"))
                          = Counted(list, p, Having(list, "active")) + Demand(items, p)
                     /\ Counted(list \o Inserts(items), p, Having(list, "released"))
                          = Counted(list, p, Having(list, "released"))
<1>1. PICK more, both, n, m : /\ more = Inserts(items) /\ both = list \o more
                              /\ n = Len(list) /\ m = Len(items)
  OBVIOUS
<1>2. /\ n \in Nat /\ m \in Nat /\ DOMAIN list = 1..n /\ DOMAIN items = 1..m
      /\ \A i \in 1..n : list[i] \in Row
      /\ \A i \in 1..m : items[i].quantity \in Nat \ {0} /\ items[i].product \in Product
  <2>1. n \in Nat /\ DOMAIN list = 1..n
    BY <1>1, LenProperties
  <2>2. \A i \in 1..n : list[i] \in Row
    BY <1>1, ElementOfSeq
  <2>3. m \in Nat /\ DOMAIN items = 1..m /\ \A i \in DOMAIN items : items[i].quantity \in Nat \ {0}
    BY <1>1, ItemsAreList
  <2>4. \A i \in 1..m : items[i].product \in Product
    BY <2>3 DEF Wanted
  <2> QED
    BY <2>1, <2>2, <2>3, <2>4
<1>3. more \in Seq(Row) /\ Len(more) = m
  <2>1. more \in [1..m -> Row]
    BY <1>1, <1>2 DEF Inserts, Row
  <2> QED
    BY <1>2, <2>1, LenProperties
<1>4. /\ both \in Seq(Row) /\ DOMAIN both = 1..(n + m)
      /\ \A i \in 1..n : both[i] = list[i]
      /\ \A i \in 1..m : both[n + i] = more[i]
  <2>1. /\ both \in Seq(Row) /\ Len(both) = n + m
        /\ \A i \in 1..(n + m) : both[i] = IF i <= n THEN list[i] ELSE more[i - n]
    <3>1. /\ list \o more \in Seq(Row) /\ Len(list \o more) = Len(list) + Len(more)
          /\ \A i \in 1..(Len(list) + Len(more)) :
                (list \o more)[i] = IF i <= Len(list) THEN list[i] ELSE more[i - Len(list)]
      BY <1>3, ConcatProperties
    <3> QED
      BY <1>1, <1>3, <3>1
  <2>2. DOMAIN both = 1..(n + m)
    BY <2>1, LenProperties
  <2>3. \A i \in 1..m : n + i \in 1..(n + m) /\ ~ n + i <= n /\ (n + i) - n = i
    BY <1>2
  <2>4. \A i \in 1..n : i \in 1..(n + m) /\ i <= n
    BY <1>2
  <2> QED
    BY <2>1, <2>2, <2>3, <2>4
<1>5. \A i \in (n + 1)..(n + m) : i - n \in 1..m /\ both[i].status = "active"
  <2>1. \A i \in (n + 1)..(n + m) : i - n \in 1..m /\ i = n + (i - n)
    BY <1>2
  <2>2. \A i \in 1..m : more[i].status = "active"
    BY <1>1, <1>2 DEF Inserts
  <2> QED
    BY <1>4, <2>1, <2>2
<1>6. Having(both, "active") = Having(list, "active") \cup ((n + 1)..(n + m))
  BY <1>2, <1>4, <1>5 DEF Having
<1>7. Having(both, "released") = Having(list, "released")
  BY <1>2, <1>4, <1>5 DEF Having
<1>8. ASSUME NEW p
      PROVE  Counted(both, p, (n + 1)..(n + m)) = Demand(items, p)
  <2>1. PICK f : f = [i \in DOMAIN items |-> IF items[i].product = p THEN items[i].quantity ELSE 0]
    OBVIOUS
  <2>2. PICK g : g = [i \in (n + 1)..(n + m) |-> Share(both, p, i)]
    OBVIOUS
  <2>3. Demand(items, p) = SumFunctionOnSet(f, DOMAIN items)
    BY <2>1 DEF Demand, SumFunction
  <2>4. Counted(both, p, (n + 1)..(n + m)) = SumFunctionOnSet(g, (n + 1)..(n + m))
    BY <2>2 DEF Counted
  <2>5. ASSUME NEW i \in 1..m
        PROVE  f[i] \in Int /\ g[n + i] = f[i]
    <3>1. n + i \in (n + 1)..(n + m)
      BY <1>2
    <3>2. both[n + i] = [product |-> items[i].product, quantity |-> items[i].quantity,
                         status |-> "active"]
      BY <1>1, <1>2, <1>4 DEF Inserts
    <3> QED
      BY <1>2, <2>1, <2>2, <3>1, <3>2 DEF Share
  <2>6. SumFunctionOnSet(g, (n + 1)..(n + m)) = SumFunctionOnSet(f, 1..m)
    BY <1>2, <2>5, SumShifted
  <2>7. SumFunctionOnSet(f, 1..m) = SumFunctionOnSet(f, DOMAIN items)
    BY <1>2
  <2> QED
    BY <2>3, <2>4, <2>6, <2>7
<1>9. ASSUME NEW p, NEW status
      PROVE  Counted(both, p, Having(list, status)) = Counted(list, p, Having(list, status))
  <2>1. \A i \in Having(list, status) : both[i] = list[i]
    BY <1>2, <1>4 DEF Having
  <2>2. Having(list, status) \in SUBSET (DOMAIN list)
    BY DEF Having
  <2> QED
    BY <2>1, <2>2, CountedAlike
<1>10. ASSUME NEW p
       PROVE  Counted(both, p, Having(both, "active"))
                = Counted(list, p, Having(list, "active")) + Demand(items, p)
  <2>1. /\ Having(list, "active") \in SUBSET (DOMAIN both)
        /\ (n + 1)..(n + m) \in SUBSET (DOMAIN both)
        /\ Having(list, "active") \cap ((n + 1)..(n + m)) = {}
    BY <1>2, <1>4 DEF Having
  <2>2. PICK old, tail : old = Having(list, "active") /\ tail = (n + 1)..(n + m)
    OBVIOUS
  <2>3. Counted(both, p, old \cup tail) = Counted(both, p, old) + Counted(both, p, tail)
    <3>1. old \in SUBSET (DOMAIN both) /\ tail \in SUBSET (DOMAIN both) /\ old \cap tail = {}
      BY <2>1, <2>2
    <3>2. both \in Seq(Row)
      BY <1>4
    <3> QED
      BY <3>1, <3>2, CountedTogether
  <2>4. /\ Counted(both, p, old) = Counted(list, p, old)
        /\ Counted(both, p, tail) = Demand(items, p)
    BY <1>8, <1>9, <2>2
  <2> QED
    BY <1>6, <2>2, <2>3, <2>4
<1>11. DOMAIN list \subseteq DOMAIN both /\ Having(list, "active") \subseteq Having(both, "active")
  BY <1>2, <1>4, <1>6
<1> QED
  BY <1>1, <1>2, <1>4, <1>7, <1>9, <1>10, <1>11

(* A list after UPDATE reservations for the rows in T. *)
Updates(list, T) == [i \in DOMAIN list |-> IF i \in T THEN [list[i] EXCEPT !.status = "released"]
                                           ELSE list[i]]

LEMMA UpdatesAreRows ==
    ASSUME NEW list \in Seq(Row), NEW T
    PROVE  /\ Updates(list, T) \in Seq(Row) /\ DOMAIN Updates(list, T) = DOMAIN list
           /\ \A i \in DOMAIN list :
                 /\ Updates(list, T)[i].product = list[i].product
                 /\ Updates(list, T)[i].quantity = list[i].quantity
                 /\ Updates(list, T)[i].status = IF i \in T THEN "released" ELSE list[i].status
<1>1. PICK new : new = Updates(list, T)
  OBVIOUS
<1>2. /\ Len(list) \in Nat /\ DOMAIN list = 1..Len(list)
      /\ \A i \in DOMAIN list : list[i] \in Row
  BY LenProperties, ElementOfSeq
<1>3. \A i \in DOMAIN list :
          /\ new[i] \in Row
          /\ new[i].product = list[i].product /\ new[i].quantity = list[i].quantity
          /\ new[i].status = IF i \in T THEN "released" ELSE list[i].status
  BY <1>1, <1>2 DEF Updates, Row
<1>4. new \in Seq(Row) /\ DOMAIN new = DOMAIN list
  <2>1. new \in [1..Len(list) -> Row]
    BY <1>1, <1>2, <1>3 DEF Updates
  <2> QED
    BY <1>2, <2>1
<1> QED
  BY <1>1, <1>3, <1>4

LEMMA RowsUpdated ==
    ASSUME NEW list \in Seq(Row), NEW T \in SUBSET Having(list, "active")
    PROVE  /\ Having(Updates(list, T), "active") = Having(list, "active") \ T
           /\ \A p : /\ Counted(Updates(list, T), p, Having(Updates(list, T), "active"))
                          = Counted(list, p, Having(list, "active")) - Counted(list, p, T)
                     /\ Counted(Updates(list, T), p, Having(Updates(list, T), "released"))
                          = Counted(list, p, Having(list, "released")) + Counted(list, p, T)
<1>1. PICK new : new = Updates(list, T)
  OBVIOUS
<1>2. /\ DOMAIN new = DOMAIN list
      /\ \A i \in DOMAIN list :
             /\ new[i].product = list[i].product /\ new[i].quantity = list[i].quantity
             /\ new[i].status = IF i \in T THEN "released" ELSE list[i].status
  BY <1>1, UpdatesAreRows
<1>3. /\ T \in SUBSET (DOMAIN list)
      /\ Having(list, "active") \in SUBSET (DOMAIN list)
      /\ Having(list, "released") \in SUBSET (DOMAIN list)
      /\ Having(list, "released") \cap T = {}
  BY DEF Having
<1>4. Having(new, "active") = Having(list, "active") \ T
  BY <1>2, <1>3 DEF Having
<1>5. Having(new, "released") = Having(list, "released") \cup T
  BY <1>2, <1>3 DEF Having
<1>6. \A p : \A R \in SUBSET (DOMAIN list) : Counted(new, p, R) = Counted(list, p, R)
  BY <1>2, CountedAlike
<1>7. ASSUME NEW p
      PROVE  /\ Counted(new, p, Having(new, "active"))
                  = Counted(list, p, Having(list, "active")) - Counted(list, p, T)
             /\ Counted(new, p, Having(new, "released"))
                  = Counted(list, p, Having(list, "released")) + Counted(list, p, T)
  <2>1. PICK rest : rest = Having(list, "active") \ T
    OBVIOUS
  <2>2. /\ rest \in SUBSET (DOMAIN list) /\ rest \cap T = {}
        /\ rest \cup T = Having(list, "active")
    BY <1>3, <2>1
  <2>3. Counted(list, p, rest \cup T) = Counted(list, p, rest) + Counted(list, p, T)
    BY <1>3, <2>2, CountedTogether
  <2>4. Counted(list, p, Having(list, "released") \cup T)
          = Counted(list, p, Having(list, "released")) + Counted(list, p, T)
    BY <1>3, CountedTogether
  <2>5. Counted(list, p, rest) \in Nat /\ Counted(list, p, T) \in Nat
    BY <1>3, <2>2, CountedIsNat
  <2>6. /\ Counted(new, p, rest) = Counted(list, p, rest)
        /\ Counted(new, p, Having(list, "released") \cup T)
             = Counted(list, p, Having(list, "released") \cup T)
    BY <1>3, <1>6, <2>2
  <2>7. Counted(list, p, Having(list, "active")) = Counted(list, p, rest) + Counted(list, p, T)
    BY <2>2, <2>3
  <2>8. Counted(new, p, Having(new, "active")) = Counted(list, p, rest)
    BY <1>4, <2>1, <2>6
  <2>9. Counted(list, p, rest) = Counted(list, p, Having(list, "active")) - Counted(list, p, T)
    BY <2>5, <2>7
  <2>10. Counted(new, p, Having(new, "released"))
           = Counted(list, p, Having(list, "released")) + Counted(list, p, T)
    BY <1>5, <2>4, <2>6
  <2> QED
    BY <2>8, <2>9, <2>10
<1> QED
  BY <1>1, <1>4, <1>7

-----------------------------------------------------------------------------
(* The products a release gives back, in some order. *)

LEMMA EachOnce ==
    ASSUME NEW S, IsFiniteSet(S), NEW todo \in SetToSeqs(S)
    PROVE  /\ todo \in Seq(S) /\ Len(todo) \in Nat /\ DOMAIN todo = 1..Len(todo)
           /\ \A i, j \in DOMAIN todo : todo[i] = todo[j] => i = j
           /\ \A x \in S : \E i \in DOMAIN todo : todo[i] = x
<1>1. PICK n : n = Cardinality(S)
  OBVIOUS
<1>2. n \in Nat
  BY <1>1, FS_CardinalityType
<1>3. todo \in [1..n -> S] /\ \A i, j \in 1..n : i # j => todo[i] # todo[j]
  BY <1>1 DEF SetToSeqs
<1>4. todo \in Seq(S) /\ Len(todo) \in Nat /\ DOMAIN todo = 1..Len(todo) /\ DOMAIN todo = 1..n
  <2>1. todo \in Seq(S)
    BY <1>2, <1>3
  <2> QED
    BY <1>3, <2>1, LenProperties
<1>5. todo \in Injection(1..n, S)
  BY <1>3 DEF Injection, IsInjective
<1>6. Cardinality(1..n) = Cardinality(S)
  <2>1. Cardinality(1..n) = IF 1 > n THEN 0 ELSE n - 1 + 1
    BY <1>2, FS_Interval
  <2> QED
    BY <1>1, <1>2, <2>1
<1>7. todo \in Surjection(1..n, S)
  BY <1>5, <1>6, FS_Injection
<1> QED
  BY <1>3, <1>4, <1>7 DEF Surjection

(* What LockRows finds to give back for the rows in R. *)
GivenBack(list, R) == { [product |-> p, quantity |-> Counted(list, p, R)] :
                            p \in { list[i].product : i \in R } }

LEMMA FewGivenBack ==
    ASSUME NEW list \in Seq(Row), NEW R \in SUBSET (DOMAIN list)
    PROVE  IsFiniteSet(GivenBack(list, R)) /\ GivenBack(list, R) \subseteq [product : Product, quantity : Nat]
<1>1. PICK f : f = [i \in R |-> [product |-> list[i].product,
                                 quantity |-> Counted(list, list[i].product, R)]]
  OBVIOUS
<1>2. f \in Surjection(R, GivenBack(list, R))
  BY <1>1 DEF Surjection, GivenBack
<1>3. IsFiniteSet(R) /\ \A i \in R : list[i].product \in Product
  BY RowsAreFinite DEF Row
<1>4. IsFiniteSet(GivenBack(list, R))
  BY <1>2, <1>3, FS_Surjection
<1>5. \A p : Counted(list, p, R) \in Nat
  BY CountedIsNat
<1> QED
  BY <1>3, <1>4, <1>5 DEF GivenBack

-----------------------------------------------------------------------------
(* Types. *)

(* What a statement may be about: an item, or a product to give back. *)
Return == [product : Product, quantity : Nat]
Lines == (UNION { Range(items) : items \in ValidCart }) \cup Return

TxRecord == [pc : {"reserve", "rows", "release"}, order : Order, todo : Seq(Lines),
             taken : SUBSET Nat, delta : [Product -> Int]]

(* A reserve has done the items of its order up to some place. *)
ItemsLeft(items, r) ==
    LET done == Len(items) - Len(r.todo) IN
      /\ done \in Nat
      /\ \A i \in 1..Len(r.todo) : r.todo[i] = items[done + i]
      /\ \A i \in 1..done : items[i].product \in Product

TodoFits(items, r) == /\ r.pc = "reserve" => ItemsLeft(items, r)
                      /\ r.pc = "release" => r.todo \in Seq(Return)

Typed ==
    /\ stock \in [Product -> Int]
    /\ rows \in [Order -> Seq(Row)]
    /\ stockLock \in [Product -> Session \cup {NoSession}]
    /\ rowsLock \in [Order -> Session \cup {NoSession}]
    /\ cart \in [Order -> ValidCart]
    /\ calls \in [Order -> [reserve : 0..MaxReserves, release : 0..MaxReleases]]
    /\ tx \in [Session -> TxRecord \cup {NoTx}]
    /\ \A s \in Session : tx[s] \in TxRecord =>
          /\ tx[s].taken \subseteq DOMAIN rows[tx[s].order]
          /\ TodoFits(cart[tx[s].order], tx[s])

LEMMA LinesCount == \A line \in Lines : line.quantity \in Nat
<1>1. ASSUME NEW items \in ValidCart, NEW line \in Range(items)
      PROVE  line.quantity \in Nat
  BY ItemsAreList DEF Range
<1>2. \A line \in Return : line.quantity \in Nat
  BY DEF Return
<1> QED
  BY <1>1, <1>2 DEF Lines

LEMMA CartLines == \A items \in ValidCart : items \in Seq(Lines)
<1> SUFFICES ASSUME NEW items \in ValidCart PROVE items \in Seq(Lines)
  OBVIOUS
<1>1. Len(items) \in Nat /\ DOMAIN items = 1..Len(items) /\ items \in Seq(Range(items))
  BY ItemsAreList
<1>2. Range(items) \subseteq Lines
  BY DEF Lines
<1> QED
  BY <1>1, <1>2

(* A session in a transaction. *)
LEMMA InTx ==
    ASSUME Typed, NEW s \in Session, tx[s].pc # "none"
    PROVE  /\ tx[s] \in TxRecord /\ tx[s] # NoTx
           /\ rows[tx[s].order] \in Seq(Row)
           /\ tx[s].taken \in SUBSET (DOMAIN rows[tx[s].order])
           /\ cart[tx[s].order] \in ValidCart
           /\ tx[s].todo # <<>> => Target(s) \in Lines /\ Target(s).quantity \in Nat
           /\ tx[s].pc = "release" /\ tx[s].todo # <<>> => Target(s).product \in Product
<1>1. tx[s] \in TxRecord /\ tx[s] # NoTx
  BY DEF Typed, NoTx, TxRecord
<1>2. ASSUME tx[s].todo # <<>>
      PROVE  Target(s) \in Lines /\ Target(s).quantity \in Nat
  <2>1. tx[s].todo \in Seq(Lines)
    BY <1>1 DEF TxRecord
  <2>2. tx[s].todo[1] \in Lines
    BY <1>2, <2>1, EmptySeq, LenProperties, ElementOfSeq
  <2> QED
    BY <2>2, LinesCount DEF Target
<1>3. rows[tx[s].order] \in Seq(Row) /\ cart[tx[s].order] \in ValidCart
  BY <1>1 DEF Typed, TxRecord
<1>4. tx[s].taken \in SUBSET (DOMAIN rows[tx[s].order])
  BY <1>1 DEF Typed
<1>5. ASSUME tx[s].todo # <<>>, tx[s].pc = "release"
      PROVE  Target(s).product \in Product
  <2>1. tx[s].todo \in Seq(Return)
    BY <1>1, <1>5 DEF Typed, TodoFits
  <2>2. tx[s].todo[1] \in Return
    BY <1>5, <2>1, EmptySeq, LenProperties, ElementOfSeq
  <2> QED
    BY <2>2 DEF Target, Return
<1> QED
  BY <1>1, <1>2, <1>3, <1>4, <1>5

(* A transaction begins, writes or ends, and the others go on as they are. *)
LEMMA Begun ==
    ASSUME Typed, NEW s \in Session, NEW o \in Order, NEW pc \in {"reserve", "rows", "release"},
           NEW todo \in Seq(Lines), NEW taken \in SUBSET (DOMAIN rows[o]), Begin(s, pc, o, todo, taken)
    PROVE  /\ tx' \in [Session -> TxRecord \cup {NoTx}]
           /\ tx'[s] = [pc |-> pc, order |-> o, todo |-> todo, taken |-> taken,
                        delta |-> [p \in Product |-> 0]]
           /\ tx[s].pc = "none"
           /\ tx'[s] \in TxRecord
           /\ \A t \in Session \ {s} : tx'[t] = tx[t]
<1>1. PICK r : r = [pc |-> pc, order |-> o, todo |-> todo, taken |-> taken,
                    delta |-> [p \in Product |-> 0]]
  OBVIOUS
<1>2. tx' = [tx EXCEPT ![s] = r] /\ tx[s].pc = "none"
  BY <1>1 DEF Begin, NoTx
<1>3. DOMAIN rows[o] \subseteq Nat
  <2>1. rows[o] \in Seq(Row)
    BY DEF Typed
  <2> QED
    BY <2>1, LenProperties
<1>4. r \in TxRecord
  BY <1>1, <1>3 DEF TxRecord
<1> QED
  BY <1>1, <1>2, <1>4 DEF Typed

LEMMA Wrote ==
    ASSUME Typed, NEW s \in Session, tx[s].pc # "none", tx[s].todo # <<>>,
           NEW change \in Int, Write(s, change)
    PROVE  /\ tx' \in [Session -> TxRecord \cup {NoTx}]
           /\ tx'[s] \in TxRecord
           /\ tx'[s].pc = tx[s].pc /\ tx'[s].order = tx[s].order /\ tx'[s].taken = tx[s].taken
           /\ tx'[s].todo = Tail(tx[s].todo)
           /\ Len(tx'[s].todo) \in Nat /\ Len(tx[s].todo) = Len(tx'[s].todo) + 1
           /\ \A i \in 1..Len(tx'[s].todo) : tx'[s].todo[i] = tx[s].todo[i + 1]
           /\ \A p \in Product : tx'[s].delta[p] = IF p = Target(s).product
                                                   THEN tx[s].delta[p] + change ELSE tx[s].delta[p]
           /\ \A t \in Session \ {s} : tx'[t] = tx[t]
<1>1. tx[s] \in TxRecord
  BY InTx
<1>2. PICK q, r : /\ q = Target(s).product
                  /\ r = [tx[s] EXCEPT !.delta[q] = @ + change, !.todo = Tail(@)]
  OBVIOUS
<1>3. tx' = [tx EXCEPT ![s] = r]
  BY <1>2 DEF Write, Typed
<1>4. /\ tx[s].todo \in Seq(Lines) /\ Tail(tx[s].todo) \in Seq(Lines)
      /\ Len(Tail(tx[s].todo)) = Len(tx[s].todo) - 1
      /\ \A i \in 1..Len(Tail(tx[s].todo)) : Tail(tx[s].todo)[i] = tx[s].todo[i + 1]
  <2>1. tx[s].todo \in Seq(Lines)
    BY <1>1 DEF TxRecord
  <2> QED
    BY <2>1, HeadTailProperties
<1>5. Len(Tail(tx[s].todo)) \in Nat /\ Len(tx[s].todo) = Len(Tail(tx[s].todo)) + 1
  BY <1>4, LenProperties
<1>6. /\ r.pc = tx[s].pc /\ r.order = tx[s].order /\ r.taken = tx[s].taken
      /\ r.todo = Tail(tx[s].todo)
      /\ r.delta = [tx[s].delta EXCEPT ![q] = @ + change]
  BY <1>1, <1>2 DEF TxRecord
<1>7. /\ r.delta \in [Product -> Int]
      /\ \A p \in Product : r.delta[p] = IF p = q THEN tx[s].delta[p] + change ELSE tx[s].delta[p]
  <2>1. PICK d : d = tx[s].delta
    OBVIOUS
  <2>2. d \in [Product -> Int]
    BY <1>1, <2>1 DEF TxRecord
  <2>3. r.delta = [d EXCEPT ![q] = @ + change]
    BY <1>6, <2>1
  <2>4. \A p \in Product : r.delta[p] = IF p = q THEN d[p] + change ELSE d[p]
    BY <2>2, <2>3
  <2>5. r.delta \in [Product -> Int]
    <3>1. r.delta = [p \in Product |-> IF p = q THEN d[p] + change ELSE d[p]]
      BY <2>2, <2>3
    <3>2. \A p \in Product : (IF p = q THEN d[p] + change ELSE d[p]) \in Int
      BY <2>2
    <3> QED
      BY <3>1, <3>2
  <2> QED
    BY <2>1, <2>4, <2>5
<1>8. r \in TxRecord
  <2>1. r = [pc |-> r.pc, order |-> r.order, todo |-> r.todo, taken |-> r.taken, delta |-> r.delta]
    BY <1>1, <1>2 DEF TxRecord
  <2>2. /\ r.pc \in {"reserve", "rows", "release"} /\ r.order \in Order
        /\ r.taken \in SUBSET Nat
    BY <1>1, <1>6 DEF TxRecord
  <2>3. r.todo \in Seq(Lines)
    BY <1>4, <1>6
  <2> QED
    BY <1>7, <2>1, <2>2, <2>3 DEF TxRecord
<1>9. tx'[s] = r /\ \A t \in Session \ {s} : tx'[t] = tx[t]
  BY <1>3 DEF Typed
<1>10. tx' \in [Session -> TxRecord \cup {NoTx}]
  BY <1>3, <1>8 DEF Typed
<1> QED
  BY <1>2, <1>4, <1>5, <1>6, <1>7, <1>8, <1>9, <1>10

LEMMA Ended ==
    ASSUME Typed, NEW s \in Session, End(s)
    PROVE  /\ tx' \in [Session -> TxRecord \cup {NoTx}]
           /\ tx'[s] = NoTx /\ tx'[s] \notin TxRecord
           /\ \A t \in Session \ {s} : tx'[t] = tx[t]
           /\ stockLock' \in [Product -> Session \cup {NoSession}]
           /\ rowsLock' \in [Order -> Session \cup {NoSession}]
           /\ \A p \in Product : stockLock'[p] = IF stockLock[p] = s THEN NoSession ELSE stockLock[p]
           /\ \A o \in Order : rowsLock'[o] = IF rowsLock[o] = s THEN NoSession ELSE rowsLock[o]
<1>1. NoTx \notin TxRecord
  BY DEF NoTx, TxRecord
<1>2. /\ tx' \in [Session -> TxRecord \cup {NoTx}]
      /\ tx'[s] = NoTx
      /\ \A t \in Session \ {s} : tx'[t] = tx[t]
  BY DEF Typed, End
<1>3. /\ stockLock' \in [Product -> Session \cup {NoSession}]
      /\ rowsLock' \in [Order -> Session \cup {NoSession}]
      /\ \A p \in Product : stockLock'[p] = IF stockLock[p] = s THEN NoSession ELSE stockLock[p]
      /\ \A o \in Order : rowsLock'[o] = IF rowsLock[o] = s THEN NoSession ELSE rowsLock[o]
  BY DEF Typed, End
<1> QED
  BY <1>1, <1>2, <1>3

(* Who is not disturbed keeps its type, if the rows it found are there. *)
LEMMA OthersTyped ==
    ASSUME Typed, cart' = cart, NEW s \in Session, \A t \in Session \ {s} : tx'[t] = tx[t],
           \A o \in Order : DOMAIN rows[o] \subseteq DOMAIN rows'[o]
    PROVE  \A t \in Session \ {s} : tx'[t] \in TxRecord =>
              /\ tx'[t].taken \subseteq DOMAIN rows'[tx'[t].order]
              /\ TodoFits(cart'[tx'[t].order], tx'[t])
<1> SUFFICES ASSUME NEW t \in Session \ {s}, tx'[t] \in TxRecord
             PROVE  /\ tx'[t].taken \subseteq DOMAIN rows'[tx'[t].order]
                    /\ TodoFits(cart'[tx'[t].order], tx'[t])
  OBVIOUS
<1>1. tx'[t] = tx[t] /\ tx[t] \in TxRecord /\ tx[t].order \in Order
  BY DEF TxRecord
<1>2. /\ tx[t].taken \subseteq DOMAIN rows[tx[t].order]
      /\ TodoFits(cart[tx[t].order], tx[t])
  BY <1>1 DEF Typed
<1> QED
  BY <1>1, <1>2

(* An item more has been reserved, or a product given back. *)
LEMMA WroteTyped ==
    ASSUME Typed, NEW s \in Session, tx[s].pc # "none", tx[s].todo # <<>>,
           tx[s].pc = "reserve" => Target(s).product \in Product,
           NEW change \in Int, LockAndWrite(s, change)
    PROVE  Typed'
<1>1. Write(s, change) /\ UNCHANGED <<stock, rows, rowsLock, cart, calls>>
  BY DEF LockAndWrite
<1>2. stockLock' \in [Product -> Session \cup {NoSession}]
  BY DEF LockAndWrite, Typed
<1>3. PICK r, r1 : r = tx[s] /\ r1 = tx'[s]
  OBVIOUS
<1>4. /\ tx' \in [Session -> TxRecord \cup {NoTx}]
      /\ r1 \in TxRecord
      /\ r1.pc = r.pc /\ r1.order = r.order /\ r1.taken = r.taken
      /\ Len(r1.todo) \in Nat /\ Len(r.todo) = Len(r1.todo) + 1
      /\ \A i \in 1..Len(r1.todo) : r1.todo[i] = r.todo[i + 1]
      /\ \A t \in Session \ {s} : tx'[t] = tx[t]
  BY <1>1, <1>3, Wrote
<1>5. r \in TxRecord
  BY <1>3, InTx
<1>6. ASSUME r.pc = "reserve"
      PROVE  ItemsLeft(cart[r.order], r1)
  <2>1. PICK items, done : items = cart[r.order] /\ done = Len(items) - Len(r.todo)
    OBVIOUS
  <2>2. ItemsLeft(items, r)
    BY <1>3, <1>5, <1>6, <2>1 DEF Typed, TodoFits
  <2>3. /\ done \in Nat
        /\ \A i \in 1..Len(r.todo) : r.todo[i] = items[done + i]
        /\ \A i \in 1..done : items[i].product \in Product
    BY <2>1, <2>2 DEF ItemsLeft
  <2>4. Len(items) \in Nat
    BY <1>3, <1>5, <2>1, InTx, ItemsAreList
  <2>5. Len(items) - Len(r1.todo) = done + 1
    BY <1>4, <2>1, <2>4
  <2>6. items[done + 1].product \in Product
    <3>1. 1 \in 1..Len(r.todo)
      BY <1>4
    <3>2. r.todo[1].product \in Product
      BY <1>3, <1>6 DEF Target
    <3> QED
      BY <2>3, <3>1, <3>2
  <2>7. \A i \in 1..(done + 1) : items[i].product \in Product
    <3>1. \A i \in 1..(done + 1) : i \in 1..done \/ i = done + 1
      BY <2>3
    <3> QED
      BY <2>3, <2>6, <3>1
  <2>8. \A i \in 1..Len(r1.todo) : r1.todo[i] = items[(done + 1) + i]
    <3>1. \A i \in 1..Len(r1.todo) : i + 1 \in 1..Len(r.todo) /\ done + (i + 1) = (done + 1) + i
      BY <1>4, <2>3
    <3> QED
      BY <1>4, <2>3, <3>1
  <2>9. ItemsLeft(items, r1)
    <3>1. done + 1 \in Nat
      BY <2>3
    <3> QED
      BY <2>5, <2>7, <2>8, <3>1 DEF ItemsLeft
  <2> QED
    BY <2>1, <2>9
<1>7. r.taken \subseteq DOMAIN rows[r.order] /\ TodoFits(cart[r.order], r1)
  <2>1. r.taken \subseteq DOMAIN rows[r.order]
    BY <1>3, <1>5 DEF Typed
  <2>2. ASSUME r.pc = "release"
        PROVE  r1.todo \in Seq(Return)
    <3>1. r.todo \in Seq(Return)
      BY <1>3, <1>5, <2>2 DEF Typed, TodoFits
    <3>2. r1.todo = Tail(r.todo) /\ r.todo # <<>>
      BY <1>1, <1>3, Wrote
    <3> QED
      BY <3>1, <3>2, HeadTailProperties
  <2> QED
    BY <1>4, <1>6, <2>1, <2>2 DEF TodoFits
<1>8. \A t \in Session : tx'[t] \in TxRecord =>
          /\ tx'[t].taken \subseteq DOMAIN rows'[tx'[t].order]
          /\ TodoFits(cart'[tx'[t].order], tx'[t])
  <2>1. \A t \in Session \ {s} : tx'[t] \in TxRecord =>
            /\ tx'[t].taken \subseteq DOMAIN rows'[tx'[t].order]
            /\ TodoFits(cart'[tx'[t].order], tx'[t])
    BY <1>1, <1>4, OthersTyped
  <2> QED
    BY <1>1, <1>3, <1>4, <1>7, <2>1
<1> QED
  BY <1>1, <1>2, <1>4, <1>8 DEF Typed

(* A reserve that has come to its end has known all the products. *)
LEMMA AllReserved ==
    ASSUME Typed, NEW s \in Session, tx[s].pc = "reserve", tx[s].todo = <<>>
    PROVE  Wanted(cart[tx[s].order]) \subseteq Product
<1>1. PICK items : items = cart[tx[s].order]
  OBVIOUS
<1>2. ItemsLeft(items, tx[s]) /\ items \in ValidCart
  BY <1>1, InTx DEF Typed, TodoFits
<1>3. Len(items) \in Nat /\ DOMAIN items = 1..Len(items) /\ Len(tx[s].todo) = 0
  BY <1>2, ItemsAreList
<1> QED
  BY <1>1, <1>2, <1>3 DEF ItemsLeft, Wanted

(* A transaction is over: all that is left is what the others go on with. *)
LEMMA EndedTyped ==
    ASSUME Typed, NEW s \in Session, End(s), stock' \in [Product -> Int],
           rows' \in [Order -> Seq(Row)], UNCHANGED <<cart, calls>>,
           \A o \in Order : DOMAIN rows[o] \subseteq DOMAIN rows'[o]
    PROVE  Typed'
<1>1. /\ tx' \in [Session -> TxRecord \cup {NoTx}]
      /\ tx'[s] \notin TxRecord
      /\ \A t \in Session \ {s} : tx'[t] = tx[t]
      /\ stockLock' \in [Product -> Session \cup {NoSession}]
      /\ rowsLock' \in [Order -> Session \cup {NoSession}]
  BY Ended
<1>2. \A t \in Session \ {s} : tx'[t] \in TxRecord =>
          /\ tx'[t].taken \subseteq DOMAIN rows'[tx'[t].order]
          /\ TodoFits(cart'[tx'[t].order], tx'[t])
  BY <1>1, OthersTyped
<1>3. cart' \in [Order -> ValidCart] /\
      calls' \in [Order -> [reserve : 0..MaxReserves, release : 0..MaxReleases]]
  BY DEF Typed
<1> QED
  BY <1>1, <1>2, <1>3 DEF Typed

(* What LockRows leaves to do, and what it has taken. *)
LEMMA Locked ==
    ASSUME Typed, NEW s \in Session, LockRows(s)
    PROVE  LET o    == tx[s].order
               list == rows[o]
               T    == tx[s].taken \cap Having(list, "active")
           IN  /\ tx[s] \in TxRecord /\ tx[s].pc = "rows"
               /\ T \in SUBSET (DOMAIN list)
               /\ T # {} => rowsLock[o] \in {NoSession, s} /\ rowsLock' = [rowsLock EXCEPT ![o] = s]
               /\ T = {} => rowsLock' = rowsLock
               /\ tx' \in [Session -> TxRecord \cup {NoTx}]
               /\ tx'[s] \in TxRecord
               /\ tx'[s].pc = "release" /\ tx'[s].order = o /\ tx'[s].taken = T
               /\ tx'[s].delta = tx[s].delta
               /\ tx'[s].todo \in SetToSeqs(GivenBack(list, T))
               /\ tx'[s].todo \in Seq(Return)
               /\ \A t \in Session \ {s} : tx'[t] = tx[t]
<1>1. PICK r, o, list, T : /\ r = tx[s] /\ o = r.order /\ list = rows[o]
                           /\ T = r.taken \cap Having(list, "active")
  OBVIOUS
<1>2. /\ r \in TxRecord /\ r.pc = "rows" /\ o \in Order
      /\ list \in Seq(Row) /\ T \in SUBSET (DOMAIN list)
  BY <1>1, InTx DEF LockRows, Having, TxRecord
<1>3. StillActive(s) = T
  BY <1>1, StatusIsHad DEF StillActive
<1>4. { [product |-> p, quantity |-> Units(tx[s].order, p, StillActive(s))] :
            p \in { rows[tx[s].order][i].product : i \in StillActive(s) } }
        = GivenBack(list, T)
  <2>1. { [product |-> p, quantity |-> Units(tx[s].order, p, StillActive(s))] :
              p \in { rows[tx[s].order][i].product : i \in StillActive(s) } }
          = GivenBack(rows[tx[s].order], StillActive(s))
    BY UnitsAreCounted DEF GivenBack
  <2> QED
    BY <1>1, <1>3, <2>1
<1>5. PICK todo \in SetToSeqs(GivenBack(list, T)) :
          tx' = [tx EXCEPT ![s].pc = "release", ![s].taken = T, ![s].todo = todo]
  <2>1. PICK todo \in SetToSeqs({ [product |-> p, quantity |-> Units(tx[s].order, p, StillActive(s))] :
                                     p \in { rows[tx[s].order][i].product : i \in StillActive(s) } }) :
            tx' = [tx EXCEPT ![s].pc = "release", ![s].taken = StillActive(s), ![s].todo = todo]
    BY DEF LockRows
  <2>2. todo \in SetToSeqs(GivenBack(list, T))
    BY <1>4, <2>1
  <2> QED
    BY <1>3, <2>1, <2>2
<1>6. /\ T # {} => rowsLock[o] \in {NoSession, s}
      /\ rowsLock' = IF T = {} THEN rowsLock ELSE [rowsLock EXCEPT ![o] = s]
  BY <1>1, <1>3 DEF LockRows
<1>7. PICK r1 : r1 = [r EXCEPT !.pc = "release", !.taken = T, !.todo = todo]
  OBVIOUS
<1>8. /\ r1.pc = "release" /\ r1.order = o /\ r1.taken = T /\ r1.todo = todo /\ r1.delta = r.delta
      /\ r1 = [pc |-> r1.pc, order |-> r1.order, todo |-> r1.todo, taken |-> r1.taken,
               delta |-> r1.delta]
  BY <1>1, <1>2, <1>7 DEF TxRecord
<1>9. todo \in Seq(Lines) /\ todo \in Seq(Return)
  <2>1. IsFiniteSet(GivenBack(list, T)) /\ GivenBack(list, T) \subseteq Return
    BY <1>2, FewGivenBack DEF Return
  <2>2. todo \in Seq(GivenBack(list, T)) /\ DOMAIN todo = 1..Len(todo) /\ Len(todo) \in Nat
    BY <2>1, EachOnce
  <2>3. todo \in Seq(Return)
    BY <2>1, <2>2
  <2>4. Return \subseteq Lines
    BY DEF Lines
  <2>5. todo \in Seq(Lines)
    BY <2>2, <2>3, <2>4
  <2> QED
    BY <2>3, <2>5
<1>10. r1 \in TxRecord
  <2>1. r1.order \in Order /\ r1.delta \in [Product -> Int] /\ r1.todo \in Seq(Lines)
    BY <1>2, <1>8, <1>9 DEF TxRecord
  <2>2. r1.taken \in SUBSET Nat
    <3>1. DOMAIN list \subseteq Nat
      BY <1>2, LenProperties
    <3> QED
      BY <1>2, <1>8, <3>1
  <2> QED
    BY <1>8, <2>1, <2>2 DEF TxRecord
<1>11. tx' = [tx EXCEPT ![s] = r1]
  BY <1>1, <1>5, <1>7 DEF Typed
<1>12. /\ tx' \in [Session -> TxRecord \cup {NoTx}]
       /\ tx'[s] = r1 /\ \A t \in Session \ {s} : tx'[t] = tx[t]
  BY <1>10, <1>11 DEF Typed
<1> QED
  BY <1>1, <1>2, <1>5, <1>6, <1>8, <1>9, <1>10, <1>12

LEMMA TypedStep ==
    ASSUME Typed, [TxNext]_txVars
    PROVE  Typed'
<1>1. ASSUME NEW s \in Session, NEW o \in Order, BeginReserve(s, o)
      PROVE  Typed'
  <2>1. Begin(s, "reserve", o, cart[o], {}) /\ cart[o] \in ValidCart /\ cart[o] \in Seq(Lines)
    BY <1>1, CartLines DEF BeginReserve, Typed
  <2>2. UNCHANGED <<stock, rows, stockLock, rowsLock, cart>>
    BY <2>1 DEF Begin
  <2>3. /\ tx' \in [Session -> TxRecord \cup {NoTx}]
        /\ tx'[s] = [pc |-> "reserve", order |-> o, todo |-> cart[o], taken |-> {},
                     delta |-> [p \in Product |-> 0]]
        /\ \A t \in Session \ {s} : tx'[t] = tx[t]
    <3>1. {} \in SUBSET (DOMAIN rows[o]) /\ "reserve" \in {"reserve", "rows", "release"}
      OBVIOUS
    <3> QED
      BY <2>1, <3>1, Begun
  <2>4. TodoFits(cart[o], tx'[s])
    <3>1. Len(cart[o]) \in Nat /\ tx'[s].todo = cart[o]
      BY <2>1, <2>3, ItemsAreList
    <3>2. Len(cart[o]) - Len(tx'[s].todo) = 0
      BY <3>1
    <3> QED
      BY <2>3, <3>1, <3>2 DEF ItemsLeft, TodoFits
  <2>5. \A t \in Session \ {s} : tx'[t] \in TxRecord =>
            /\ tx'[t].taken \subseteq DOMAIN rows'[tx'[t].order]
            /\ TodoFits(cart'[tx'[t].order], tx'[t])
    BY <2>2, <2>3, OthersTyped
  <2>6. tx'[s].order = o /\ tx'[s].taken = {}
    BY <2>3
  <2>7. \A t \in Session : tx'[t] \in TxRecord =>
            /\ tx'[t].taken \subseteq DOMAIN rows'[tx'[t].order]
            /\ TodoFits(cart'[tx'[t].order], tx'[t])
    BY <2>2, <2>4, <2>5, <2>6
  <2>8. calls' \in [Order -> [reserve : 0..MaxReserves, release : 0..MaxReleases]]
    <3>1. PICK c, d : c = calls[o] /\ d = [c EXCEPT !.reserve = @ + 1]
      OBVIOUS
    <3>2. c \in [reserve : 0..MaxReserves, release : 0..MaxReleases] /\ c.reserve < MaxReserves
      BY <1>1, <3>1 DEF BeginReserve, Typed
    <3>3. c.reserve + 1 \in 0..MaxReserves
      BY <3>2, TxAssumption
    <3>4. d \in [reserve : 0..MaxReserves, release : 0..MaxReleases]
      BY <3>1, <3>2, <3>3
    <3>5. calls' = [calls EXCEPT ![o] = d]
      BY <1>1, <3>1 DEF BeginReserve, Typed
    <3> QED
      BY <3>4, <3>5 DEF Typed
  <2> QED
    BY <2>2, <2>3, <2>7, <2>8 DEF Typed
<1>2. ASSUME NEW s \in Session, NEW o \in Order, BeginRelease(s, o)
      PROVE  Typed'
  <2>1. Begin(s, "rows", o, <<>>, WithStatus(o, "active")) /\ <<>> \in Seq(Lines)
    BY <1>2 DEF BeginRelease
  <2>2. UNCHANGED <<stock, rows, stockLock, rowsLock, cart>>
    BY <2>1 DEF Begin
  <2>3. WithStatus(o, "active") \in SUBSET (DOMAIN rows[o])
    BY DEF WithStatus
  <2>4. /\ tx' \in [Session -> TxRecord \cup {NoTx}]
        /\ tx'[s] = [pc |-> "rows", order |-> o, todo |-> <<>>, taken |-> WithStatus(o, "active"),
                     delta |-> [p \in Product |-> 0]]
        /\ \A t \in Session \ {s} : tx'[t] = tx[t]
    BY <2>1, <2>3, Begun
  <2>5. \A t \in Session \ {s} : tx'[t] \in TxRecord =>
            /\ tx'[t].taken \subseteq DOMAIN rows'[tx'[t].order]
            /\ TodoFits(cart'[tx'[t].order], tx'[t])
    BY <2>2, <2>4, OthersTyped
  <2>6. calls' \in [Order -> [reserve : 0..MaxReserves, release : 0..MaxReleases]]
    <3>1. PICK c, d : c = calls[o] /\ d = [c EXCEPT !.release = @ + 1]
      OBVIOUS
    <3>2. c \in [reserve : 0..MaxReserves, release : 0..MaxReleases] /\ c.release < MaxReleases
      BY <1>2, <3>1 DEF BeginRelease, Typed
    <3>3. c.release + 1 \in 0..MaxReleases
      BY <3>2, TxAssumption
    <3>4. d \in [reserve : 0..MaxReserves, release : 0..MaxReleases]
      BY <3>1, <3>2, <3>3
    <3>5. calls' = [calls EXCEPT ![o] = d]
      BY <1>2, <3>1 DEF BeginRelease, Typed
    <3> QED
      BY <3>4, <3>5 DEF Typed
  <2> QED
    BY <2>2, <2>3, <2>4, <2>5, <2>6 DEF Typed, TodoFits
<1>3. ASSUME NEW s \in Session, ReserveItem(s)
      PROVE  Typed'
  <2>1. /\ tx[s].pc = "reserve" /\ tx[s].todo # <<>> /\ Target(s).product \in Product
        /\ LockAndWrite(s, Target(s).quantity)
    BY <1>3 DEF ReserveItem
  <2>2. Target(s).quantity \in Int
    <3>1. tx[s].pc # "none" /\ tx[s].todo # <<>>
      BY <2>1
    <3>2. Target(s).quantity \in Nat
      BY <3>1, InTx
    <3> QED
      BY <3>2
  <2> QED
    BY <2>1, <2>2, WroteTyped
<1>4. ASSUME NEW s \in Session, Rollback(s)
      PROVE  Typed'
  <2>1. End(s) /\ UNCHANGED <<stock, rows, cart, calls>>
    BY <1>4 DEF Rollback
  <2>2. /\ stock' \in [Product -> Int] /\ rows' \in [Order -> Seq(Row)]
        /\ \A o \in Order : DOMAIN rows[o] \subseteq DOMAIN rows'[o]
    BY <2>1 DEF Typed
  <2> QED
    BY <2>1, <2>2, EndedTyped
<1>5. ASSUME NEW s \in Session, CommitReserve(s)
      PROVE  Typed'
  <2>1. PICK o : o = tx[s].order
    OBVIOUS
  <2>2. /\ tx[s] \in TxRecord /\ o \in Order /\ cart[o] \in ValidCart /\ rows[o] \in Seq(Row)
        /\ Wanted(cart[o]) \subseteq Product
    BY <1>5, <2>1, InTx, AllReserved DEF CommitReserve, TxRecord
  <2>3. rows' = [rows EXCEPT ![o] = @ \o Inserts(cart[o])]
    BY <1>5, <2>1 DEF CommitReserve, Inserts
  <2>4. /\ rows[o] \o Inserts(cart[o]) \in Seq(Row)
        /\ DOMAIN rows[o] \subseteq DOMAIN (rows[o] \o Inserts(cart[o]))
    BY <2>2, RowsInserted
  <2>5. /\ rows' \in [Order -> Seq(Row)]
        /\ \A q \in Order : DOMAIN rows[q] \subseteq DOMAIN rows'[q]
    BY <2>2, <2>3, <2>4 DEF Typed
  <2>6. stock' \in [Product -> Int]
    BY <1>5, <2>2 DEF CommitReserve, Typed, TxRecord
  <2> QED
    BY <1>5, <2>5, <2>6, EndedTyped DEF CommitReserve
<1>6. ASSUME NEW s \in Session, LockRows(s)
      PROVE  Typed'
  <2>1. UNCHANGED <<stock, rows, stockLock, cart, calls>>
    BY <1>6 DEF LockRows
  <2>2. /\ tx' \in [Session -> TxRecord \cup {NoTx}]
        /\ tx'[s].pc = "release" /\ tx'[s].order = tx[s].order
        /\ tx'[s].taken \in SUBSET (DOMAIN rows[tx[s].order])
        /\ tx'[s].todo \in Seq(Return)
        /\ \A t \in Session \ {s} : tx'[t] = tx[t]
    BY <1>6, Locked
  <2>3. rowsLock' \in [Order -> Session \cup {NoSession}]
    BY <1>6 DEF LockRows, Typed
  <2>4. \A t \in Session \ {s} : tx'[t] \in TxRecord =>
            /\ tx'[t].taken \subseteq DOMAIN rows'[tx'[t].order]
            /\ TodoFits(cart'[tx'[t].order], tx'[t])
    BY <2>1, <2>2, OthersTyped
  <2> QED
    BY <2>1, <2>2, <2>3, <2>4 DEF Typed, TodoFits
<1>7. ASSUME NEW s \in Session, GiveBack(s)
      PROVE  Typed'
  <2>1. PICK change : change = IF Target(s).quantity < Current(s) THEN 0 - Target(s).quantity
                               ELSE 0 - Current(s)
    OBVIOUS
  <2>2. tx[s].pc = "release" /\ tx[s].todo # <<>> /\ LockAndWrite(s, change)
    BY <1>7, <2>1 DEF GiveBack
  <2>3. tx[s] \in TxRecord /\ tx[s].todo \in Seq(Lines) /\ Target(s).quantity \in Nat
    BY <2>2, InTx DEF TxRecord
  <2>4. Target(s).product \in Product
    BY <2>2, InTx
  <2>5. change \in Int
    BY <2>1, <2>3, <2>4 DEF Current, Typed, TxRecord
  <2> QED
    BY <2>2, <2>5, WroteTyped
<1>8. ASSUME NEW s \in Session, CommitRelease(s)
      PROVE  Typed'
  <2>1. PICK o, T : o = tx[s].order /\ T = tx[s].taken
    OBVIOUS
  <2>2. tx[s] \in TxRecord /\ o \in Order /\ rows[o] \in Seq(Row)
    BY <1>8, <2>1, InTx DEF CommitRelease, TxRecord
  <2>3. rows' = [rows EXCEPT ![o] = Updates(rows[o], T)]
    BY <1>8, <2>1 DEF CommitRelease, Updates
  <2>4. Updates(rows[o], T) \in Seq(Row) /\ DOMAIN Updates(rows[o], T) = DOMAIN rows[o]
    BY <2>2, UpdatesAreRows
  <2>5. /\ rows' \in [Order -> Seq(Row)]
        /\ \A q \in Order : DOMAIN rows[q] \subseteq DOMAIN rows'[q]
    BY <2>2, <2>3, <2>4 DEF Typed
  <2>6. stock' \in [Product -> Int]
    BY <1>8, <2>2 DEF CommitRelease, Typed, TxRecord
  <2> QED
    BY <1>8, <2>5, <2>6, EndedTyped DEF CommitRelease
<1>9. ASSUME UNCHANGED txVars
      PROVE  Typed'
  BY <1>9 DEF Typed, txVars
<1> QED
  BY <1>1, <1>2, <1>3, <1>4, <1>5, <1>6, <1>7, <1>8, <1>9
     DEF TxNext, SessionStep, RefuseItem, DeadlockDetected, TxFail

LEMMA TypedInit == TxInit => Typed
<1> SUFFICES ASSUME TxInit PROVE Typed
  OBVIOUS
<1>1. rows \in [Order -> Seq(Row)]
  BY DEF TxInit
<1>2. calls \in [Order -> [reserve : 0..MaxReserves, release : 0..MaxReleases]]
  BY TxAssumption DEF TxInit
<1>3. tx \in [Session -> TxRecord \cup {NoTx}] /\ \A s \in Session : tx[s] \notin TxRecord
  BY DEF TxInit, NoTx, TxRecord
<1> QED
  BY <1>1, <1>2, <1>3 DEF TxInit, Carts, Typed

LEMMA AlwaysTyped == TxSpec => []Typed
<1> QED
  BY TypedInit, TypedStep, PTL DEF TxSpec

(* Tables, locks and transactions keep their types: no row is inserted for *)
(* a product that is not in stock_items or a quantity that is not          *)
(* positive, and a transaction's rows are rows of its order (db.go:60-98,  *)
(* 104-142).                                                               *)
THEOREM TxTypeCorrect == TxSpec => []TxTypeOK
<1>1. Typed => TxTypeOK
  <2> SUFFICES ASSUME Typed PROVE TxTypeOK
    OBVIOUS
  <2>1. \A s \in Session : tx[s] # NoTx =>
          /\ tx[s].pc \in {"reserve", "rows", "release"}
          /\ tx[s].taken \subseteq DOMAIN rows[tx[s].order]
          /\ tx[s].delta \in [Product -> Int]
    BY DEF Typed, TxRecord
  <2> QED
    BY <2>1 DEF Typed, TxTypeOK
<1> QED
  BY <1>1, AlwaysTyped, PTL

-----------------------------------------------------------------------------
(* What a transaction has written so far. *)

(* What the items of an order ask of product p, one by one. *)
Asks(items, p) == [i \in DOMAIN items |-> IF items[i].product = p THEN items[i].quantity ELSE 0]

LEMMA AsksAreNat ==
    ASSUME NEW items \in ValidCart, NEW p
    PROVE  /\ Demand(items, p) = SumFunctionOnSet(Asks(items, p), 1..Len(items))
           /\ Len(items) \in Nat
           /\ \A i \in 1..Len(items) : Asks(items, p)[i] \in Nat
<1>1. Len(items) \in Nat /\ DOMAIN items = 1..Len(items)
  BY ItemsAreList
<1>2. Demand(items, p) = SumFunctionOnSet(Asks(items, p), DOMAIN items)
  BY DEF Demand, Asks, SumFunction
<1>3. \A i \in DOMAIN items : Asks(items, p)[i] \in Nat
  BY ItemsAreList DEF Asks
<1> QED
  BY <1>1, <1>2, <1>3

(* A reserve has taken what the items done ask for, which is there. *)
ReservedSoFar(s) ==
    LET items == cart[tx[s].order]
        done  == Len(items) - Len(tx[s].todo)
    IN  \A p \in Product :
            /\ tx[s].delta[p] = SumFunctionOnSet(Asks(items, p), 1..done)
            /\ tx[s].delta[p] > 0 => stock[p] + tx[s].delta[p] <= StockLevel[p]

(* A release has locked its rows, which are active, and has given back     *)
(* what they hold of each product that is not yet to be done.              *)
ReleasedSoFar(s) ==
    LET list  == rows[tx[s].order]
        todo  == tx[s].todo
        taken == tx[s].taken
    IN  /\ taken # {} => rowsLock[tx[s].order] = s
        /\ taken \subseteq Having(list, "active")
        /\ \A i \in DOMAIN todo : todo[i].quantity = Counted(list, todo[i].product, taken)
        /\ \A i, j \in DOMAIN todo : todo[i].product = todo[j].product => i = j
        /\ \A p \in Product :
              tx[s].delta[p] = IF \E i \in DOMAIN todo : todo[i].product = p THEN 0
                               ELSE 0 - Counted(list, p, taken)

(* What is not committed is locked. *)
WroteLocked(s) == \A p \in Product : tx[s].delta[p] # 0 => stockLock[p] = s

SoFar(s) ==
    /\ WroteLocked(s)
    /\ tx[s].pc = "reserve" => ReservedSoFar(s)
    /\ tx[s].pc = "rows" => \A p \in Product : tx[s].delta[p] = 0
    /\ tx[s].pc = "release" => ReleasedSoFar(s)

AllSoFar == \A s \in Session : tx[s] \in TxRecord => SoFar(s)

(* Whoever is not disturbed has written what it had. *)
LEMMA OthersSoFar ==
    ASSUME Typed, NEW t \in Session, tx[t] \in TxRecord, SoFar(t), tx'[t] = tx[t], cart' = cart,
           \A p \in Product : stockLock[p] = t => stockLock'[p] = t,
           \A p \in Product : tx[t].delta[p] # 0 => stock'[p] = stock[p],
           \A i \in DOMAIN rows[tx[t].order] :
              /\ rows'[tx[t].order][i].product = rows[tx[t].order][i].product
              /\ rows'[tx[t].order][i].quantity = rows[tx[t].order][i].quantity,
           tx[t].pc = "release" =>
              /\ tx[t].taken # {} => rowsLock'[tx[t].order] = t
              /\ tx[t].taken \subseteq Having(rows'[tx[t].order], "active")
    PROVE  SoFar(t)'
<1>1. WroteLocked(t)'
  BY DEF SoFar, WroteLocked
<1>2. ASSUME tx[t].pc = "reserve"
      PROVE  ReservedSoFar(t)'
  <2>1. PICK items, done : items = cart[tx[t].order] /\ done = Len(items) - Len(tx[t].todo)
    OBVIOUS
  <2>2. \A p \in Product :
            /\ tx[t].delta[p] = SumFunctionOnSet(Asks(items, p), 1..done)
            /\ tx[t].delta[p] > 0 => stock[p] + tx[t].delta[p] <= StockLevel[p]
    BY <1>2, <2>1 DEF SoFar, ReservedSoFar
  <2>3. \A p \in Product : tx[t].delta[p] > 0 => stock'[p] + tx[t].delta[p] <= StockLevel[p]
    <3>1. \A p \in Product : tx[t].delta[p] > 0 => tx[t].delta[p] # 0
      BY DEF TxRecord
    <3> QED
      BY <2>2, <3>1
  <2> QED
    BY <2>1, <2>2, <2>3 DEF ReservedSoFar
<1>3. ASSUME tx[t].pc = "release"
      PROVE  ReleasedSoFar(t)'
  <2>1. PICK o, list, list1, todo, taken, delta :
            /\ o = tx[t].order /\ list = rows[o] /\ list1 = rows'[o]
            /\ todo = tx[t].todo /\ taken = tx[t].taken /\ delta = tx[t].delta
    OBVIOUS
  <2>2. /\ taken \subseteq Having(list, "active")
        /\ \A i \in DOMAIN todo : todo[i].quantity = Counted(list, todo[i].product, taken)
        /\ \A i, j \in DOMAIN todo : todo[i].product = todo[j].product => i = j
        /\ \A p \in Product : delta[p] = IF \E i \in DOMAIN todo : todo[i].product = p THEN 0
                                         ELSE 0 - Counted(list, p, taken)
    BY <1>3, <2>1 DEF SoFar, ReleasedSoFar
  <2>3. \A p : Counted(list1, p, taken) = Counted(list, p, taken)
    <3>1. list \in Seq(Row) /\ taken \in SUBSET (DOMAIN list)
      BY <1>3, <2>1, InTx
    <3> QED
      BY <2>1, <3>1, CountedAlike
  <2>4. (taken # {} => rowsLock'[o] = t) /\ taken \subseteq Having(list1, "active")
    BY <1>3, <2>1
  <2>5. /\ \A i \in DOMAIN todo : todo[i].quantity = Counted(list1, todo[i].product, taken)
        /\ \A p \in Product : delta[p] = IF \E i \in DOMAIN todo : todo[i].product = p THEN 0
                                         ELSE 0 - Counted(list1, p, taken)
    BY <2>2, <2>3
  <2> QED
    BY <2>1, <2>2, <2>4, <2>5 DEF ReleasedSoFar
<1> QED
  BY <1>1, <1>2, <1>3 DEF SoFar

(* As long as rows and stock stay as they are, all that can disturb is the *)
(* loss of a lock.                                                         *)
LEMMA OthersUndisturbed ==
    ASSUME Typed, AllSoFar, NEW s \in Session, UNCHANGED <<stock, rows, cart>>,
           \A t \in Session \ {s} : tx'[t] = tx[t],
           \A p \in Product : stockLock[p] \in Session \ {s} => stockLock'[p] = stockLock[p],
           \A o \in Order : rowsLock[o] \in Session \ {s} => rowsLock'[o] = rowsLock[o]
    PROVE  \A t \in Session \ {s} : tx'[t] \in TxRecord => SoFar(t)'
<1> SUFFICES ASSUME NEW t \in Session \ {s}, tx'[t] \in TxRecord
             PROVE  SoFar(t)'
  OBVIOUS
<1>1. tx'[t] = tx[t] /\ tx[t] \in TxRecord /\ SoFar(t) /\ tx[t].order \in Order
  BY DEF AllSoFar, TxRecord
<1>2. \A p \in Product : stockLock[p] = t => stockLock'[p] = t
  OBVIOUS
<1>3. tx[t].pc = "release" => /\ tx[t].taken # {} => rowsLock'[tx[t].order] = t
                              /\ tx[t].taken \subseteq Having(rows'[tx[t].order], "active")
  BY <1>1 DEF SoFar, ReleasedSoFar
<1> QED
  BY <1>1, <1>2, <1>3, OthersSoFar

(* Nobody's lock is taken. *)
LEMMA LocksStay ==
    ASSUME Typed, NEW s \in Session, NEW change, LockAndWrite(s, change)
    PROVE  /\ \A p \in Product : stockLock[p] \in Session \ {s} => stockLock'[p] = stockLock[p]
           /\ \A p \in Product : stockLock[p] = s => stockLock'[p] = s
           /\ Target(s).product \in Product => stockLock'[Target(s).product] = s
           /\ UNCHANGED <<stock, rows, rowsLock, cart, calls>>
<1>1. /\ stockLock[Target(s).product] \in {NoSession, s}
      /\ stockLock' = [stockLock EXCEPT ![Target(s).product] = s]
      /\ UNCHANGED <<stock, rows, rowsLock, cart, calls>>
  BY DEF LockAndWrite, MayLock
<1> QED
  BY <1>1, TxAssumption DEF Typed

(* A reserve takes what there is, of a product it has locked. *)
LEMMA ReserveSoFar ==
    ASSUME Typed, NEW s \in Session, SoFar(s), ReserveItem(s)
    PROVE  SoFar(s)'
<1>1. PICK q, n, r, r1 : q = Target(s).product /\ n = Target(s).quantity /\ r = tx[s] /\ r1 = tx'[s]
  OBVIOUS
<1>2. /\ r.pc = "reserve" /\ r.todo # <<>> /\ q \in Product /\ LockAndWrite(s, n) /\ Write(s, n)
      /\ UNCHANGED <<stock, rows, cart>>
  BY <1>1 DEF ReserveItem, LockAndWrite
<1>3. r \in TxRecord /\ n \in Nat /\ cart[r.order] \in ValidCart
  <2>1. tx[s].pc # "none" /\ tx[s].todo # <<>>
    BY <1>1, <1>2
  <2> QED
    BY <1>1, <2>1, InTx
<1>4. n <= StockLevel[q] - (stock[q] + r.delta[q])
  BY <1>1, <1>2 DEF ReserveItem, Enough, Current
<1>5. /\ r1 \in TxRecord /\ r1.pc = r.pc /\ r1.order = r.order
      /\ Len(r1.todo) \in Nat /\ Len(r.todo) = Len(r1.todo) + 1
      /\ \A p \in Product : r1.delta[p] = IF p = q THEN r.delta[p] + n ELSE r.delta[p]
  <2>1. tx[s].pc # "none" /\ tx[s].todo # <<>> /\ n \in Int
    BY <1>1, <1>2, <1>3
  <2> QED
    BY <1>1, <1>2, <2>1, Wrote
<1>6. PICK items, done : items = cart[r.order] /\ done = Len(items) - Len(r.todo)
  OBVIOUS
<1>7. /\ done \in Nat /\ done + 1 \in 1..Len(items)
      /\ items[done + 1].product = q /\ items[done + 1].quantity = n
  <2>1. ItemsLeft(items, r)
    BY <1>1, <1>2, <1>3, <1>6 DEF Typed, TodoFits
  <2>2. done \in Nat /\ \A i \in 1..Len(r.todo) : r.todo[i] = items[done + i]
    BY <1>6, <2>1 DEF ItemsLeft
  <2>3. 1 \in 1..Len(r.todo)
    BY <1>5
  <2>4. r.todo[1] = items[done + 1]
    BY <2>2, <2>3
  <2>5. Len(items) \in Nat
    BY <1>3, <1>6, ItemsAreList
  <2>6. done + 1 \in 1..Len(items)
    <3>1. PICK k, m : k = Len(r1.todo) /\ m = Len(items)
      OBVIOUS
    <3>2. k \in Nat /\ m \in Nat /\ done = m - (k + 1) /\ done \in Nat
      BY <1>5, <1>6, <2>2, <2>5, <3>1
    <3>3. done + 1 \in 1..m
      BY <3>2
    <3> QED
      BY <3>1, <3>3
  <2> QED
    BY <1>1, <2>2, <2>4, <2>6 DEF Target
<1>8. \A p \in Product :
          /\ r.delta[p] = SumFunctionOnSet(Asks(items, p), 1..done)
          /\ r.delta[p] > 0 => stock[p] + r.delta[p] <= StockLevel[p]
  BY <1>1, <1>2, <1>6 DEF SoFar, ReservedSoFar
<1>9. ASSUME NEW p \in Product
      PROVE  /\ r1.delta[p] = SumFunctionOnSet(Asks(items, p), 1..(done + 1))
             /\ r1.delta[p] > 0 => stock[p] + r1.delta[p] <= StockLevel[p]
  <2>1. PICK f : f = Asks(items, p)
    OBVIOUS
  <2>2. f[done + 1] = IF p = q THEN n ELSE 0
    <3>1. done + 1 \in DOMAIN items
      BY <1>3, <1>6, <1>7, ItemsAreList
    <3> QED
      BY <1>7, <2>1, <3>1 DEF Asks
  <2>3. \A i \in 1..Len(items) : f[i] \in Int
    BY <1>3, <1>6, <2>1, AsksAreNat
  <2>4. /\ 1..(done + 1) = (1..done) \cup {done + 1} /\ done + 1 \notin 1..done
        /\ \A i \in (1..done) \cup {done + 1} : i \in 1..Len(items)
    BY <1>7
  <2>5. IsFiniteSet(1..done)
    BY <1>7, FS_Interval
  <2>6. SumFunctionOnSet(f, (1..done) \cup {done + 1}) = SumFunctionOnSet(f, 1..done) + f[done + 1]
    BY <2>3, <2>4, <2>5, SumWith
  <2>7. r.delta[p] = SumFunctionOnSet(f, 1..done) /\ r.delta[p] \in Int
    BY <1>3, <1>8, <2>1 DEF TxRecord
  <2>8. r1.delta[p] = SumFunctionOnSet(f, 1..(done + 1))
    <3>1. SumFunctionOnSet(f, 1..(done + 1)) = SumFunctionOnSet(f, 1..done) + f[done + 1]
      BY <2>4, <2>6
    <3>2. r1.delta[p] = r.delta[p] + f[done + 1]
      BY <1>3, <1>5, <2>2, <2>7
    <3> QED
      BY <2>7, <3>1, <3>2
  <2>9. stock[p] \in Int /\ StockLevel[p] \in Nat
    BY TxAssumption DEF Typed
  <2>10. r1.delta[p] > 0 => stock[p] + r1.delta[p] <= StockLevel[p]
    BY <1>3, <1>4, <1>5, <1>8, <2>7, <2>9
  <2> QED
    BY <2>1, <2>8, <2>10
<1>10. Len(items) - Len(r1.todo) = done + 1
  <2>1. Len(items) \in Nat
    BY <1>3, <1>6, ItemsAreList
  <2> QED
    BY <1>5, <1>6, <2>1
<1>11. ReservedSoFar(s)'
  <2>1. /\ cart'[tx'[s].order] = items /\ stock' = stock
        /\ Len(items) - Len(tx'[s].todo) = done + 1 /\ tx'[s].delta = r1.delta
    BY <1>1, <1>2, <1>5, <1>6, <1>10
  <2> QED
    BY <1>9, <2>1 DEF ReservedSoFar
<1>12. WroteLocked(s)'
  <2>1. /\ \A p \in Product : stockLock[p] = s => stockLock'[p] = s
        /\ stockLock'[q] = s
    BY <1>1, <1>2, LocksStay
  <2>2. \A p \in Product : r.delta[p] # 0 => stockLock[p] = s
    BY <1>1 DEF SoFar, WroteLocked
  <2> QED
    BY <1>1, <1>5, <2>1, <2>2 DEF WroteLocked
<1> QED
  BY <1>1, <1>2, <1>5, <1>11, <1>12 DEF SoFar

(* Rows are locked, and their products are still to be given back. *)
LEMMA LockSoFar ==
    ASSUME Typed, NEW s \in Session, SoFar(s), LockRows(s)
    PROVE  SoFar(s)'
<1>1. PICK r, r1, o, list, T, todo :
          /\ r = tx[s] /\ r1 = tx'[s] /\ o = r.order /\ list = rows[o]
          /\ T = r.taken \cap Having(list, "active") /\ todo = r1.todo
  OBVIOUS
<1>2. /\ r \in TxRecord /\ r.pc = "rows" /\ T \in SUBSET (DOMAIN list)
      /\ T # {} => rowsLock' = [rowsLock EXCEPT ![o] = s]
      /\ r1 \in TxRecord /\ r1.pc = "release" /\ r1.order = o /\ r1.taken = T
      /\ r1.delta = r.delta /\ todo \in SetToSeqs(GivenBack(list, T))
  BY <1>1, Locked
<1>3. list \in Seq(Row) /\ o \in Order
  BY <1>1, <1>2 DEF Typed, TxRecord
<1>4. UNCHANGED <<stock, rows, stockLock, cart>>
  BY DEF LockRows
<1>5. \A p \in Product : r.delta[p] = 0
  BY <1>1, <1>2 DEF SoFar
<1>6. /\ \A i \in DOMAIN todo : todo[i] \in GivenBack(list, T)
      /\ \A i, j \in DOMAIN todo : todo[i] = todo[j] => i = j
      /\ \A x \in GivenBack(list, T) : \E i \in DOMAIN todo : todo[i] = x
  <2>1. IsFiniteSet(GivenBack(list, T))
    BY <1>2, <1>3, FewGivenBack
  <2>2. todo \in Seq(GivenBack(list, T)) /\ DOMAIN todo = 1..Len(todo)
    BY <1>2, <2>1, EachOnce
  <2>3. \A i \in DOMAIN todo : todo[i] \in GivenBack(list, T)
    BY <2>2, ElementOfSeq
  <2> QED
    BY <1>2, <2>1, <2>3, EachOnce
<1>7. \A i \in DOMAIN todo : todo[i] = [product |-> todo[i].product,
                                        quantity |-> Counted(list, todo[i].product, T)]
  BY <1>6 DEF GivenBack
<1>8. \A i, j \in DOMAIN todo : todo[i].product = todo[j].product => i = j
  BY <1>6, <1>7
<1>9. ASSUME NEW p \in Product
      PROVE  r1.delta[p] = IF \E i \in DOMAIN todo : todo[i].product = p THEN 0
                           ELSE 0 - Counted(list, p, T)
  <2>1. ASSUME ~ \E i \in DOMAIN todo : todo[i].product = p
        PROVE  Counted(list, p, T) = 0
    <3>1. ~ \E i \in T : list[i].product = p
      <4> SUFFICES ASSUME NEW i \in T, list[i].product = p PROVE FALSE
        OBVIOUS
      <4>1. [product |-> p, quantity |-> Counted(list, p, T)] \in GivenBack(list, T)
        BY DEF GivenBack
      <4> QED
        BY <1>6, <2>1, <4>1
    <3> QED
      BY <1>2, <1>3, <3>1, CountedIsNat
  <2> QED
    BY <1>2, <1>5, <2>1
<1>10. (T # {} => rowsLock'[o] = s) /\ T \subseteq Having(list, "active")
  BY <1>1, <1>2, <1>3 DEF Typed
<1>11. \A i \in DOMAIN todo : todo[i].quantity = Counted(list, todo[i].product, T)
  <2> SUFFICES ASSUME NEW i \in DOMAIN todo
               PROVE  todo[i].quantity = Counted(list, todo[i].product, T)
    OBVIOUS
  <2>1. PICK p, n : p = todo[i].product /\ n = Counted(list, p, T)
    OBVIOUS
  <2>2. todo[i] = [product |-> p, quantity |-> n]
    BY <1>7, <2>1
  <2> QED
    BY <2>1, <2>2
<1>12. ReleasedSoFar(s)'
  <2>1. /\ tx'[s].order = o /\ tx'[s].todo = todo /\ tx'[s].taken = T /\ tx'[s].delta = r1.delta
        /\ rows'[o] = list
    BY <1>1, <1>2, <1>4
  <2> QED
    BY <1>8, <1>9, <1>10, <1>11, <2>1 DEF ReleasedSoFar
<1>13. WroteLocked(s)'
  BY <1>1, <1>2, <1>5 DEF WroteLocked
<1> QED
  BY <1>1, <1>2, <1>12, <1>13 DEF SoFar

-----------------------------------------------------------------------------
(* The counter is the sum of the rows. *)

ActiveOf(p) == [o \in Order |-> Counted(rows[o], p, Having(rows[o], "active"))]
ExactTx(p) == stock[p] = SumFunctionOnSet(ActiveOf(p), Order)

LEMMA CounterIsExact == CounterIsSumOfRows <=> \A p \in Product : ExactTx(p)
<1>1. ASSUME NEW p \in Product
      PROVE  SumFunction([o \in Order |-> Units(o, p, WithStatus(o, "active"))])
               = SumFunctionOnSet(ActiveOf(p), Order)
  <2>1. PICK f : f = [o \in Order |-> Units(o, p, WithStatus(o, "active"))]
    OBVIOUS
  <2>2. \A o \in Order : Units(o, p, WithStatus(o, "active"))
                           = Counted(rows[o], p, Having(rows[o], "active"))
    BY UnitsAreCounted, StatusIsHad
  <2>3. f = ActiveOf(p)
    BY <2>1, <2>2 DEF ActiveOf
  <2>4. SumFunction(f) = SumFunctionOnSet(f, Order)
    BY <2>1 DEF SumFunction
  <2> QED
    BY <2>1, <2>3, <2>4
<1> QED
  BY <1>1 DEF CounterIsSumOfRows, ExactTx

LEMMA ActiveIsNat ==
    ASSUME Typed, NEW p
    PROVE  \A o \in Order : ActiveOf(p)[o] \in Nat
<1> SUFFICES ASSUME NEW o \in Order PROVE ActiveOf(p)[o] \in Nat
  OBVIOUS
<1>1. rows[o] \in Seq(Row) /\ Having(rows[o], "active") \in SUBSET (DOMAIN rows[o])
  BY DEF Typed, Having
<1> QED
  BY <1>1, CountedIsNat DEF ActiveOf

(* Nobody holds more than the counter says. *)
LEMMA HeldIsCounted ==
    ASSUME IsFiniteSet(Order), Typed, NEW p \in Product, ExactTx(p), NEW o \in Order,
           NEW T \in SUBSET Having(rows[o], "active")
    PROVE  /\ Counted(rows[o], p, T) \in Nat
           /\ Counted(rows[o], p, T) <= ActiveOf(p)[o]
           /\ ActiveOf(p)[o] <= stock[p]
<1>1. PICK list, rest : list = rows[o] /\ rest = Having(list, "active") \ T
  OBVIOUS
<1>2. /\ list \in Seq(Row) /\ T \in SUBSET (DOMAIN list) /\ rest \in SUBSET (DOMAIN list)
      /\ T \cap rest = {} /\ T \cup rest = Having(list, "active")
  BY <1>1 DEF Typed, Having
<1>3. Counted(list, p, T \cup rest) = Counted(list, p, T) + Counted(list, p, rest)
  BY <1>2, CountedTogether
<1>4. Counted(list, p, T) \in Nat /\ Counted(list, p, rest) \in Nat
  BY <1>2, CountedIsNat
<1>5. ActiveOf(p)[o] = Counted(list, p, T) + Counted(list, p, rest)
  BY <1>1, <1>2, <1>3 DEF ActiveOf
<1>6. PICK f : f = ActiveOf(p)
  OBVIOUS
<1>7. \A q \in Order : f[q] \in Nat
  BY <1>6, ActiveIsNat
<1>8. IsFiniteSet(Order \ {o})
  BY FS_Subset
<1>9. /\ SumFunctionOnSet(f, Order) = f[o] + SumFunctionOnSet(f, Order \ {o})
      /\ SumFunctionOnSet(f, Order \ {o}) \in Nat
  <2>1. \A q \in Order : f[q] \in Int
    BY <1>7
  <2>2. SumFunctionOnSet(f, Order) = f[o] + SumFunctionOnSet(f, Order \ {o})
    BY <2>1, SumWithout
  <2>3. SumFunctionOnSet(f, Order \ {o}) \in Nat
    BY <1>7, <1>8, SumOfNaturals
  <2> QED
    BY <2>2, <2>3
<1>10. f[o] <= stock[p]
  BY <1>6, <1>7, <1>9 DEF ExactTx
<1> QED
  BY <1>1, <1>4, <1>5, <1>6, <1>10

(* A product is given back whole: GREATEST(0, ...) has nothing to correct. *)
LEMMA GiveSoFar ==
    ASSUME IsFiniteSet(Order), Typed, \A p \in Product : ExactTx(p), NEW s \in Session, SoFar(s),
           GiveBack(s)
    PROVE  SoFar(s)'
<1>1. PICK q, n, r, r1, o, list, T, todo, todo1 :
          /\ q = Target(s).product /\ n = Target(s).quantity /\ r = tx[s] /\ r1 = tx'[s]
          /\ o = r.order /\ list = rows[o] /\ T = r.taken /\ todo = r.todo /\ todo1 = r1.todo
  OBVIOUS
<1>2. PICK change : change = IF n < Current(s) THEN 0 - n ELSE 0 - Current(s)
  OBVIOUS
<1>3. /\ r.pc = "release" /\ todo # <<>> /\ LockAndWrite(s, change) /\ Write(s, change)
      /\ UNCHANGED <<stock, rows, rowsLock, cart>>
  BY <1>1, <1>2 DEF GiveBack, LockAndWrite
<1>4. /\ r \in TxRecord /\ o \in Order /\ n \in Nat /\ q \in Product
      /\ list \in Seq(Row) /\ T \in SUBSET (DOMAIN list)
  <2>1. tx[s].pc # "none" /\ tx[s].todo # <<>> /\ tx[s].pc = "release"
    BY <1>1, <1>3
  <2>2. r \in TxRecord
    BY <1>1, <2>1, InTx
  <2> QED
    BY <1>1, <2>1, <2>2, InTx DEF TxRecord
<1>5. /\ T # {} => rowsLock[o] = s
      /\ T \in SUBSET Having(list, "active")
      /\ \A i \in DOMAIN todo : todo[i].quantity = Counted(list, todo[i].product, T)
      /\ \A i, j \in DOMAIN todo : todo[i].product = todo[j].product => i = j
      /\ \A p \in Product : r.delta[p] = IF \E i \in DOMAIN todo : todo[i].product = p THEN 0
                                         ELSE 0 - Counted(list, p, T)
  BY <1>1, <1>3 DEF SoFar, ReleasedSoFar
<1>6. 1 \in DOMAIN todo /\ todo[1].product = q /\ todo[1].quantity = n
  <2>1. todo \in Seq(Lines)
    BY <1>1, <1>4 DEF TxRecord
  <2>2. 1 \in DOMAIN todo
    BY <1>3, <2>1, EmptySeq, LenProperties
  <2> QED
    BY <1>1, <2>2 DEF Target
<1>7. n = Counted(list, q, T) /\ r.delta[q] = 0
  BY <1>4, <1>5, <1>6
<1>8. n <= stock[q] /\ stock[q] \in Int
  <2>1. T \in SUBSET Having(rows[o], "active")
    BY <1>1, <1>5
  <2>2. Counted(rows[o], q, T) <= ActiveOf(q)[o] /\ ActiveOf(q)[o] <= stock[q]
    BY <1>4, <2>1, HeldIsCounted
  <2>3. ActiveOf(q)[o] \in Nat /\ stock[q] \in Int
    BY <1>4, ActiveIsNat DEF Typed
  <2> QED
    BY <1>1, <1>4, <1>7, <2>2, <2>3
<1>9. change = 0 - n /\ change \in Int
  <2>1. Current(s) = stock[q]
    BY <1>1, <1>7, <1>8 DEF Current
  <2> QED
    BY <1>2, <1>4, <1>8, <2>1
<1>10. /\ r1.pc = r.pc /\ r1.order = o /\ r1.taken = T
       /\ Len(todo1) \in Nat /\ Len(todo) = Len(todo1) + 1
       /\ \A i \in 1..Len(todo1) : todo1[i] = todo[i + 1]
       /\ \A p \in Product : r1.delta[p] = IF p = q THEN r.delta[p] + change ELSE r.delta[p]
       /\ r1 \in TxRecord
  <2>1. tx[s].pc # "none" /\ tx[s].todo # <<>>
    BY <1>1, <1>3
  <2> QED
    BY <1>1, <1>3, <1>9, <2>1, Wrote
<1>11. DOMAIN todo = 1..(Len(todo1) + 1) /\ DOMAIN todo1 = 1..Len(todo1)
  <2>1. todo \in Seq(Lines) /\ todo1 \in Seq(Lines)
    BY <1>1, <1>4, <1>10 DEF TxRecord
  <2> QED
    BY <1>10, <2>1, LenProperties
<1>12. \A i \in DOMAIN todo1 : i + 1 \in DOMAIN todo /\ i + 1 # 1 /\ todo1[i] = todo[i + 1]
  BY <1>10, <1>11
<1>13. /\ \A i \in DOMAIN todo1 : todo1[i].quantity = Counted(list, todo1[i].product, T)
       /\ \A i \in DOMAIN todo1 : todo1[i].product # q
  BY <1>5, <1>6, <1>12
<1>14. \A i, j \in DOMAIN todo1 : todo1[i].product = todo1[j].product => i = j
  <2> SUFFICES ASSUME NEW i \in DOMAIN todo1, NEW j \in DOMAIN todo1,
                      todo1[i].product = todo1[j].product
               PROVE  i = j
    OBVIOUS
  <2>1. i + 1 = j + 1
    BY <1>5, <1>12
  <2> QED
    BY <1>11, <2>1
<1>15. ASSUME NEW p \in Product
       PROVE  r1.delta[p] = IF \E i \in DOMAIN todo1 : todo1[i].product = p THEN 0
                            ELSE 0 - Counted(list, p, T)
  <2>1. CASE p = q
    BY <1>4, <1>7, <1>9, <1>10, <1>13, <2>1
  <2>2. CASE p # q
    <3>1. (\E i \in DOMAIN todo1 : todo1[i].product = p) <=> \E i \in DOMAIN todo : todo[i].product = p
      <4>1. ASSUME NEW i \in DOMAIN todo, todo[i].product = p
            PROVE  \E j \in DOMAIN todo1 : todo1[j].product = p
        <5>1. i # 1
          BY <1>6, <2>2, <4>1
        <5>2. i - 1 \in 1..Len(todo1) /\ (i - 1) + 1 = i
          BY <1>10, <1>11, <5>1
        <5>3. todo1[i - 1] = todo[i]
          BY <1>10, <5>2
        <5> QED
          BY <1>11, <4>1, <5>2, <5>3
      <4> QED
        BY <1>12, <4>1
    <3> QED
      BY <1>5, <1>10, <2>2, <3>1
  <2> QED
    BY <2>1, <2>2
<1>16. ReleasedSoFar(s)'
  <2>1. /\ tx'[s].order = o /\ tx'[s].todo = todo1 /\ tx'[s].taken = T /\ tx'[s].delta = r1.delta
        /\ rows'[o] = list /\ rowsLock' = rowsLock
    BY <1>1, <1>3, <1>10
  <2> QED
    BY <1>5, <1>13, <1>14, <1>15, <2>1 DEF ReleasedSoFar
<1>17. WroteLocked(s)'
  <2>1. /\ \A p \in Product : stockLock[p] = s => stockLock'[p] = s
        /\ stockLock'[q] = s
    BY <1>1, <1>3, <1>4, LocksStay
  <2>2. \A p \in Product : r.delta[p] # 0 => stockLock[p] = s
    BY <1>1 DEF SoFar, WroteLocked
  <2> QED
    BY <1>1, <1>10, <2>1, <2>2 DEF WroteLocked
<1> QED
  BY <1>1, <1>3, <1>10, <1>16, <1>17 DEF SoFar

(* A reserve commits all that its order asks for, of what there is. *)
LEMMA ReserveCommitted ==
    ASSUME Typed, NEW s \in Session, SoFar(s), CommitReserve(s)
    PROVE  LET o == tx[s].order
               items == cart[o]
           IN  /\ tx[s] \in TxRecord /\ o \in Order /\ rows[o] \in Seq(Row)
               /\ items \in ValidCart /\ Wanted(items) \subseteq Product
               /\ rows' = [rows EXCEPT ![o] = @ \o Inserts(items)]
               /\ \A p \in Product : /\ tx[s].delta[p] = Demand(items, p)
                                     /\ stock'[p] = stock[p] + Demand(items, p)
                                     /\ Demand(items, p) > 0 => Demand(items, p) <= StockLevel[p] - stock[p]
               /\ stock' = [p \in Product |-> stock[p] + Demand(items, p)]
<1>1. PICK r, o, items : r = tx[s] /\ o = r.order /\ items = cart[o]
  OBVIOUS
<1>2. /\ r.pc = "reserve" /\ r.todo = <<>>
      /\ stock' = [p \in Product |-> stock[p] + r.delta[p]]
      /\ rows' = [rows EXCEPT ![o] = @ \o Inserts(items)]
  BY <1>1 DEF CommitReserve, Inserts
<1>3. /\ r \in TxRecord /\ o \in Order /\ items \in ValidCart /\ rows[o] \in Seq(Row)
      /\ Wanted(items) \subseteq Product
  <2>1. tx[s].pc # "none" /\ tx[s].pc = "reserve" /\ tx[s].todo = <<>>
    BY <1>1, <1>2
  <2>2. r \in TxRecord
    BY <1>1, <2>1, InTx
  <2> QED
    BY <1>1, <2>1, <2>2, InTx, AllReserved DEF TxRecord
<1>4. Len(items) - Len(r.todo) = Len(items) /\ Len(items) \in Nat
  BY <1>2, <1>3, ItemsAreList
<1>5. \A p \in Product : /\ r.delta[p] = SumFunctionOnSet(Asks(items, p), 1..Len(items))
                         /\ r.delta[p] > 0 => stock[p] + r.delta[p] <= StockLevel[p]
  BY <1>1, <1>2, <1>4 DEF SoFar, ReservedSoFar
<1>6. \A p \in Product : r.delta[p] = Demand(items, p)
  BY <1>3, <1>5, AsksAreNat
<1>7. \A p \in Product : /\ stock[p] \in Int /\ StockLevel[p] \in Nat /\ Demand(items, p) \in Nat
  BY <1>3, DemandIsWanted, TxAssumption DEF Typed
<1>8. \A p \in Product : /\ stock'[p] = stock[p] + Demand(items, p)
                         /\ Demand(items, p) > 0 => Demand(items, p) <= StockLevel[p] - stock[p]
  <2>1. \A p \in Product : stock'[p] = stock[p] + Demand(items, p)
    BY <1>2, <1>6
  <2>2. \A p \in Product : Demand(items, p) > 0 => stock[p] + Demand(items, p) <= StockLevel[p]
    BY <1>5, <1>6
  <2> QED
    BY <1>7, <2>1, <2>2
<1>9. stock' = [p \in Product |-> stock[p] + Demand(items, p)]
  BY <1>2, <1>6
<1> QED
  BY <1>1, <1>2, <1>3, <1>6, <1>8, <1>9

(* A release commits that what its rows held is free. *)
LEMMA ReleaseCommitted ==
    ASSUME Typed, NEW s \in Session, SoFar(s), CommitRelease(s)
    PROVE  LET o == tx[s].order
               T == tx[s].taken
           IN  /\ tx[s] \in TxRecord /\ o \in Order /\ rows[o] \in Seq(Row)
               /\ T \in SUBSET Having(rows[o], "active")
               /\ T # {} => rowsLock[o] = s
               /\ rows' = [rows EXCEPT ![o] = Updates(rows[o], T)]
               /\ \A p \in Product : /\ Counted(rows[o], p, T) \in Nat
                                     /\ tx[s].delta[p] = 0 - Counted(rows[o], p, T)
                                     /\ stock'[p] = stock[p] - Counted(rows[o], p, T)
               /\ stock' = [p \in Product |-> stock[p] - Counted(rows[o], p, T)]
<1>1. PICK r, o, T : r = tx[s] /\ o = r.order /\ T = r.taken
  OBVIOUS
<1>2. /\ r.pc = "release" /\ r.todo = <<>>
      /\ stock' = [p \in Product |-> stock[p] + r.delta[p]]
      /\ rows' = [rows EXCEPT ![o] = Updates(rows[o], T)]
  BY <1>1 DEF CommitRelease, Updates
<1>3. r \in TxRecord /\ o \in Order /\ rows[o] \in Seq(Row)
  <2>1. tx[s].pc # "none"
    BY <1>1, <1>2
  <2>2. r \in TxRecord
    BY <1>1, <2>1, InTx
  <2> QED
    BY <1>1, <2>1, <2>2, InTx DEF TxRecord
<1>4. /\ T # {} => rowsLock[o] = s
      /\ T \in SUBSET Having(rows[o], "active")
      /\ \A p \in Product : r.delta[p] = IF \E i \in DOMAIN r.todo : r.todo[i].product = p THEN 0
                                         ELSE 0 - Counted(rows[o], p, T)
  BY <1>1, <1>2 DEF SoFar, ReleasedSoFar
<1>5. \A p \in Product : r.delta[p] = 0 - Counted(rows[o], p, T)
  <2>1. DOMAIN r.todo = {}
    BY <1>2
  <2> QED
    BY <1>4, <2>1
<1>6. \A p \in Product : Counted(rows[o], p, T) \in Nat /\ stock[p] \in Int
  <2>1. T \in SUBSET (DOMAIN rows[o])
    BY <1>4 DEF Having
  <2> QED
    BY <1>3, <2>1, CountedIsNat DEF Typed
<1>7. \A p \in Product : stock[p] + r.delta[p] = stock[p] - Counted(rows[o], p, T)
  BY <1>5, <1>6
<1>8. stock' = [p \in Product |-> stock[p] - Counted(rows[o], p, T)]
  BY <1>2, <1>7
<1> QED
  BY <1>1, <1>2, <1>3, <1>4, <1>5, <1>6, <1>8

(* The rows of one order change, and the counter with them. *)
LEMMA ExactAgain ==
    ASSUME IsFiniteSet(Order), Typed, Typed', NEW o \in Order, NEW p \in Product, ExactTx(p),
           NEW list, rows' = [rows EXCEPT ![o] = list], NEW more \in Int,
           stock'[p] = stock[p] + more,
           Counted(list, p, Having(list, "active"))
             = Counted(rows[o], p, Having(rows[o], "active")) + more
    PROVE  ExactTx(p)'
<1>1. PICK f, g : f = ActiveOf(p) /\ g = ActiveOf(p)'
  OBVIOUS
<1>2. \A q \in Order : f[q] \in Int
  BY <1>1, ActiveIsNat
<1>3. rows'[o] = list /\ \A q \in Order \ {o} : rows'[q] = rows[q]
  BY DEF Typed
<1>4. g[o] = f[o] + more
  BY <1>1, <1>3 DEF ActiveOf
<1>5. \A q \in Order \ {o} : g[q] = f[q]
  BY <1>1, <1>3 DEF ActiveOf
<1>6. \A q \in Order : g[q] \in Int
  BY <1>2, <1>4, <1>5
<1>7. SumFunctionOnSet(g, Order) = SumFunctionOnSet(f, Order) + g[o] - f[o]
  BY <1>2, <1>5, <1>6, SumChanges
<1>8. stock[p] = SumFunctionOnSet(f, Order) /\ stock[p] \in Int
  BY <1>1 DEF ExactTx, Typed
<1>9. stock'[p] = SumFunctionOnSet(g, Order)
  BY <1>2, <1>4, <1>7, <1>8
<1> QED
  BY <1>1, <1>9 DEF ExactTx

(* Who is not done when another commits has what it had. *)
LEMMA OthersAfterCommit ==
    ASSUME Typed, AllSoFar, NEW s \in Session, tx[s] \in TxRecord, End(s), cart' = cart,
           \A p \in Product : tx[s].delta[p] = 0 => stock'[p] = stock[p],
           \A o \in Order : \A i \in DOMAIN rows[o] : /\ rows'[o][i].product = rows[o][i].product
                                                      /\ rows'[o][i].quantity = rows[o][i].quantity,
           \A t \in Session \ {s} : \A o \in Order :
              rowsLock[o] = t => Having(rows[o], "active") \subseteq Having(rows'[o], "active")
    PROVE  AllSoFar'
<1>1. /\ tx'[s] \notin TxRecord
      /\ \A t \in Session \ {s} : tx'[t] = tx[t]
      /\ \A p \in Product : stockLock'[p] = IF stockLock[p] = s THEN NoSession ELSE stockLock[p]
      /\ \A o \in Order : rowsLock'[o] = IF rowsLock[o] = s THEN NoSession ELSE rowsLock[o]
  BY Ended
<1>2. ASSUME NEW t \in Session \ {s}, tx[t] \in TxRecord
      PROVE  SoFar(t)'
  <2>1. SoFar(t) /\ SoFar(s) /\ tx[t].order \in Order
    BY <1>2 DEF AllSoFar, TxRecord
  <2>2. \A p \in Product : tx[t].delta[p] # 0 => stock'[p] = stock[p]
    <3>1. \A p \in Product : tx[t].delta[p] # 0 => tx[s].delta[p] = 0
      BY <2>1 DEF SoFar, WroteLocked
    <3> QED
      BY <3>1
  <2>3. \A p \in Product : stockLock[p] = t => stockLock'[p] = t
    BY <1>1
  <2>4. ASSUME tx[t].pc = "release"
        PROVE  /\ tx[t].taken # {} => rowsLock'[tx[t].order] = t
               /\ tx[t].taken \subseteq Having(rows'[tx[t].order], "active")
    <3>1. /\ tx[t].taken # {} => rowsLock[tx[t].order] = t
          /\ tx[t].taken \subseteq Having(rows[tx[t].order], "active")
      BY <2>1, <2>4 DEF SoFar, ReleasedSoFar
    <3>2. tx[t].taken # {} => Having(rows[tx[t].order], "active") \subseteq Having(rows'[tx[t].order], "active")
      BY <2>1, <3>1
    <3> QED
      BY <1>1, <2>1, <3>1, <3>2
  <2> QED
    BY <1>1, <1>2, <2>1, <2>2, <2>3, <2>4, OthersSoFar
<1> QED
  BY <1>1, <1>2 DEF AllSoFar

(* The inductive invariant. *)
TxInv == /\ Typed
         /\ AllSoFar
         /\ \A p \in Product : ExactTx(p)

LEMMA TxInvStep ==
    ASSUME IsFiniteSet(Order), TxInv, [TxNext]_txVars
    PROVE  TxInv'
<1> USE DEF TxInv
<1>1. Typed /\ Typed'
  BY TypedStep
<1>2. ASSUME UNCHANGED <<stock, rows>>
      PROVE  \A p \in Product : ExactTx(p)'
  BY <1>2 DEF ExactTx, ActiveOf
<1>3. ASSUME NEW s \in Session, SoFar(s)',
             \A t \in Session \ {s} : tx'[t] \in TxRecord => SoFar(t)'
      PROVE  AllSoFar'
  BY <1>3 DEF AllSoFar
<1>4. ASSUME NEW s \in Session, NEW o \in Order, BeginReserve(s, o)
      PROVE  TxInv'
  <2>1. Begin(s, "reserve", o, cart[o], {}) /\ cart[o] \in ValidCart /\ cart[o] \in Seq(Lines)
    BY <1>1, <1>4, CartLines DEF BeginReserve, Typed
  <2>2. UNCHANGED <<stock, rows, stockLock, rowsLock, cart>>
    BY <2>1 DEF Begin
  <2>3. /\ tx'[s] = [pc |-> "reserve", order |-> o, todo |-> cart[o], taken |-> {},
                     delta |-> [p \in Product |-> 0]]
        /\ \A t \in Session \ {s} : tx'[t] = tx[t]
    <3>1. {} \in SUBSET (DOMAIN rows[o]) /\ "reserve" \in {"reserve", "rows", "release"}
      OBVIOUS
    <3> QED
      BY <1>1, <2>1, <3>1, Begun
  <2>4. ReservedSoFar(s)'
    <3>1. Len(cart[o]) \in Nat
      BY <2>1, ItemsAreList
    <3>2. Len(cart[o]) - Len(cart[o]) = 0 /\ 1..0 = {}
      BY <3>1
    <3>3. \A p \in Product : SumFunctionOnSet(Asks(cart[o], p), 1..(Len(cart[o]) - Len(cart[o]))) = 0
      BY <3>2, SumOfNothing
    <3>4. /\ tx'[s].order = o /\ tx'[s].todo = cart[o] /\ cart'[o] = cart[o]
          /\ \A p \in Product : tx'[s].delta[p] = 0
      BY <2>2, <2>3
    <3> QED
      BY <3>3, <3>4 DEF ReservedSoFar
  <2>5. SoFar(s)'
    BY <2>3, <2>4 DEF SoFar, WroteLocked
  <2>6. \A t \in Session \ {s} : tx'[t] \in TxRecord => SoFar(t)'
    BY <1>1, <2>2, <2>3, OthersUndisturbed
  <2> QED
    BY <1>1, <1>2, <1>3, <2>2, <2>5, <2>6
<1>5. ASSUME NEW s \in Session, NEW o \in Order, BeginRelease(s, o)
      PROVE  TxInv'
  <2>1. Begin(s, "rows", o, <<>>, WithStatus(o, "active")) /\ <<>> \in Seq(Lines)
    BY <1>5 DEF BeginRelease
  <2>2. UNCHANGED <<stock, rows, stockLock, rowsLock, cart>>
    BY <2>1 DEF Begin
  <2>3. WithStatus(o, "active") \in SUBSET (DOMAIN rows[o])
    BY DEF WithStatus
  <2>4. /\ tx'[s] = [pc |-> "rows", order |-> o, todo |-> <<>>, taken |-> WithStatus(o, "active"),
                     delta |-> [p \in Product |-> 0]]
        /\ \A t \in Session \ {s} : tx'[t] = tx[t]
    BY <1>1, <2>1, <2>3, Begun
  <2>5. SoFar(s)'
    BY <2>4 DEF SoFar, WroteLocked
  <2>6. \A t \in Session \ {s} : tx'[t] \in TxRecord => SoFar(t)'
    BY <1>1, <2>2, <2>4, OthersUndisturbed
  <2> QED
    BY <1>1, <1>2, <1>3, <2>2, <2>5, <2>6
<1>6. ASSUME NEW s \in Session, NEW change \in Int, LockAndWrite(s, change), SoFar(s)',
             tx[s].pc # "none", tx[s].todo # <<>>
      PROVE  TxInv'
  <2>1. /\ UNCHANGED <<stock, rows, rowsLock, cart>>
        /\ \A p \in Product : stockLock[p] \in Session \ {s} => stockLock'[p] = stockLock[p]
    BY <1>1, <1>6, LocksStay
  <2>2. \A t \in Session \ {s} : tx'[t] = tx[t]
    BY <1>1, <1>6, Wrote DEF LockAndWrite
  <2>3. \A t \in Session \ {s} : tx'[t] \in TxRecord => SoFar(t)'
    BY <1>1, <2>1, <2>2, OthersUndisturbed
  <2> QED
    BY <1>1, <1>2, <1>3, <1>6, <2>1, <2>3
<1>7. ASSUME NEW s \in Session, ReserveItem(s)
      PROVE  TxInv'
  <2>1. tx[s].pc # "none" /\ tx[s].todo # <<>> /\ LockAndWrite(s, Target(s).quantity)
    BY <1>7 DEF ReserveItem
  <2>2. tx[s] \in TxRecord /\ Target(s).quantity \in Nat
    BY <1>1, <2>1, InTx
  <2>3. SoFar(s)'
    BY <1>1, <1>7, <2>2, ReserveSoFar DEF AllSoFar
  <2>4. Target(s).quantity \in Int
    BY <2>2
  <2> QED
    BY <1>6, <2>1, <2>3, <2>4
<1>8. ASSUME NEW s \in Session, Rollback(s)
      PROVE  TxInv'
  <2>1. End(s) /\ UNCHANGED <<stock, rows, cart, calls>>
    BY <1>8 DEF Rollback
  <2>2. /\ tx'[s] \notin TxRecord
        /\ \A t \in Session \ {s} : tx'[t] = tx[t]
        /\ \A p \in Product : stockLock'[p] = IF stockLock[p] = s THEN NoSession ELSE stockLock[p]
        /\ \A o \in Order : rowsLock'[o] = IF rowsLock[o] = s THEN NoSession ELSE rowsLock[o]
    BY <1>1, <2>1, Ended
  <2>3. \A t \in Session \ {s} : tx'[t] \in TxRecord => SoFar(t)'
    BY <1>1, <2>1, <2>2, OthersUndisturbed
  <2>4. AllSoFar'
    BY <2>2, <2>3 DEF AllSoFar
  <2> QED
    BY <1>1, <1>2, <2>1, <2>4
<1>9. ASSUME NEW s \in Session, CommitReserve(s)
      PROVE  TxInv'
  <2>1. PICK o, items, list, more : /\ o = tx[s].order /\ items = cart[o] /\ list = rows[o]
                                    /\ more = list \o Inserts(items)
    OBVIOUS
  <2>2. tx[s] \in TxRecord /\ SoFar(s)
    <3>1. tx[s].pc # "none"
      BY <1>9 DEF CommitReserve
    <3> QED
      BY <1>1, <3>1, InTx DEF AllSoFar
  <2>3. /\ o \in Order /\ list \in Seq(Row) /\ items \in ValidCart /\ Wanted(items) \subseteq Product
        /\ rows' = [rows EXCEPT ![o] = more]
        /\ \A p \in Product : /\ tx[s].delta[p] = Demand(items, p)
                              /\ stock'[p] = stock[p] + Demand(items, p)
    BY <1>1, <1>9, <2>1, <2>2, ReserveCommitted
  <2>4. /\ \A i \in DOMAIN list : more[i] = list[i]
        /\ Having(list, "active") \subseteq Having(more, "active")
        /\ \A p : Counted(more, p, Having(more, "active"))
                    = Counted(list, p, Having(list, "active")) + Demand(items, p)
    <3>1. more = list \o Inserts(items)
      BY <2>1
    <3> QED
      BY <2>3, <3>1, RowsInserted
  <2>5. rows'[o] = more /\ \A q \in Order \ {o} : rows'[q] = rows[q]
    BY <1>1, <2>3 DEF Typed
  <2>6. /\ \A q \in Order : \A i \in DOMAIN rows[q] : /\ rows'[q][i].product = rows[q][i].product
                                                      /\ rows'[q][i].quantity = rows[q][i].quantity
        /\ \A q \in Order : Having(rows[q], "active") \subseteq Having(rows'[q], "active")
    <3>1. rows[o] = list /\ rows'[o] = more
      BY <2>1, <2>5
    <3>2. /\ \A i \in DOMAIN rows[o] : /\ rows'[o][i].product = rows[o][i].product
                                     /\ rows'[o][i].quantity = rows[o][i].quantity
          /\ Having(rows[o], "active") \subseteq Having(rows'[o], "active")
      BY <2>4, <3>1
    <3> QED
      BY <2>5, <3>2
  <2>7. \A p \in Product : tx[s].delta[p] = 0 => stock'[p] = stock[p]
    BY <1>1, <2>3 DEF Typed
  <2>8. End(s) /\ cart' = cart
    BY <1>9 DEF CommitReserve
  <2>9. AllSoFar'
    BY <1>1, <2>2, <2>6, <2>7, <2>8, OthersAfterCommit
  <2>10. ASSUME NEW p \in Product
         PROVE  ExactTx(p)'
    <3>1. Demand(items, p) \in Int
      BY <2>3, DemandIsWanted
    <3>2. Counted(more, p, Having(more, "active"))
            = Counted(rows[o], p, Having(rows[o], "active")) + Demand(items, p)
      BY <2>1, <2>4
    <3> QED
      BY <1>1, <2>3, <3>1, <3>2, ExactAgain
  <2> QED
    BY <1>1, <2>9, <2>10
<1>10. ASSUME NEW s \in Session, LockRows(s)
       PROVE  TxInv'
  <2>1. UNCHANGED <<stock, rows, stockLock, cart>>
    BY <1>10 DEF LockRows
  <2>2. PICK o, T : o = tx[s].order /\ T = tx[s].taken \cap Having(rows[o], "active")
    OBVIOUS
  <2>3. /\ tx[s] \in TxRecord
        /\ T # {} => rowsLock[o] \in {NoSession, s} /\ rowsLock' = [rowsLock EXCEPT ![o] = s]
        /\ T = {} => rowsLock' = rowsLock
        /\ \A t \in Session \ {s} : tx'[t] = tx[t]
    BY <1>1, <1>10, <2>2, Locked
  <2>4. \A q \in Order : rowsLock[q] \in Session \ {s} => rowsLock'[q] = rowsLock[q]
    BY <1>1, <2>3, TxAssumption DEF Typed
  <2>5. \A t \in Session \ {s} : tx'[t] \in TxRecord => SoFar(t)'
    BY <1>1, <2>1, <2>3, <2>4, OthersUndisturbed
  <2>6. SoFar(s)'
    BY <1>1, <1>10, <2>3, LockSoFar DEF AllSoFar
  <2> QED
    BY <1>1, <1>2, <1>3, <2>1, <2>5, <2>6
<1>11. ASSUME NEW s \in Session, GiveBack(s)
       PROVE  TxInv'
  <2>1. PICK change : change = IF Target(s).quantity < Current(s) THEN 0 - Target(s).quantity
                               ELSE 0 - Current(s)
    OBVIOUS
  <2>2. tx[s].pc = "release" /\ tx[s].todo # <<>> /\ LockAndWrite(s, change)
    BY <1>11, <2>1 DEF GiveBack
  <2>3. tx[s] \in TxRecord /\ Target(s).quantity \in Nat /\ Target(s).product \in Product
    BY <1>1, <2>2, InTx
  <2>4. change \in Int
    <3>1. Current(s) \in Int
      BY <1>1, <2>3 DEF Current, Typed, TxRecord
    <3> QED
      BY <2>1, <2>3, <3>1
  <2>5. SoFar(s)'
    BY <1>1, <1>11, <2>3, GiveSoFar DEF AllSoFar
  <2>6. tx[s].pc # "none"
    BY <2>2
  <2> QED
    BY <1>6, <2>2, <2>4, <2>5, <2>6
<1>12. ASSUME NEW s \in Session, CommitRelease(s)
       PROVE  TxInv'
  <2>1. PICK o, T, list, new : /\ o = tx[s].order /\ T = tx[s].taken /\ list = rows[o]
                               /\ new = Updates(list, T)
    OBVIOUS
  <2>2. tx[s] \in TxRecord /\ SoFar(s)
    <3>1. tx[s].pc # "none"
      BY <1>12 DEF CommitRelease
    <3> QED
      BY <1>1, <3>1, InTx DEF AllSoFar
  <2>3. /\ o \in Order /\ list \in Seq(Row) /\ T \in SUBSET Having(list, "active")
        /\ T # {} => rowsLock[o] = s
        /\ rows' = [rows EXCEPT ![o] = new]
        /\ \A p \in Product : /\ Counted(list, p, T) \in Nat
                              /\ tx[s].delta[p] = 0 - Counted(list, p, T)
                              /\ stock'[p] = stock[p] - Counted(list, p, T)
    BY <1>1, <1>12, <2>1, <2>2, ReleaseCommitted
  <2>4. /\ \A i \in DOMAIN list : new[i].product = list[i].product /\ new[i].quantity = list[i].quantity
        /\ Having(new, "active") = Having(list, "active") \ T
        /\ \A p : Counted(new, p, Having(new, "active"))
                    = Counted(list, p, Having(list, "active")) - Counted(list, p, T)
    BY <2>1, <2>3, UpdatesAreRows, RowsUpdated
  <2>5. rows'[o] = new /\ \A q \in Order \ {o} : rows'[q] = rows[q]
    BY <1>1, <2>3 DEF Typed
  <2>6. \A q \in Order : \A i \in DOMAIN rows[q] : /\ rows'[q][i].product = rows[q][i].product
                                                   /\ rows'[q][i].quantity = rows[q][i].quantity
    BY <2>1, <2>4, <2>5
  <2>7. \A t \in Session \ {s} : \A q \in Order :
            rowsLock[q] = t => Having(rows[q], "active") \subseteq Having(rows'[q], "active")
    BY <2>1, <2>3, <2>4, <2>5
  <2>8. \A p \in Product : tx[s].delta[p] = 0 => stock'[p] = stock[p]
    BY <1>1, <2>3 DEF Typed
  <2>9. End(s) /\ cart' = cart
    BY <1>12 DEF CommitRelease
  <2>10. AllSoFar'
    BY <1>1, <2>2, <2>6, <2>7, <2>8, <2>9, OthersAfterCommit
  <2>11. ASSUME NEW p \in Product
         PROVE  ExactTx(p)'
    <3>1. PICK more : more = 0 - Counted(list, p, T)
      OBVIOUS
    <3>2. Counted(list, p, Having(list, "active")) \in Nat
      BY <2>3, CountedIsNat DEF Having
    <3>3. more \in Int /\ stock'[p] = stock[p] + more
      BY <1>1, <2>3, <3>1 DEF Typed
    <3>4. Counted(new, p, Having(new, "active"))
            = Counted(rows[o], p, Having(rows[o], "active")) + more
      BY <2>1, <2>3, <2>4, <3>1, <3>2
    <3> QED
      BY <1>1, <2>3, <3>3, <3>4, ExactAgain
  <2> QED
    BY <1>1, <2>10, <2>11
<1>13. ASSUME UNCHANGED txVars
       PROVE  TxInv'
  <2>1. UNCHANGED <<stock, rows, stockLock, rowsLock, tx, cart>>
    BY <1>13 DEF txVars
  <2>2. ASSUME NEW t \in Session, tx'[t] \in TxRecord
        PROVE  SoFar(t)'
    <3>1. tx[t] \in TxRecord /\ SoFar(t) /\ tx'[t] = tx[t] /\ cart' = cart
      BY <1>1, <2>1, <2>2 DEF AllSoFar
    <3>2. tx[t].pc = "release" => /\ tx[t].taken # {} => rowsLock'[tx[t].order] = t
                                  /\ tx[t].taken \subseteq Having(rows'[tx[t].order], "active")
      BY <2>1, <3>1 DEF SoFar, ReleasedSoFar
    <3> QED
      BY <1>1, <2>1, <3>1, <3>2, OthersSoFar
  <2>3. AllSoFar'
    BY <2>2 DEF AllSoFar
  <2> QED
    BY <1>1, <1>2, <1>13, <2>3 DEF txVars
<1> QED
  BY <1>4, <1>5, <1>7, <1>8, <1>9, <1>10, <1>11, <1>12, <1>13
     DEF TxNext, SessionStep, RefuseItem, DeadlockDetected, TxFail

LEMMA AlwaysTxInv ==
    ASSUME IsFiniteSet(Order)
    PROVE  TxSpec => []TxInv
<1>1. TxInit => TxInv
  <2> SUFFICES ASSUME TxInit PROVE TxInv
    OBVIOUS
  <2>1. Typed
    BY TypedInit
  <2>2. AllSoFar
    BY DEF TxInit, AllSoFar, NoTx, TxRecord
  <2>3. ASSUME NEW p \in Product
        PROVE  ExactTx(p)
    <3>1. PICK f : f = ActiveOf(p)
      OBVIOUS
    <3>2. \A o \in Order : f[o] = 0
      <4>1. \A o \in Order : rows[o] = <<>> /\ Having(rows[o], "active") = {}
        BY DEF TxInit, Having
      <4>2. \A o \in Order : Counted(rows[o], p, {}) = 0
        BY SumOfNothing DEF Counted
      <4> QED
        BY <3>1, <4>1, <4>2 DEF ActiveOf
    <3>3. SumFunctionOnSet(f, Order) = 0
      <4>1. \A o \in Order : f[o] \in Nat /\ ~ f[o] > 0
        BY <3>2
      <4>2. SumFunctionOnSet(f, Order) \in Nat /\ ~ SumFunctionOnSet(f, Order) > 0
        BY <4>1, SumOfNaturals
      <4> QED
        BY <4>2
    <3> QED
      BY <3>1, <3>3 DEF TxInit, ExactTx
  <2> QED
    BY <2>1, <2>2, <2>3 DEF TxInv
<1> QED
  BY <1>1, TxInvStep, PTL DEF TxSpec

(* Whatever sessions, failures and deadlocks do to each other, the counter *)
(* in stock_items is the sum of the active rows of reservations: no row is *)
(* given back twice, and GREATEST never hides a difference (db.go:60-98,   *)
(* 104-142).                                                               *)
THEOREM CounterSumsUpRows ==
    ASSUME IsFiniteSet(Order)
    PROVE  TxSpec => []CounterIsSumOfRows
<1>1. TxInv => CounterIsSumOfRows
  BY CounterIsExact DEF TxInv
<1> QED
  BY <1>1, AlwaysTxInv, PTL

-----------------------------------------------------------------------------
(* What GET /stock answers. *)

(* A quantity that an int32 can hold is not changed by the conversion. *)
LEMMA NarrowIsExact ==
    ASSUME NEW n \in Nat, n <= Ledger!MaxNarrow
    PROVE  Ledger!Narrow(n) = n
<1>1. PICK half, all : half = 2 ^ (Width - 1) /\ all = 2 ^ Width
  OBVIOUS
<1>2. half \in Nat \ {0} /\ all = 2 * half
  BY <1>1, WidthAssumption
<1>3. n <= half - 1
  BY <1>1 DEF Ledger!MaxNarrow
<1>4. n % all = n
  <2>1. all \in Nat /\ n < all
    BY <1>2, <1>3
  <2> QED
    BY <2>1
<1> QED
  BY <1>1, <1>3, <1>4 DEF Ledger!Narrow, Ledger!MaxNarrow

(* GET /stock finds enough of a product exactly when what the active rows  *)
(* leave of it is enough, for every quantity that an int32 holds, and      *)
(* never for a product without a row or a quantity that is not positive    *)
(* (server.go:20-41).                                                      *)
THEOREM LookupTellsRows ==
    ASSUME IsFiniteSet(Order)
    PROVE  TxSpec => []LookupAgrees
<1>1. ASSUME TxInv
      PROVE  LookupAgrees
  <2> SUFFICES ASSUME NEW ask \in Asked, ask.quantity <= Ledger!MaxNarrow
               PROVE  Ledger!CheckStock(ask.product, ask.quantity).available =
                         /\ ask.quantity > 0
                         /\ ask.product \in Product
                         /\ ask.quantity + SumFunction([o \in Order |->
                               Units(o, ask.product, WithStatus(o, "active"))])
                              <= StockLevel[ask.product]
    BY DEF LookupAgrees
  <2>1. PICK n, p, answer : /\ n = ask.quantity /\ p = ask.product
                            /\ answer = Ledger!CheckStock(p, n)
    OBVIOUS
  <2>2. n \in Int
    BY <2>1, TxAssumption
  <2>3. CASE n <= 0
    <3>1. answer = Ledger!Refused(400)
      BY <2>1, <2>2, <2>3 DEF Ledger!CheckStock
    <3>2. answer.available = FALSE /\ ~ n > 0
      BY <2>2, <2>3, <3>1 DEF Ledger!Refused
    <3> QED
      BY <2>1, <3>2
  <2>4. CASE n > 0 /\ p \notin Product
    <3>1. answer = Ledger!Refused(404)
      BY <2>1, <2>2, <2>4 DEF Ledger!CheckStock
    <3>2. answer.available = FALSE
      BY <3>1 DEF Ledger!Refused
    <3> QED
      BY <2>1, <2>4, <3>2
  <2>5. CASE n > 0 /\ p \in Product
    <3>1. PICK held : held = SumFunction([o \in Order |-> Units(o, p, WithStatus(o, "active"))])
      OBVIOUS
    <3>2. stock[p] = held /\ stock[p] \in Int /\ StockLevel[p] \in Nat
      BY <1>1, <2>5, <3>1, CounterIsExact, TxAssumption DEF CounterIsSumOfRows, TxInv, Typed
    <3>3. Ledger!Narrow(n) = n
      BY <2>1, <2>2, <2>5, NarrowIsExact
    <3>4. answer = Ledger!Found(p, Ledger!Available(p) >= n)
      BY <2>1, <2>2, <2>5, <3>3 DEF Ledger!CheckStock
    <3>5. answer.available = (StockLevel[p] - stock[p] >= n)
      BY <3>4 DEF Ledger!Found, Ledger!Available
    <3>6. (StockLevel[p] - stock[p] >= n) <=> (n + held <= StockLevel[p])
      BY <2>2, <3>2
    <3>7. answer.available = (n > 0 /\ p \in Product /\ n + held <= StockLevel[p])
      <4>1. CASE n + held <= StockLevel[p]
        BY <2>5, <3>5, <3>6, <4>1
      <4>2. CASE ~ (n + held <= StockLevel[p])
        BY <2>5, <3>5, <3>6, <4>2
      <4> QED
        BY <4>1, <4>2
    <3> QED
      BY <2>1, <3>1, <3>7, Zenon
  <2>6. n <= 0 \/ n > 0
    BY <2>2
  <2> QED
    BY <2>3, <2>4, <2>5, <2>6, Zenon
<1> QED
  BY <1>1, AlwaysTxInv, PTL

-----------------------------------------------------------------------------
(* Reserves and releases are single steps of the ledger. *)

(* An order is not reserved while it is released, and a release has found  *)
(* all rows of its order that are active.                                  *)
InRelease(s) == tx[s].pc \in {"rows", "release"}
Alone ==
    /\ \A s, t \in Session : tx[s].pc = "reserve" /\ InRelease(t) => tx[s].order # tx[t].order
    /\ \A s \in Session : InRelease(s) => Having(rows[tx[s].order], "active") \subseteq tx[s].taken

LEMMA AloneStep ==
    ASSUME Overlapping = {}, Typed, AllSoFar, Alone, [TxNext]_txVars
    PROVE  Alone'
<1>1. ASSUME NEW s \in Session, \A t \in Session \ {s} : tx'[t] = tx[t], tx'[s].pc = "none",
             \A t \in Session \ {s} : InRelease(t) =>
                Having(rows'[tx[t].order], "active") \subseteq Having(rows[tx[t].order], "active")
      PROVE  Alone'
  BY <1>1 DEF Alone, InRelease
<1>2. ASSUME NEW s \in Session, \A t \in Session \ {s} : tx'[t] = tx[t], rows' = rows,
             tx'[s].pc = "reserve" =>
                \A t \in Session \ {s} : InRelease(t) => tx[t].order # tx'[s].order,
             tx'[s].pc \in {"rows", "release"} =>
                /\ \A t \in Session \ {s} : tx[t].pc = "reserve" => tx[t].order # tx'[s].order
                /\ Having(rows[tx'[s].order], "active") \subseteq tx'[s].taken
      PROVE  Alone'
  BY <1>2 DEF Alone, InRelease
<1>3. ASSUME NEW s \in Session, NEW o \in Order, BeginReserve(s, o)
      PROVE  Alone'
  <2>1. Begin(s, "reserve", o, cart[o], {}) /\ cart[o] \in Seq(Lines) /\ rows' = rows
    BY <1>3, CartLines DEF BeginReserve, Begin, Typed
  <2>2. {} \in SUBSET (DOMAIN rows[o]) /\ "reserve" \in {"reserve", "rows", "release"}
    OBVIOUS
  <2>3. /\ tx'[s].pc = "reserve" /\ tx'[s].order = o
        /\ \A t \in Session \ {s} : tx'[t] = tx[t]
    <3>1. /\ tx'[s] = [pc |-> "reserve", order |-> o, todo |-> cart[o], taken |-> {},
                       delta |-> [p \in Product |-> 0]]
          /\ \A t \in Session \ {s} : tx'[t] = tx[t]
      BY <2>1, <2>2, Begun
    <3> QED
      BY <3>1
  <2>4. \A t \in Session \ {s} : InRelease(t) => tx[t].order # o
    BY <1>3 DEF BeginReserve, Releasing, InRelease
  <2>5. tx'[s].pc \notin {"rows", "release"}
    BY <2>3
  <2> QED
    BY <1>2, <2>1, <2>3, <2>4, <2>5
<1>4. ASSUME NEW s \in Session, NEW o \in Order, BeginRelease(s, o)
      PROVE  Alone'
  <2>1. Begin(s, "rows", o, <<>>, WithStatus(o, "active")) /\ <<>> \in Seq(Lines) /\ rows' = rows
    BY <1>4 DEF BeginRelease, Begin
  <2>2. WithStatus(o, "active") \in SUBSET (DOMAIN rows[o])
    BY DEF WithStatus
  <2>3. /\ tx'[s].pc = "rows" /\ tx'[s].order = o /\ tx'[s].taken = WithStatus(o, "active")
        /\ \A t \in Session \ {s} : tx'[t] = tx[t]
    <3>1. /\ tx'[s] = [pc |-> "rows", order |-> o, todo |-> <<>>, taken |-> WithStatus(o, "active"),
                       delta |-> [p \in Product |-> 0]]
          /\ \A t \in Session \ {s} : tx'[t] = tx[t]
      BY <2>1, <2>2, Begun
    <3> QED
      BY <3>1
  <2>4. \A t \in Session \ {s} : tx[t].pc = "reserve" => tx[t].order # o
    BY <1>4 DEF BeginRelease, Reserving
  <2>5. Having(rows[o], "active") \subseteq tx'[s].taken
    BY <2>3, StatusIsHad
  <2>6. tx'[s].pc # "reserve"
    BY <2>3
  <2> QED
    BY <1>2, <2>1, <2>3, <2>4, <2>5, <2>6
<1>5. ASSUME NEW s \in Session, NEW change \in Int, LockAndWrite(s, change),
             tx[s].pc # "none", tx[s].todo # <<>>
      PROVE  Alone'
  <2>1. /\ tx'[s].pc = tx[s].pc /\ tx'[s].order = tx[s].order /\ tx'[s].taken = tx[s].taken
        /\ \A t \in Session \ {s} : tx'[t] = tx[t]
    BY <1>5, Wrote DEF LockAndWrite
  <2>2. rows' = rows
    BY <1>5 DEF LockAndWrite
  <2>3. \A t \in Session : /\ tx'[t].pc = tx[t].pc /\ tx'[t].order = tx[t].order
                           /\ tx'[t].taken = tx[t].taken
    BY <2>1
  <2>4. \A t, u \in Session : tx'[t].pc = "reserve" /\ tx'[u].pc \in {"rows", "release"}
                                => tx'[t].order # tx'[u].order
    BY <2>3 DEF Alone, InRelease
  <2>5. \A t \in Session : tx'[t].pc \in {"rows", "release"}
                             => Having(rows[tx'[t].order], "active") \subseteq tx'[t].taken
    BY <2>3 DEF Alone, InRelease
  <2> QED
    BY <2>2, <2>4, <2>5 DEF Alone, InRelease
<1>6. ASSUME NEW s \in Session, ReserveItem(s)
      PROVE  Alone'
  <2>1. tx[s].pc # "none" /\ tx[s].todo # <<>> /\ LockAndWrite(s, Target(s).quantity)
    BY <1>6 DEF ReserveItem
  <2>2. Target(s).quantity \in Nat
    BY <2>1, InTx
  <2>3. Target(s).quantity \in Int
    BY <2>2
  <2> QED
    BY <1>5, <2>1, <2>3
<1>7. ASSUME NEW s \in Session, GiveBack(s)
      PROVE  Alone'
  <2>1. PICK change : change = IF Target(s).quantity < Current(s) THEN 0 - Target(s).quantity
                               ELSE 0 - Current(s)
    OBVIOUS
  <2>2. tx[s].pc = "release" /\ tx[s].todo # <<>> /\ LockAndWrite(s, change)
    BY <1>7, <2>1 DEF GiveBack
  <2>3. tx[s] \in TxRecord /\ Target(s).quantity \in Nat /\ Target(s).product \in Product
    BY <2>2, InTx
  <2>4. change \in Int /\ tx[s].pc # "none"
    BY <2>1, <2>2, <2>3 DEF Current, Typed, TxRecord
  <2> QED
    BY <1>5, <2>2, <2>4
<1>8. ASSUME NEW s \in Session, LockRows(s)
      PROVE  Alone'
  <2>1. PICK o, T : o = tx[s].order /\ T = tx[s].taken \cap Having(rows[o], "active")
    OBVIOUS
  <2>2. /\ tx[s].pc = "rows"
        /\ tx'[s].pc = "release" /\ tx'[s].order = o /\ tx'[s].taken = T
        /\ \A t \in Session \ {s} : tx'[t] = tx[t]
    BY <1>8, <2>1, Locked
  <2>3. rows' = rows
    BY <1>8 DEF LockRows
  <2>4. Having(rows[o], "active") \subseteq tx'[s].taken
    BY <2>1, <2>2 DEF Alone, InRelease
  <2>5. \A t \in Session \ {s} : tx[t].pc = "reserve" => tx[t].order # o
    BY <2>1, <2>2 DEF Alone, InRelease
  <2>6. tx'[s].pc # "reserve"
    BY <2>2
  <2> QED
    BY <1>2, <2>2, <2>3, <2>4, <2>5, <2>6
<1>9. ASSUME NEW s \in Session, Rollback(s)
      PROVE  Alone'
  <2>1. tx'[s] = NoTx /\ (\A t \in Session \ {s} : tx'[t] = tx[t]) /\ rows' = rows
    BY <1>9, Ended DEF Rollback
  <2> QED
    BY <1>1, <2>1 DEF NoTx
<1>10. ASSUME NEW s \in Session, CommitReserve(s)
       PROVE  Alone'
  <2>1. tx[s].pc = "reserve" /\ tx[s].pc # "none" /\ End(s)
    BY <1>10 DEF CommitReserve
  <2>2. tx'[s] = NoTx /\ \A t \in Session \ {s} : tx'[t] = tx[t]
    BY <2>1, Ended
  <2>3. PICK list : rows' = [rows EXCEPT ![tx[s].order] = list]
    BY <1>10 DEF CommitReserve
  <2>4. \A t \in Session : InRelease(t) => tx[t].order # tx[s].order /\ tx[t].order \in Order
    <3>1. \A t \in Session : InRelease(t) => tx[t].order \in Order
      BY InTx DEF InRelease, TxRecord
    <3> QED
      BY <2>1, <3>1 DEF Alone
  <2>5. \A t \in Session : InRelease(t) => rows'[tx[t].order] = rows[tx[t].order]
    BY <2>3, <2>4 DEF Typed
  <2> QED
    BY <1>1, <2>2, <2>5 DEF NoTx
<1>11. ASSUME NEW s \in Session, CommitRelease(s)
       PROVE  Alone'
  <2>1. tx[s].pc = "release" /\ tx[s].pc # "none" /\ End(s)
    BY <1>11 DEF CommitRelease
  <2>2. tx'[s] = NoTx /\ \A t \in Session \ {s} : tx'[t] = tx[t]
    BY <2>1, Ended
  <2>3. PICK o, T : o = tx[s].order /\ T = tx[s].taken
    OBVIOUS
  <2>4. tx[s] \in TxRecord /\ SoFar(s)
    BY <2>1, InTx DEF AllSoFar
  <2>5. /\ o \in Order /\ rows[o] \in Seq(Row) /\ T \in SUBSET Having(rows[o], "active")
        /\ rows' = [rows EXCEPT ![o] = Updates(rows[o], T)]
    BY <1>11, <2>3, <2>4, ReleaseCommitted
  <2>6. Having(Updates(rows[o], T), "active") = Having(rows[o], "active") \ T
    BY <2>5, RowsUpdated
  <2>7. \A q \in Order : Having(rows'[q], "active") \subseteq Having(rows[q], "active")
    BY <2>5, <2>6 DEF Typed
  <2>8. \A t \in Session : InRelease(t) => tx[t].order \in Order
    BY InTx DEF InRelease, TxRecord
  <2> QED
    BY <1>1, <2>2, <2>7, <2>8 DEF NoTx
<1>12. ASSUME UNCHANGED txVars
       PROVE  Alone'
  BY <1>12 DEF Alone, InRelease, txVars
<1> QED
  BY <1>3, <1>4, <1>6, <1>7, <1>8, <1>9, <1>10, <1>11, <1>12
     DEF TxNext, SessionStep, RefuseItem, DeadlockDetected, TxFail

(* The reservations that stand in a list of rows, and those of all orders. *)
InRows(list) == [active   |-> [p \in Product |-> Counted(list, p, Having(list, "active"))],
                 released |-> [p \in Product |-> Counted(list, p, Having(list, "released"))]]
Standing == [o \in Order |-> InRows(rows[o])]

(* What the ledger's reservations stand for. *)
LEMMA MappedIsStanding ==
    [o \in Order |->
        [active   |-> [p \in Product |-> Units(o, p, WithStatus(o, "active"))],
         released |-> [p \in Product |-> Units(o, p, WithStatus(o, "released"))]]] = Standing
<1>1. \A o \in Order : \A status :
          [p \in Product |-> Units(o, p, WithStatus(o, status))]
            = [p \in Product |-> Counted(rows[o], p, Having(rows[o], status))]
  BY UnitsAreCounted, StatusIsHad
<1> QED
  BY <1>1 DEF Standing, InRows

(* A list of items asks the same of the ledger. *)
LEMMA LedgerItems ==
    /\ Ledger!ValidCart = ValidCart
    /\ \A items : Ledger!Wanted(items) = Wanted(items)
    /\ \A items, p : Ledger!Demand(items, p) = Demand(items, p)
<1>1. Ledger!ValidCart = ValidCart
  BY DEF Ledger!ValidCart, Ledger!Validate, ValidCart, Validate
<1>2. \A items : Ledger!Wanted(items) = Wanted(items)
  BY DEF Ledger!Wanted, Wanted
<1>3. \A items, p : Ledger!Demand(items, p) = Demand(items, p)
  <2>1. ASSUME NEW f
        PROVE  Ledger!SumFunction(f) = SumFunction(f)
    <3>1. ASSUME NEW S
          PROVE  Ledger!SumFunctionOnSet(f, S) = SumFunctionOnSet(f, S)
      BY DEF Ledger!SumFunctionOnSet, Ledger!FoldFunctionOnSet, Ledger!MapThenFoldSet,
             SumFunctionOnSet, FoldFunctionOnSet, MapThenFoldSet
    <3> QED
      BY <3>1 DEF Ledger!SumFunction, SumFunction
  <2> QED
    BY <2>1 DEF Ledger!Demand, Demand
<1> QED
  BY <1>1, <1>2, <1>3

LEMMA MappedIsStandingNext ==
    [o \in Order |->
        [active   |-> [p \in Product |-> Units(o, p, WithStatus(o, "active"))],
         released |-> [p \in Product |-> Units(o, p, WithStatus(o, "released"))]]]' = Standing'
<1>1. \A o, status : WithStatus(o, status)' = Having(rows'[o], status)
  BY DEF WithStatus, Having
<1>2. \A o, p, R : Units(o, p, R)' = Counted(rows'[o], p, R)
  BY DEF Units, Counted, Share, SumFunction
<1>3. \A o \in Order : \A status :
          [p \in Product |-> Units(o, p, WithStatus(o, status))]'
            = [p \in Product |-> Counted(rows'[o], p, Having(rows'[o], status))]
  BY <1>1, <1>2
<1> QED
  BY <1>3 DEF Standing, InRows

(* A reserve that commits is a reserve of the ledger ... *)
LEMMA CommitReserves ==
    ASSUME TxInv, NEW s \in Session, CommitReserve(s)
    PROVE  Ledger!LedgerNext
<1>1. Typed /\ AllSoFar
  BY DEF TxInv
<1>2. PICK o, items, list, more : /\ o = tx[s].order /\ items = cart[o] /\ list = rows[o]
                                  /\ more = list \o Inserts(items)
  OBVIOUS
<1>3. SoFar(s)
  <2>1. tx[s].pc # "none"
    BY DEF CommitReserve
  <2> QED
    BY <1>1, <2>1, InTx DEF AllSoFar
<1>4. /\ o \in Order /\ list \in Seq(Row) /\ items \in ValidCart /\ Wanted(items) \subseteq Product
      /\ rows' = [rows EXCEPT ![o] = more]
      /\ stock' = [p \in Product |-> stock[p] + Demand(items, p)]
      /\ \A p \in Product : Demand(items, p) > 0 => Demand(items, p) <= StockLevel[p] - stock[p]
  BY <1>1, <1>2, <1>3, ReserveCommitted
<1>5. /\ \A p : Counted(more, p, Having(more, "active"))
                  = Counted(list, p, Having(list, "active")) + Demand(items, p)
      /\ \A p : Counted(more, p, Having(more, "released")) = Counted(list, p, Having(list, "released"))
  <2>1. /\ \A p : Counted(more, p, Having(more, "active"))
                    = Counted(list, p, Having(list, "active")) + Demand(items, p)
        /\ Having(more, "released") = Having(list, "released")
        /\ \A p : Counted(more, p, Having(list, "released")) = Counted(list, p, Having(list, "released"))
    <3>1. more = list \o Inserts(items)
      BY <1>2
    <3> QED
      BY <1>4, <3>1, RowsInserted
  <2> QED
    BY <2>1
<1>6. PICK f : f = Standing
  OBVIOUS
<1>7. f[o] = InRows(list) /\ rows \in [Order -> Seq(Row)]
  BY <1>1, <1>2, <1>4, <1>6 DEF Standing, Typed
<1>8. InRows(more) = [InRows(list) EXCEPT !.active = [p \in Product |-> @[p] + Demand(items, p)]]
  <2>1. PICK g, h : /\ g = [p \in Product |-> Counted(list, p, Having(list, "active"))]
                    /\ h = [p \in Product |-> Counted(list, p, Having(list, "released"))]
    OBVIOUS
  <2>2. /\ [p \in Product |-> Counted(more, p, Having(more, "active"))]
             = [p \in Product |-> g[p] + Demand(items, p)]
        /\ [p \in Product |-> Counted(more, p, Having(more, "released"))] = h
    BY <1>5, <2>1
  <2>3. InRows(list) = [active |-> g, released |-> h]
    BY <2>1 DEF InRows
  <2>4. InRows(more) = [active |-> [p \in Product |-> g[p] + Demand(items, p)], released |-> h]
    BY <2>2 DEF InRows
  <2> QED
    BY <2>3, <2>4
<1>9. Standing' = [f EXCEPT ![o].active = [p \in Product |-> @[p] + Demand(items, p)]]
  <2>1. Standing' = [f EXCEPT ![o] = InRows(more)]
    BY <1>4, <1>6, <1>7 DEF Standing
  <2> QED
    BY <1>6, <1>7, <1>8, <2>1 DEF Standing
<1>10. Ledger!CanReserve(items)
  <2>1. \A p \in Wanted(items) : Demand(items, p) <= StockLevel[p] - stock[p]
    BY <1>4, DemandIsWanted
  <2> QED
    BY <1>4, <2>1, LedgerItems DEF Ledger!CanReserve, Ledger!Available
<1>11. Ledger!ReserveOrder(o, items)
  <2>1. stock' = [p \in Product |-> stock[p] + Ledger!Demand(items, p)]
    BY <1>4, LedgerItems
  <2>2. Standing' = [Standing EXCEPT ![o].active = [p \in Product |-> @[p] + Ledger!Demand(items, p)]]
    BY <1>6, <1>9, LedgerItems
  <2> QED
    BY <2>1, <2>2, MappedIsStanding, MappedIsStandingNext, ZenonT(40) DEF Ledger!ReserveOrder
<1> QED
  BY <1>4, <1>10, <1>11, LedgerItems DEF Ledger!LedgerNext

(* ... a release that commits is a release ... *)
LEMMA CommitReleases ==
    ASSUME IsFiniteSet(Order), TxInv, Alone, NEW s \in Session, CommitRelease(s)
    PROVE  Ledger!LedgerNext
<1>1. Typed /\ AllSoFar /\ \A p \in Product : ExactTx(p)
  BY DEF TxInv
<1>2. PICK o, T, list, new : /\ o = tx[s].order /\ T = tx[s].taken /\ list = rows[o]
                             /\ new = Updates(list, T)
  OBVIOUS
<1>3. SoFar(s)
  <2>1. tx[s].pc # "none"
    BY DEF CommitRelease
  <2> QED
    BY <1>1, <2>1, InTx DEF AllSoFar
<1>4. /\ o \in Order /\ list \in Seq(Row) /\ T \in SUBSET Having(list, "active")
      /\ rows' = [rows EXCEPT ![o] = new]
      /\ stock' = [p \in Product |-> stock[p] - Counted(list, p, T)]
  BY <1>1, <1>2, <1>3, ReleaseCommitted
<1>5. T = Having(list, "active")
  <2>1. Having(list, "active") \subseteq T
    BY <1>2 DEF CommitRelease, Alone, InRelease
  <2> QED
    BY <1>4, <2>1
<1>6. /\ Having(new, "active") = {}
      /\ \A p : Counted(new, p, Having(new, "released"))
                  = Counted(list, p, Having(list, "released")) + Counted(list, p, T)
  BY <1>2, <1>4, <1>5, RowsUpdated
<1>7. PICK f : f = Standing
  OBVIOUS
<1>8. f[o] = InRows(list) /\ rows \in [Order -> Seq(Row)]
  BY <1>1, <1>2, <1>4, <1>7 DEF Standing, Typed
<1>9. PICK g, h : /\ g = [p \in Product |-> Counted(list, p, Having(list, "active"))]
                  /\ h = [p \in Product |-> Counted(list, p, Having(list, "released"))]
  OBVIOUS
<1>10. f[o] = [active |-> g, released |-> h]
  BY <1>8, <1>9 DEF InRows
<1>11. InRows(new) = [active |-> Ledger!NoUnits, released |-> [p \in Product |-> h[p] + g[p]]]
  <2>1. \A p : Counted(new, p, {}) = 0
    BY SumOfNothing DEF Counted
  <2>2. [p \in Product |-> Counted(new, p, Having(new, "active"))] = Ledger!NoUnits
    BY <1>6, <2>1 DEF Ledger!NoUnits
  <2>3. [p \in Product |-> Counted(new, p, Having(new, "released"))] = [p \in Product |-> h[p] + g[p]]
    BY <1>5, <1>6, <1>9
  <2> QED
    BY <2>2, <2>3 DEF InRows
<1>12. Standing' = [f EXCEPT ![o] = [active   |-> Ledger!NoUnits,
                                     released |-> [p \in Product |-> f[o].released[p] + f[o].active[p]]]]
  <2>1. Standing' = [f EXCEPT ![o] = InRows(new)]
    BY <1>4, <1>7, <1>8 DEF Standing
  <2>2. f[o].active = g /\ f[o].released = h
    BY <1>10
  <2> QED
    BY <1>11, <2>1, <2>2
<1>13. stock' = [p \in Product |-> IF f[o].active[p] < stock[p] THEN stock[p] - f[o].active[p] ELSE 0]
  <2>1. ASSUME NEW p \in Product
        PROVE  stock[p] - Counted(list, p, T) = IF g[p] < stock[p] THEN stock[p] - g[p] ELSE 0
    <3>1. /\ Counted(list, p, T) \in Nat /\ Counted(list, p, T) = g[p]
          /\ g[p] <= stock[p] /\ stock[p] \in Int
      <4>1. g[p] = ActiveOf(p)[o] /\ Counted(list, p, T) = g[p]
        BY <1>2, <1>4, <1>5, <1>9 DEF ActiveOf
      <4>2. T \in SUBSET Having(rows[o], "active")
        BY <1>2, <1>4
      <4>3. Counted(rows[o], p, T) \in Nat /\ ActiveOf(p)[o] <= stock[p]
        BY <1>1, <1>4, <4>2, HeldIsCounted
      <4> QED
        BY <1>1, <1>2, <4>1, <4>3 DEF Typed
    <3> QED
      BY <3>1
  <2>2. f[o].active = g
    BY <1>10
  <2> QED
    BY <1>4, <2>1, <2>2
<1>14. Ledger!ReleaseOrder(o)
  <2>1. Standing' = [Standing EXCEPT ![o] =
            [active   |-> Ledger!NoUnits,
             released |-> [p \in Product |-> Standing[o].released[p] + Standing[o].active[p]]]]
    BY <1>7, <1>12
  <2>2. stock' = [p \in Product |-> IF Standing[o].active[p] < stock[p]
                                    THEN stock[p] - Standing[o].active[p] ELSE 0]
    BY <1>7, <1>13
  <2> DEFINE mapped == [q \in Order |->
            [active   |-> [p \in Product |-> Units(q, p, WithStatus(q, "active"))],
             released |-> [p \in Product |-> Units(q, p, WithStatus(q, "released"))]]]
  <2>3. mapped = Standing /\ mapped' = Standing'
    BY MappedIsStanding, MappedIsStandingNext
  <2>4. ASSUME mapped' = [mapped EXCEPT ![o] =
                  [active   |-> Ledger!NoUnits,
                   released |-> [p \in Product |-> mapped[o].released[p] + mapped[o].active[p]]]],
               stock' = [p \in Product |-> IF mapped[o].active[p] < stock[p]
                                           THEN stock[p] - mapped[o].active[p] ELSE 0]
        PROVE  Ledger!ReleaseOrder(o)
    BY <2>4 DEF Ledger!ReleaseOrder
  <2> HIDE DEF mapped
  <2> QED
    BY <2>1, <2>2, <2>3, <2>4
<1> QED
  BY <1>4, <1>14 DEF Ledger!LedgerNext

(* ... and nothing else can be seen in the tables. *)
LEMMA LedgerStep ==
    ASSUME IsFiniteSet(Order), TxInv, Alone, [TxNext]_txVars
    PROVE  [Ledger!LedgerNext]_(Ledger!ledgerVars)
<1>1. ASSUME UNCHANGED <<stock, rows>>
      PROVE  UNCHANGED Ledger!ledgerVars
  <2>1. stock' = stock /\ rows' = rows /\ Standing' = Standing
    BY <1>1 DEF Standing
  <2>2. [o \in Order |->
            [active   |-> [p \in Product |-> Units(o, p, WithStatus(o, "active"))],
             released |-> [p \in Product |-> Units(o, p, WithStatus(o, "released"))]]]'
          = [o \in Order |->
                [active   |-> [p \in Product |-> Units(o, p, WithStatus(o, "active"))],
                 released |-> [p \in Product |-> Units(o, p, WithStatus(o, "released"))]]]
    BY <2>1, MappedIsStanding, MappedIsStandingNext
  <2> QED
    BY <2>1, <2>2 DEF Ledger!ledgerVars
<1>2. ASSUME NEW s \in Session, NEW o \in Order, BeginReserve(s, o) \/ BeginRelease(s, o)
      PROVE  UNCHANGED <<stock, rows>>
  BY <1>2 DEF BeginReserve, BeginRelease, Begin
<1>3. ASSUME NEW s \in Session, ReserveItem(s) \/ GiveBack(s) \/ LockRows(s) \/ Rollback(s)
      PROVE  UNCHANGED <<stock, rows>>
  BY <1>3 DEF ReserveItem, GiveBack, LockAndWrite, LockRows, Rollback
<1>4. ASSUME UNCHANGED txVars
      PROVE  UNCHANGED <<stock, rows>>
  BY <1>4 DEF txVars
<1> QED
  BY <1>1, <1>2, <1>3, <1>4, CommitReserves, CommitReleases
     DEF TxNext, SessionStep, RefuseItem, DeadlockDetected, TxFail

(* As long as no rebalance gives two consumers one order at once, the      *)
(* transactions amount to the single steps of the ledger that the saga is  *)
(* built on: an order gets all its items or none, from stock nobody else   *)
(* takes between check and commit, and gives back all it holds             *)
(* (db.go:51-98, 100-142).                                                 *)
THEOREM TransactionsKeepLedger ==
    ASSUME IsFiniteSet(Order), Overlapping = {}
    PROVE  TxSpec => ImplementsLedger
<1>1. TxInit => Ledger!LedgerInit /\ Alone
  <2> SUFFICES ASSUME TxInit PROVE Ledger!LedgerInit /\ Alone
    OBVIOUS
  <2>1. \A o \in Order : rows[o] = <<>> /\ \A status : Having(rows[o], status) = {}
    BY DEF TxInit, Having
  <2>2. \A list, p : Counted(list, p, {}) = 0
    BY SumOfNothing DEF Counted
  <2>3. \A o \in Order : InRows(rows[o]) = [active |-> Ledger!NoUnits, released |-> Ledger!NoUnits]
    BY <2>1, <2>2 DEF InRows, Ledger!NoUnits
  <2>4. Standing = [o \in Order |-> [active |-> Ledger!NoUnits, released |-> Ledger!NoUnits]]
    BY <2>3 DEF Standing
  <2>5. Ledger!LedgerInit
    BY <2>4, MappedIsStanding DEF TxInit, Ledger!LedgerInit, Ledger!NoUnits
  <2>6. Alone
    BY DEF TxInit, NoTx, Alone, InRelease
  <2> QED
    BY <2>5, <2>6
<1>2. TxInv /\ Alone /\ [TxNext]_txVars => Alone' /\ [Ledger!LedgerNext]_(Ledger!ledgerVars)
  <2>1. TxInv => Typed /\ AllSoFar
    BY DEF TxInv
  <2> QED
    BY <2>1, AloneStep, LedgerStep
<1> QED
  BY <1>1, <1>2, AlwaysTxInv, PTL DEF TxSpec, ImplementsLedger, Ledger!LedgerSpec

=============================================================================
