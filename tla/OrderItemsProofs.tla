--------------------------- MODULE OrderItemsProofs ---------------------------
(***************************************************************************)
(* Sums over finite sets, and what they say of the item lists of orders.   *)
(*                                                                         *)
(* The sums of the community modules take the elements of a set in an      *)
(* order nobody knows.  What follows shows that the order does not matter, *)
(* and how a sum changes with its set and its summands.  Induction is over *)
(* families of subsets, of which a finite set has a smallest one.          *)
(***************************************************************************)
EXTENDS OrderItems, FiniteSetTheorems, WellFoundedInduction, SequenceTheorems, TLAPS

-----------------------------------------------------------------------------
(* Sums over finite sets. *)

(* A family of subsets of a finite set has a smallest. *)
LEMMA SmallestSet ==
    ASSUME NEW S, IsFiniteSet(S), NEW A, A \subseteq SUBSET S, A # {}
    PROVE  \E T \in A : \A U \in A : U \subseteq T => U = T
<1>1. IsWellFoundedOn(StrictSubsetOrdering(S), SUBSET S)
  BY FS_StrictSubsetOrderingWellFounded, FS_FiniteSubsetsOfFinite
<1>2. PICK T \in A : \A U \in A : <<U, T>> \notin StrictSubsetOrdering(S)
  BY <1>1, WFMin
<1> QED
  BY <1>2 DEF StrictSubsetOrdering

(* Induction over a finite set, one element at a time. *)
LEMMA OneByOne ==
    ASSUME NEW S, IsFiniteSet(S), NEW A, {} \in A,
           \A T \in SUBSET S, x \in S : T \in A /\ x \notin T => T \cup {x} \in A
    PROVE  S \in A
<1> SUFFICES ASSUME S \notin A PROVE FALSE
  OBVIOUS
<1>0. PICK B : B = (SUBSET S) \ A
  OBVIOUS
<1>1. PICK T \in B : \A U \in B : U \subseteq T => U = T
  BY <1>0, SmallestSet
<1>2. PICK x \in T : TRUE
  BY <1>0
<1>3. T \ {x} \in A
  BY <1>0, <1>1, <1>2
<1>4. (T \ {x}) \cup {x} = T
  BY <1>2
<1> QED
  BY <1>0, <1>2, <1>3, <1>4

(* The element of T that a sum starts with. *)
Pick(T) == CHOOSE x \in T : TRUE

(* g adds f up over the subsets of S, taking the elements in the order of  *)
(* Pick, as SumFunctionOnSet does.                                         *)
AddsUp(g, f, S) ==
    g = [T \in SUBSET S |-> IF T = {} THEN 0 ELSE f[Pick(T)] + g[T \ {Pick(T)}]]

LEMMA SumIs ==
    ASSUME NEW f, NEW S
    PROVE  SumFunctionOnSet(f, S) = (CHOOSE g : AddsUp(g, f, S))[S]
BY DEF SumFunctionOnSet, FoldFunctionOnSet, MapThenFoldSet, AddsUp, Pick

(* There is one such g, whatever set it is for. *)
LEMMA AddsUpAlike ==
    ASSUME NEW f, NEW S, IsFiniteSet(S), NEW T, NEW g, AddsUp(g, f, S), NEW h, AddsUp(h, f, T),
           NEW U, U \subseteq S, U \subseteq T
    PROVE  g[U] = h[U]
<1> SUFFICES ASSUME g[U] # h[U] PROVE FALSE
  OBVIOUS
<1>1. PICK D : D = { V \in SUBSET U : g[V] # h[V] }
  OBVIOUS
<1>2. IsFiniteSet(U) /\ D \subseteq SUBSET U /\ D # {}
  BY <1>1, FS_Subset
<1>3. PICK V \in D : \A W \in D : W \subseteq V => W = V
  BY <1>2, SmallestSet
<1>4. V \in SUBSET S /\ V \in SUBSET T
  BY <1>1
<1>5. g[V] = IF V = {} THEN 0 ELSE f[Pick(V)] + g[V \ {Pick(V)}]
  BY <1>4 DEF AddsUp
<1>6. h[V] = IF V = {} THEN 0 ELSE f[Pick(V)] + h[V \ {Pick(V)}]
  BY <1>4 DEF AddsUp
<1>7. V # {} => V \ {Pick(V)} \notin D
  BY <1>3 DEF Pick
<1> QED
  BY <1>1, <1>5, <1>6, <1>7

LEMMA AddsUpExists ==
    ASSUME NEW f, NEW S, IsFiniteSet(S)
    PROVE  \E g : AddsUp(g, f, S)
<1> SUFFICES ASSUME ~ \E g : AddsUp(g, f, S) PROVE FALSE
  OBVIOUS
<1>1. PICK D : D = { T \in SUBSET S : ~ \E g : AddsUp(g, f, T) }
  OBVIOUS
<1>2. PICK T \in D : \A U \in D : U \subseteq T => U = T
  <2>1. D \subseteq SUBSET S /\ D # {}
    BY <1>1
  <2> QED
    BY <2>1, SmallestSet
<1>3. \A U \in SUBSET T : U # T => \E g : AddsUp(g, f, U)
  BY <1>1, <1>2
<1>4. PICK sum : sum = [U \in SUBSET T |-> (CHOOSE g : AddsUp(g, f, U))[U]]
  OBVIOUS
<1>5. PICK g : g = [U \in SUBSET T |-> IF U = {} THEN 0 ELSE f[Pick(U)] + sum[U \ {Pick(U)}]]
  OBVIOUS
<1>6. ASSUME NEW U \in SUBSET T, U # T
      PROVE  g[U] = sum[U]
  <2>1. PICK h : h = CHOOSE k : AddsUp(k, f, U)
    OBVIOUS
  <2>2. AddsUp(h, f, U) /\ sum[U] = h[U]
    BY <1>3, <1>4, <1>6, <2>1
  <2>3. h[U] = IF U = {} THEN 0 ELSE f[Pick(U)] + h[U \ {Pick(U)}]
    BY <2>2 DEF AddsUp
  <2>4. ASSUME U # {}
        PROVE  h[U \ {Pick(U)}] = sum[U \ {Pick(U)}]
    <3>1. PICK V : V = U \ {Pick(U)}
      OBVIOUS
    <3>2. V \in SUBSET T /\ V # T /\ V \subseteq U
      BY <1>6, <2>4, <3>1 DEF Pick
    <3>3. PICK k : k = CHOOSE l : AddsUp(l, f, V)
      OBVIOUS
    <3>4. AddsUp(k, f, V) /\ sum[V] = k[V]
      BY <1>3, <1>4, <3>2, <3>3
    <3>5. IsFiniteSet(V)
      BY <1>1, <3>2, FS_Subset
    <3>6. k[V] = h[V]
      BY <2>2, <3>2, <3>4, <3>5, AddsUpAlike
    <3> QED
      BY <3>1, <3>4, <3>6
  <2> QED
    BY <1>5, <2>2, <2>3, <2>4
<1>7. AddsUp(g, f, T)
  <2>1. \A U \in SUBSET T : U # {} => g[U \ {Pick(U)}] = sum[U \ {Pick(U)}]
    BY <1>6 DEF Pick
  <2> QED
    BY <1>5, <2>1 DEF AddsUp
<1> QED
  BY <1>1, <1>7

(* A sum over a finite set, one step unfolded. *)
LEMMA SumUnfolds ==
    ASSUME NEW f, NEW S, IsFiniteSet(S)
    PROVE  SumFunctionOnSet(f, S) =
             IF S = {} THEN 0 ELSE f[Pick(S)] + SumFunctionOnSet(f, S \ {Pick(S)})
<1>1. PICK g : g = CHOOSE h : AddsUp(h, f, S)
  OBVIOUS
<1>2. AddsUp(g, f, S) /\ SumFunctionOnSet(f, S) = g[S]
  BY <1>1, AddsUpExists, SumIs
<1>3. g[S] = IF S = {} THEN 0 ELSE f[Pick(S)] + g[S \ {Pick(S)}]
  BY <1>2 DEF AddsUp
<1>4. ASSUME S # {}
      PROVE  g[S \ {Pick(S)}] = SumFunctionOnSet(f, S \ {Pick(S)})
  <2>1. PICK T : T = S \ {Pick(S)}
    OBVIOUS
  <2>2. IsFiniteSet(T) /\ T \subseteq S
    BY <2>1, FS_Subset
  <2>3. PICK h : h = CHOOSE k : AddsUp(k, f, T)
    OBVIOUS
  <2>4. AddsUp(h, f, T) /\ SumFunctionOnSet(f, T) = h[T]
    BY <2>2, <2>3, AddsUpExists, SumIs
  <2>5. g[T] = h[T]
    BY <1>2, <2>2, <2>4, AddsUpAlike
  <2> QED
    BY <2>1, <2>4, <2>5
<1> QED
  BY <1>2, <1>3, <1>4

LEMMA SumOfNothing == \A f : SumFunctionOnSet(f, {}) = 0
BY SumUnfolds, FS_EmptySet

LEMMA SumIsInt ==
    ASSUME NEW S, IsFiniteSet(S), NEW f, \A x \in S : f[x] \in Int
    PROVE  SumFunctionOnSet(f, S) \in Int
<1> SUFFICES ASSUME SumFunctionOnSet(f, S) \notin Int PROVE FALSE
  OBVIOUS
<1>1. PICK D : D = { T \in SUBSET S : SumFunctionOnSet(f, T) \notin Int }
  OBVIOUS
<1>2. PICK T \in D : \A U \in D : U \subseteq T => U = T
  <2>1. D \subseteq SUBSET S /\ D # {}
    BY <1>1
  <2> QED
    BY <2>1, SmallestSet
<1>3. PICK x : x = Pick(T)
  OBVIOUS
<1>4. T \subseteq S /\ IsFiniteSet(T) /\ (T # {} => x \in T)
  BY <1>1, <1>3, FS_Subset DEF Pick
<1>5. SumFunctionOnSet(f, T) = IF T = {} THEN 0 ELSE f[x] + SumFunctionOnSet(f, T \ {x})
  BY <1>3, <1>4, SumUnfolds
<1>6. T # {} => SumFunctionOnSet(f, T \ {x}) \in Int
  BY <1>1, <1>2, <1>4
<1>7. SumFunctionOnSet(f, T) \in Int
  BY <1>4, <1>5, <1>6
<1> QED
  BY <1>1, <1>7

(* It does not matter which element is taken first. *)
LEMMA SumWithout ==
    ASSUME NEW S, IsFiniteSet(S), NEW f, \A x \in S : f[x] \in Int
    PROVE  \A x \in S : SumFunctionOnSet(f, S) = f[x] + SumFunctionOnSet(f, S \ {x})
<1> DEFINE Good(T) == \A x \in T : SumFunctionOnSet(f, T) = f[x] + SumFunctionOnSet(f, T \ {x})
<1> SUFFICES ASSUME ~ Good(S) PROVE FALSE
  OBVIOUS
<1>1. PICK D : D = { T \in SUBSET S : ~ Good(T) }
  OBVIOUS
<1>2. PICK T \in D : \A U \in D : U \subseteq T => U = T
  <2>1. D \subseteq SUBSET S /\ D # {}
    BY <1>1
  <2> QED
    BY <2>1, SmallestSet
<1>3. PICK x \in T : SumFunctionOnSet(f, T) # f[x] + SumFunctionOnSet(f, T \ {x})
  BY <1>1
<1>4. PICK y : y = Pick(T)
  OBVIOUS
<1>5. T \subseteq S /\ IsFiniteSet(T) /\ y \in T /\ x # y
  <2>1. T \subseteq S /\ IsFiniteSet(T) /\ y \in T
    BY <1>1, <1>4, FS_Subset DEF Pick
  <2> QED
    BY <1>3, <1>4, <2>1, SumUnfolds
<1>6. SumFunctionOnSet(f, T) = f[y] + SumFunctionOnSet(f, T \ {y})
  BY <1>3, <1>4, <1>5, SumUnfolds
<1>7. SumFunctionOnSet(f, T \ {y}) = f[x] + SumFunctionOnSet(f, (T \ {y}) \ {x})
  <2>1. Good(T \ {y})
    <3>1. T \ {y} # T /\ T \ {y} \in SUBSET S
      BY <1>5
    <3> QED
      BY <1>1, <1>2, <3>1
  <2>2. x \in T \ {y}
    BY <1>5
  <2> QED
    BY <2>1, <2>2
<1>8. SumFunctionOnSet(f, T \ {x}) = f[y] + SumFunctionOnSet(f, (T \ {y}) \ {x})
  <2>1. Good(T \ {x})
    <3>1. T \ {x} # T /\ T \ {x} \in SUBSET S
      BY <1>5
    <3> QED
      BY <1>1, <1>2, <3>1
  <2>2. y \in T \ {x} /\ (T \ {x}) \ {y} = (T \ {y}) \ {x}
    BY <1>5
  <2> QED
    BY <2>1, <2>2
<1>9. /\ f[x] \in Int /\ f[y] \in Int
      /\ SumFunctionOnSet(f, (T \ {y}) \ {x}) \in Int
  <2>1. IsFiniteSet((T \ {y}) \ {x})
    BY <1>5, FS_Subset
  <2> QED
    BY <1>5, <2>1, SumIsInt
<1> QED
  BY <1>3, <1>6, <1>7, <1>8, <1>9

LEMMA SumWith ==
    ASSUME NEW S, IsFiniteSet(S), NEW x, x \notin S, NEW f, \A y \in S \cup {x} : f[y] \in Int
    PROVE  SumFunctionOnSet(f, S \cup {x}) = SumFunctionOnSet(f, S) + f[x]
<1>1. IsFiniteSet(S \cup {x}) /\ x \in S \cup {x}
  BY FS_AddElement
<1>2. SumFunctionOnSet(f, S \cup {x}) = f[x] + SumFunctionOnSet(f, (S \cup {x}) \ {x})
  BY <1>1, SumWithout
<1>3. (S \cup {x}) \ {x} = S
  OBVIOUS
<1>4. f[x] \in Int /\ SumFunctionOnSet(f, S) \in Int
  BY SumIsInt
<1>5. SumFunctionOnSet(f, (S \cup {x}) \ {x}) = SumFunctionOnSet(f, S)
  BY <1>3
<1> QED
  BY <1>2, <1>4, <1>5

(* The sum goes by the values of f on the set, and by nothing else. *)
LEMMA SumSame ==
    ASSUME NEW S, IsFiniteSet(S), NEW f, NEW g, \A x \in S : f[x] = g[x] /\ f[x] \in Int
    PROVE  SumFunctionOnSet(f, S) = SumFunctionOnSet(g, S)
<1>1. PICK A : A = { T \in SUBSET S : SumFunctionOnSet(f, T) = SumFunctionOnSet(g, T) }
  OBVIOUS
<1>2. ASSUME NEW T \in SUBSET S, NEW x \in S, T \in A, x \notin T
      PROVE  T \cup {x} \in A
  <2>1. IsFiniteSet(T)
    BY FS_Subset
  <2>2. /\ SumFunctionOnSet(f, T \cup {x}) = SumFunctionOnSet(f, T) + f[x]
        /\ SumFunctionOnSet(g, T \cup {x}) = SumFunctionOnSet(g, T) + g[x]
    BY <1>2, <2>1, SumWith
  <2> QED
    BY <1>1, <1>2, <2>2
<1>3. {} \in A
  BY <1>1, SumOfNothing
<1>4. S \in A
  BY <1>2, <1>3, OneByOne
<1> QED
  BY <1>1, <1>4

(* Numbers that are not negative add up to one that is not negative, and   *)
(* positive if one of them is.                                             *)
LEMMA SumOfNaturals ==
    ASSUME NEW S, IsFiniteSet(S), NEW f, \A x \in S : f[x] \in Nat
    PROVE  /\ SumFunctionOnSet(f, S) \in Nat
           /\ SumFunctionOnSet(f, S) > 0 <=> \E x \in S : f[x] > 0
<1>1. PICK A : A = { T \in SUBSET S : /\ SumFunctionOnSet(f, T) \in Nat
                                      /\ SumFunctionOnSet(f, T) > 0 <=> \E x \in T : f[x] > 0 }
  OBVIOUS
<1>2. ASSUME NEW T \in SUBSET S, NEW x \in S, T \in A, x \notin T
      PROVE  T \cup {x} \in A
  <2>1. IsFiniteSet(T)
    BY FS_Subset
  <2>2. SumFunctionOnSet(f, T \cup {x}) = SumFunctionOnSet(f, T) + f[x]
    <3>1. \A y \in T \cup {x} : f[y] \in Int
      OBVIOUS
    <3> QED
      BY <1>2, <2>1, <3>1, SumWith
  <2>3. SumFunctionOnSet(f, T) + f[x] > 0 <=> SumFunctionOnSet(f, T) > 0 \/ f[x] > 0
    BY <1>1, <1>2
  <2> QED
    BY <1>1, <1>2, <2>2, <2>3
<1>3. {} \in A
  BY <1>1, SumOfNothing
<1>4. S \in A
  BY <1>2, <1>3, OneByOne
<1> QED
  BY <1>1, <1>4

(* One value changes. *)
LEMMA SumChanges ==
    ASSUME NEW S, IsFiniteSet(S), NEW f, NEW g, NEW x \in S,
           \A y \in S : f[y] \in Int /\ g[y] \in Int, \A y \in S \ {x} : g[y] = f[y]
    PROVE  SumFunctionOnSet(g, S) = SumFunctionOnSet(f, S) + g[x] - f[x]
<1>1. IsFiniteSet(S \ {x})
  BY FS_Subset
<1>2. /\ SumFunctionOnSet(f, S) = f[x] + SumFunctionOnSet(f, S \ {x})
      /\ SumFunctionOnSet(g, S) = g[x] + SumFunctionOnSet(g, S \ {x})
  BY SumWithout
<1>3. SumFunctionOnSet(f, S \ {x}) = SumFunctionOnSet(g, S \ {x})
  BY <1>1, SumSame
<1>4. SumFunctionOnSet(f, S \ {x}) \in Int
  BY <1>1, SumIsInt
<1> QED
  BY <1>2, <1>3, <1>4

(* Two sums over one set. *)
LEMMA SumOfSums ==
    ASSUME NEW S, IsFiniteSet(S), NEW f, NEW g, NEW h,
           \A x \in S : f[x] \in Int /\ g[x] \in Int /\ h[x] = f[x] + g[x]
    PROVE  SumFunctionOnSet(h, S) = SumFunctionOnSet(f, S) + SumFunctionOnSet(g, S)
<1>1. PICK A : A = { T \in SUBSET S : SumFunctionOnSet(h, T) =
                                        SumFunctionOnSet(f, T) + SumFunctionOnSet(g, T) }
  OBVIOUS
<1>2. ASSUME NEW T \in SUBSET S, NEW x \in S, T \in A, x \notin T
      PROVE  T \cup {x} \in A
  <2>1. IsFiniteSet(T)
    BY FS_Subset
  <2>2. /\ SumFunctionOnSet(f, T \cup {x}) = SumFunctionOnSet(f, T) + f[x]
        /\ SumFunctionOnSet(g, T \cup {x}) = SumFunctionOnSet(g, T) + g[x]
        /\ SumFunctionOnSet(h, T \cup {x}) = SumFunctionOnSet(h, T) + h[x]
    <3>1. \A y \in T \cup {x} : f[y] \in Int /\ g[y] \in Int /\ h[y] \in Int
      OBVIOUS
    <3> QED
      BY <1>2, <2>1, <3>1, SumWith
  <2>3. SumFunctionOnSet(f, T) \in Int /\ SumFunctionOnSet(g, T) \in Int
    BY <2>1, SumIsInt
  <2> QED
    BY <1>1, <1>2, <2>2, <2>3
<1>3. {} \in A
  BY <1>1, SumOfNothing
<1>4. S \in A
  BY <1>2, <1>3, OneByOne
<1> QED
  BY <1>1, <1>4

(* A sum over two sets that have nothing in common. *)
LEMMA SumOfUnion ==
    ASSUME NEW S, IsFiniteSet(S), NEW T, IsFiniteSet(T), S \cap T = {},
           NEW f, \A x \in S \cup T : f[x] \in Int
    PROVE  SumFunctionOnSet(f, S \cup T) = SumFunctionOnSet(f, S) + SumFunctionOnSet(f, T)
<1>1. PICK A : A = { U \in SUBSET T : SumFunctionOnSet(f, S \cup U) =
                                        SumFunctionOnSet(f, S) + SumFunctionOnSet(f, U) }
  OBVIOUS
<1>2. ASSUME NEW U \in SUBSET T, NEW x \in T, U \in A, x \notin U
      PROVE  U \cup {x} \in A
  <2>1. IsFiniteSet(U) /\ IsFiniteSet(S \cup U) /\ x \notin S \cup U
    BY <1>2, FS_Subset, FS_Union
  <2>2. /\ SumFunctionOnSet(f, (S \cup U) \cup {x}) = SumFunctionOnSet(f, S \cup U) + f[x]
        /\ SumFunctionOnSet(f, U \cup {x}) = SumFunctionOnSet(f, U) + f[x]
    BY <1>2, <2>1, SumWith
  <2>3. (S \cup U) \cup {x} = S \cup (U \cup {x})
    OBVIOUS
  <2>4. SumFunctionOnSet(f, S) \in Int /\ SumFunctionOnSet(f, U) \in Int /\ f[x] \in Int
    BY <2>1, SumIsInt
  <2>5. SumFunctionOnSet(f, S \cup (U \cup {x})) = SumFunctionOnSet(f, S \cup U) + f[x]
    BY <2>2, <2>3
  <2> QED
    BY <1>1, <1>2, <2>2, <2>4, <2>5
<1>3. {} \in A
  <2>1. S \cup {} = S /\ SumFunctionOnSet(f, S) \in Int
    BY SumIsInt
  <2> QED
    BY <1>1, <2>1, SumOfNothing
<1>4. T \in A
  BY <1>2, <1>3, OneByOne
<1> QED
  BY <1>1, <1>4

-----------------------------------------------------------------------------
(* Carts. *)

(* The items of an order, or of an event that carries none. *)
LEMMA ItemsAreList ==
    ASSUME NEW items \in ValidCart \cup {<<>>}
    PROVE  /\ items \in Seq(Range(items))
           /\ Len(items) \in Nat /\ DOMAIN items = 1..Len(items)
           /\ IsFiniteSet(DOMAIN items)
           /\ \A i \in DOMAIN items : items[i].quantity \in Nat \ {0} /\ items[i].unitPrice \in Nat
<1>1. CASE items = <<>>
  <2>1. items \in Seq(Range(items)) /\ Len(items) = 0 /\ DOMAIN items = {}
    BY <1>1
  <2> QED
    BY <2>1, FS_EmptySet
<1>2. CASE items \in ValidCart
  <2>1. /\ items \in Seq(Range(items))
        /\ \A i \in DOMAIN items : items[i].quantity \in Nat \ {0} /\ items[i].unitPrice \in Nat
    BY <1>2, CartAssumption DEF ValidCart, Validate
  <2>2. Len(items) \in Nat /\ DOMAIN items = 1..Len(items)
    BY <2>1, LenProperties
  <2> QED
    BY <2>1, <2>2, FS_Interval
<1> QED
  BY <1>1, <1>2

LEMMA TotalIsNat == \A items \in ValidCart : Total(items) \in Nat
<1> SUFFICES ASSUME NEW items \in ValidCart PROVE Total(items) \in Nat
  OBVIOUS
<1>1. PICK f : f = [i \in DOMAIN items |-> items[i].quantity * items[i].unitPrice]
  OBVIOUS
<1>2. IsFiniteSet(DOMAIN items) /\ \A i \in DOMAIN items : f[i] \in Nat
  BY <1>1, ItemsAreList
<1>3. Total(items) = SumFunctionOnSet(f, DOMAIN items)
  BY <1>1 DEF Total, SumFunction
<1> QED
  BY <1>2, <1>3, SumOfNaturals

(* What is not named is not asked for. *)
LEMMA DemandIsWanted ==
    \A items \in ValidCart \cup {<<>>} : \A p :
        /\ Demand(items, p) \in Nat
        /\ Demand(items, p) > 0 <=> p \in Wanted(items)
<1> SUFFICES ASSUME NEW items \in ValidCart \cup {<<>>}, NEW p
             PROVE  /\ Demand(items, p) \in Nat
                    /\ Demand(items, p) > 0 <=> p \in Wanted(items)
  OBVIOUS
<1>1. PICK f : f = [i \in DOMAIN items |-> IF items[i].product = p THEN items[i].quantity ELSE 0]
  OBVIOUS
<1>2. IsFiniteSet(DOMAIN items) /\ \A i \in DOMAIN items : f[i] \in Nat
  BY <1>1, ItemsAreList
<1>3. Demand(items, p) = SumFunctionOnSet(f, DOMAIN items)
  BY <1>1 DEF Demand, SumFunction
<1>4. p \in Wanted(items) <=> \E i \in DOMAIN items : f[i] > 0
  BY <1>1, ItemsAreList DEF Wanted
<1> QED
  BY <1>2, <1>3, <1>4, SumOfNaturals
=============================================================================
