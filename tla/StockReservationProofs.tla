----------------------- MODULE StockReservationProofs -----------------------
(***************************************************************************)
(* Proofs about the stock consumer, for any orders, products, seed data and *)
(* number of deliveries at a time.  Where deliveries do not overlap, no      *)
(* count falls below zero and the two loops are one step of an atomic stock  *)
(* service; where they do, a product is oversold by a bounded number of      *)
(* pieces until an update of it is lost, and lost updates only give back     *)
(* what reservations took.                                                   *)
(***************************************************************************)
EXTENDS StockRaces, StockOverlaps, FiniteSetTheorems, WellFoundedInduction, TLAPS

-----------------------------------------------------------------------------
(* Finite sets: a smallest one, and sums over them. *)

LEMMA LeastNat ==
    ASSUME NEW B \in SUBSET Nat, B # {}
    PROVE  \E n \in B : n - 1 \notin B
<1>1. PICK n \in B : \A m \in B : ~(<<m, n>> \in OpToRel(<, Nat))
  BY NatLessThanWellFounded, WFMin
<1>2. \A m \in B : ~(m < n)
  BY <1>1 DEF OpToRel
<1> QED
  BY <1>2

\* Of the subsets of a finite set, one in B of which nothing can be taken
\* without leaving B.
LEMMA LeastSet ==
    ASSUME NEW S, IsFiniteSet(S), NEW B \in SUBSET (SUBSET S), B # {}
    PROVE  \E T \in B : \A x \in T : T \ {x} \notin B
<1>1. ASSUME NEW T \in B
      PROVE  /\ Cardinality(T) \in Nat
             /\ \A x \in T : Cardinality(T \ {x}) = Cardinality(T) - 1
  BY FS_Subset, FS_CardinalityType, FS_RemoveElement
<1> DEFINE Sizes == {Cardinality(T) : T \in B}
<1>2. Sizes \in SUBSET Nat /\ Sizes # {}
  BY <1>1
<1>3. PICK n \in Sizes : n - 1 \notin Sizes
  BY <1>2, LeastNat
<1>4. PICK T \in B : Cardinality(T) = n
  BY <1>3
<1> QED
  BY <1>1, <1>3, <1>4

First(T) == CHOOSE x \in T : TRUE

LEMMA FirstOf == \A T : T # {} => First(T) \in T
  BY DEF First

\* g is the function SumFunctionOnSet folds f with, on a family F of sets.
Sums(f, F, g) ==
    g = [T \in F |-> IF T = {} THEN 0 ELSE f[First(T)] + g[T \ {First(T)}]]

Small(S, n) == {T \in SUBSET S : Cardinality(T) <= n}

LEMMA SmallRest ==
    ASSUME NEW S, IsFiniteSet(S), NEW n \in Nat, NEW T \in Small(S, n), T # {}
    PROVE  T \ {First(T)} \in Small(S, n - 1) /\ n # 0
<1>1. IsFiniteSet(T) /\ First(T) \in T
  BY FirstOf, FS_Subset DEF Small
<1>2. /\ Cardinality(T \ {First(T)}) = Cardinality(T) - 1
      /\ Cardinality(T) \in Nat /\ Cardinality(T \ {First(T)}) \in Nat
  BY <1>1, FS_RemoveElement, FS_CardinalityType
<1>3. Cardinality(T) <= n
  BY DEF Small
<1> QED
  BY <1>2, <1>3 DEF Small

LEMMA SumsExist ==
    ASSUME NEW f, NEW S, IsFiniteSet(S), NEW n \in Nat
    PROVE  \E g : Sums(f, Small(S, n), g)
<1> DEFINE Bad == {k \in Nat : ~\E g : Sums(f, Small(S, k), g)}
<1> SUFFICES ASSUME Bad # {} PROVE FALSE
  OBVIOUS
<1>1. PICK k \in Bad : k - 1 \notin Bad
  BY LeastNat
<1>2. k \in Nat /\ ~\E g : Sums(f, Small(S, k), g)
  OBVIOUS
<1>3. CASE k = 0
  <2>1. \A T \in Small(S, 0) : T = {}
    BY SmallRest
  <2>2. [T \in Small(S, 0) |-> 0] = [T \in Small(S, 0) |-> 
            IF T = {} THEN 0 ELSE f[First(T)] + [U \in Small(S, 0) |-> 0][T \ {First(T)}]]
    BY <2>1
  <2>3. Sums(f, Small(S, 0), [T \in Small(S, 0) |-> 0])
    BY <2>2 DEF Sums
  <2> QED
    BY <1>2, <1>3, <2>3
<1>4. CASE k # 0
  <2>1. k - 1 \in Nat
    BY <1>2, <1>4
  <2>2. PICK h : Sums(f, Small(S, k - 1), h)
    BY <1>1, <2>1
  <2> DEFINE g == [T \in Small(S, k) |->
                      IF T = {} THEN 0 ELSE f[First(T)] + h[T \ {First(T)}]]
  <2>3. ASSUME NEW T \in Small(S, k), T # {}
        PROVE  g[T \ {First(T)}] = h[T \ {First(T)}]
    <3>1. T \ {First(T)} \in Small(S, k - 1)
      BY <1>2, <2>3, SmallRest
    <3>2. T \ {First(T)} \in Small(S, k)
      <4>1. Cardinality(T \ {First(T)}) \in Nat
        BY FS_Subset, FS_CardinalityType DEF Small
      <4> QED
        BY <3>1, <4>1, <1>2 DEF Small
    <3> DEFINE R == T \ {First(T)}
    <3>3. h[R] = IF R = {} THEN 0 ELSE f[First(R)] + h[R \ {First(R)}]
      BY <2>2, <3>1 DEF Sums
    <3>4. g[R] = IF R = {} THEN 0 ELSE f[First(R)] + h[R \ {First(R)}]
      BY <3>2
    <3> QED
      BY <3>3, <3>4
  <2>4. g = [T \in Small(S, k) |-> IF T = {} THEN 0 ELSE f[First(T)] + g[T \ {First(T)}]]
    BY <2>3
  <2>5. Sums(f, Small(S, k), g)
    BY <2>4 DEF Sums
  <2> QED
    BY <1>2, <2>5
<1> QED
  BY <1>3, <1>4

\* The family does not matter.
LEMMA SumsAgree ==
    ASSUME NEW f, NEW S, IsFiniteSet(S), NEW R \in SUBSET S, NEW g, NEW h,
           Sums(f, SUBSET S, g), Sums(f, SUBSET R, h), NEW V \in SUBSET R
    PROVE  g[V] = h[V]
<1> DEFINE Bad == {T \in SUBSET R : g[T] # h[T]}
<1> SUFFICES ASSUME Bad # {} PROVE FALSE
  OBVIOUS
<1>1. IsFiniteSet(R)
  BY FS_Subset
<1>2. PICK T \in Bad : \A x \in T : T \ {x} \notin Bad
  BY <1>1, LeastSet
<1>3. T # {} => g[T \ {First(T)}] = h[T \ {First(T)}]
  BY <1>2, FirstOf
<1> QED
  BY <1>2, <1>3 DEF Sums

LEMMA SumIs ==
    ASSUME NEW f, NEW S, IsFiniteSet(S)
    PROVE  \E g : Sums(f, SUBSET S, g) /\ \A T \in SUBSET S : SumFunctionOnSet(f, T) = g[T]
<1>1. \A R : SumFunctionOnSet(f, R) = (CHOOSE g : Sums(f, SUBSET R, g))[R]
  BY DEF SumFunctionOnSet, FoldFunctionOnSet, MapThenFoldSet, Sums, First
<1>2. ASSUME NEW R \in SUBSET S PROVE \E g : Sums(f, SUBSET R, g)
  <2>1. IsFiniteSet(R) /\ Cardinality(R) \in Nat
    BY FS_Subset, FS_CardinalityType
  <2>2. Small(R, Cardinality(R)) = SUBSET R
    BY <2>1, FS_Subset DEF Small
  <2>3. \E g : Sums(f, Small(R, Cardinality(R)), g)
    BY <2>1, SumsExist
  <2> QED
    BY <2>2, <2>3
<1>3. PICK g : Sums(f, SUBSET S, g)
  BY <1>2
<1>4. ASSUME NEW T \in SUBSET S PROVE SumFunctionOnSet(f, T) = g[T]
  <2> DEFINE h == CHOOSE h : Sums(f, SUBSET T, h)
  <2>1. Sums(f, SUBSET T, h)
    BY <1>2
  <2> HIDE DEF h
  <2>2. g[T] = h[T]
    BY <1>3, <2>1, SumsAgree
  <2> QED
    BY <1>1, <2>2 DEF h
<1> QED
  BY <1>3, <1>4

LEMMA SumEmpty ==
    ASSUME NEW f
    PROVE  SumFunctionOnSet(f, {}) = 0
<1>1. IsFiniteSet({})
  BY FS_EmptySet
<1> QED
  BY <1>1, SumIs DEF Sums

LEMMA SumFirst ==
    ASSUME NEW f, NEW S, IsFiniteSet(S), S # {}
    PROVE  /\ First(S) \in S
           /\ SumFunctionOnSet(f, S) = f[First(S)] + SumFunctionOnSet(f, S \ {First(S)})
<1>1. PICK g : Sums(f, SUBSET S, g) /\ \A T \in SUBSET S : SumFunctionOnSet(f, T) = g[T]
  BY SumIs
<1>2. g[S] = f[First(S)] + g[S \ {First(S)}]
  BY <1>1 DEF Sums
<1> QED
  BY <1>1, <1>2, FirstOf

LEMMA SumInt ==
    ASSUME NEW f, NEW S, IsFiniteSet(S), \A x \in S : f[x] \in Int
    PROVE  SumFunctionOnSet(f, S) \in Int
<1> DEFINE Bad == {T \in SUBSET S : SumFunctionOnSet(f, T) \notin Int}
<1> SUFFICES ASSUME Bad # {} PROVE FALSE
  OBVIOUS
<1>1. PICK T \in Bad : \A x \in T : T \ {x} \notin Bad
  BY LeastSet
<1>2. SumFunctionOnSet(f, T) \notin Int /\ IsFiniteSet(T)
  BY FS_Subset
<1>5. T # {}
  BY <1>2, SumEmpty
<1>3. First(T) \in T
  BY <1>5, FirstOf
<1>4. SumFunctionOnSet(f, T \ {First(T)}) \in Int
  BY <1>1, <1>3
<1> QED
  BY <1>2, <1>3, <1>4, <1>5, SumFirst

\* Any element may be taken out.
LEMMA SumRemove ==
    ASSUME NEW f, NEW S, IsFiniteSet(S), \A x \in S : f[x] \in Int, NEW y \in S
    PROVE  SumFunctionOnSet(f, S) = f[y] + SumFunctionOnSet(f, S \ {y})
<1> DEFINE sum(T) == SumFunctionOnSet(f, T)
           Bad == {T \in SUBSET S : \E x \in T : sum(T) # f[x] + sum(T \ {x})}
<1>1. ASSUME NEW T \in SUBSET S
      PROVE  /\ sum(T) \in Int
             /\ T # {} => First(T) \in T /\ sum(T) = f[First(T)] + sum(T \ {First(T)})
  <2>1. IsFiniteSet(T)
    BY FS_Subset
  <2> QED
    BY <2>1, SumInt, SumFirst
<1> SUFFICES ASSUME Bad # {} PROVE FALSE
  OBVIOUS
<1>2. PICK T \in Bad : \A x \in T : T \ {x} \notin Bad
  BY LeastSet
<1>3. PICK x \in T : sum(T) # f[x] + sum(T \ {x})
  BY <1>2
<1> DEFINE c == First(T)
<1>4. c \in T /\ sum(T) = f[c] + sum(T \ {c})
  BY <1>1
<1> HIDE DEF sum, c
<1>5. c # x
  BY <1>3, <1>4
<1>7. sum(T \ {c}) = f[x] + sum((T \ {c}) \ {x})
  BY <1>2, <1>4, <1>5
<1>8. sum(T \ {x}) = f[c] + sum((T \ {x}) \ {c})
  BY <1>2, <1>4, <1>5
<1>9. sum((T \ {c}) \ {x}) = sum((T \ {x}) \ {c})
  <2>1. (T \ {c}) \ {x} = (T \ {x}) \ {c}
    OBVIOUS
  <2> QED
    BY <2>1
<1>10. sum((T \ {x}) \ {c}) \in Int /\ f[c] \in Int /\ f[x] \in Int
  BY <1>1, <1>4
<1>11. sum(T) = f[c] + (f[x] + sum((T \ {x}) \ {c}))
  BY <1>4, <1>7, <1>9
<1>12. f[x] + sum(T \ {x}) = f[x] + (f[c] + sum((T \ {x}) \ {c}))
  BY <1>8
<1> QED
  BY <1>3, <1>10, <1>11, <1>12

\* What f is outside of the set does not matter.
LEMMA SumSame ==
    ASSUME NEW f, NEW g, NEW S, IsFiniteSet(S), \A x \in S : f[x] = g[x]
    PROVE  SumFunctionOnSet(f, S) = SumFunctionOnSet(g, S)
<1> DEFINE Bad == {T \in SUBSET S : SumFunctionOnSet(f, T) # SumFunctionOnSet(g, T)}
<1> SUFFICES ASSUME Bad # {} PROVE FALSE
  OBVIOUS
<1>1. PICK T \in Bad : \A x \in T : T \ {x} \notin Bad
  BY LeastSet
<1>2. T # {} /\ IsFiniteSet(T)
  BY SumEmpty, FS_Subset
<1>3. First(T) \in T
  BY <1>2, FirstOf
<1>4. SumFunctionOnSet(f, T \ {First(T)}) = SumFunctionOnSet(g, T \ {First(T)})
  BY <1>1, <1>3
<1>5. SumFunctionOnSet(f, T) = SumFunctionOnSet(g, T)
  BY <1>2, <1>3, <1>4, SumFirst
<1> QED
  BY <1>5

LEMMA SumZero ==
    ASSUME NEW f, NEW S, IsFiniteSet(S), \A x \in S : f[x] = 0
    PROVE  SumFunctionOnSet(f, S) = 0
<1> DEFINE Bad == {T \in SUBSET S : SumFunctionOnSet(f, T) # 0}
<1> SUFFICES ASSUME Bad # {} PROVE FALSE
  OBVIOUS
<1>1. PICK T \in Bad : \A x \in T : T \ {x} \notin Bad
  BY LeastSet
<1>2. T # {} /\ IsFiniteSet(T)
  BY SumEmpty, FS_Subset
<1>3. First(T) \in T
  BY <1>2, FirstOf
<1>4. SumFunctionOnSet(f, T \ {First(T)}) = 0
  BY <1>1, <1>3
<1> QED
  BY <1>1, <1>2, <1>3, <1>4, SumFirst

\* One summand changes.
LEMMA SumUpdate ==
    ASSUME NEW f, NEW g, NEW S, IsFiniteSet(S), NEW y \in S, NEW n \in Int,
           \A x \in S : f[x] \in Int,
           \A x \in S \ {y} : g[x] = f[x],
           g[y] = f[y] + n
    PROVE  SumFunctionOnSet(g, S) = SumFunctionOnSet(f, S) + n
<1>1. \A x \in S : g[x] \in Int
  OBVIOUS
<1>2. IsFiniteSet(S \ {y})
  BY FS_Subset
<1>3. SumFunctionOnSet(g, S \ {y}) = SumFunctionOnSet(f, S \ {y})
  BY <1>2, SumSame
<1>4. SumFunctionOnSet(f, S \ {y}) \in Int
  BY <1>2, SumInt
<1>5. SumFunctionOnSet(g, S) = g[y] + SumFunctionOnSet(g, S \ {y})
  BY <1>1, SumRemove
<1>6. SumFunctionOnSet(f, S) = f[y] + SumFunctionOnSet(f, S \ {y})
  BY SumRemove
<1> QED
  BY <1>3, <1>4, <1>5, <1>6

\* All summands but one are zero.
LEMMA SumOne ==
    ASSUME NEW f, NEW S, IsFiniteSet(S), NEW y \in S, f[y] \in Int,
           \A x \in S \ {y} : f[x] = 0
    PROVE  SumFunctionOnSet(f, S) = f[y]
<1>1. IsFiniteSet(S \ {y})
  BY FS_Subset
<1>2. SumFunctionOnSet(f, S \ {y}) = 0
  BY <1>1, SumZero
<1>3. SumFunctionOnSet(f, S) = f[y] + SumFunctionOnSet(f, S \ {y})
  BY SumRemove
<1> QED
  BY <1>2, <1>3

-----------------------------------------------------------------------------
(* Arithmetic of an int. *)

LEMMA IntsAreInt == Ints \subseteq Int
  BY IntAssumption DEF Ints

LEMMA WrapIsInt == \A n \in Int : Wrap(n) \in Ints
  BY IntAssumption DEF Wrap, Ints

LEMMA WrapOfInt == \A n \in Ints : Wrap(n) = n
  BY IntAssumption DEF Wrap, Ints

\* Taking what is not negative wraps around upwards, if at all, and not if the
\* count stays at zero or above.
LEMMA WrapOfTaking ==
    ASSUME NEW x \in Ints, NEW c \in Ints
    PROVE  /\ Wrap(x - c) \in Ints
           /\ c >= 0 => Wrap(x - c) >= x - c
           /\ c >= 0 /\ x >= c => Wrap(x - c) = x - c
<1>1. x \in Int /\ c \in Int /\ x - c \in Int
  BY IntsAreInt
<1>2. c >= 0 => x - c < IntLimit
  BY IntAssumption DEF Ints
<1>3. CASE x - c \in Ints
  BY <1>1, <1>3, WrapOfInt
<1>4. CASE c >= 0 /\ x - c \notin Ints
  <2>1. x - c < -IntLimit
    BY <1>1, <1>2, <1>4, IntAssumption DEF Ints
  <2>2. Wrap(x - c) \in Ints
    BY <1>1, WrapIsInt
  <2> QED
    BY <1>1, <1>4, <2>1, <2>2, IntAssumption DEF Ints
<1>5. Wrap(x - c) \in Ints
  BY <1>1, WrapIsInt
<1> QED
  BY <1>3, <1>4, <1>5

-----------------------------------------------------------------------------
(* Types, for every Limit. *)

LEMMA LineFacts ==
    ASSUME NEW o \in Orders
    PROVE  /\ Len(Items[o]) \in Nat
           /\ DOMAIN Items[o] = 1 .. Len(Items[o])
           /\ \A i \in DOMAIN Items[o] :
                 /\ Items[o][i].product \in Products \union {Unknown}
                 /\ Items[o][i].count \in Int
                 /\ Items[o][i].count \in Ints
<1>1. Items[o] \in Seq(OrderItem)
  BY ItemsAssumption
<1>2. \A i \in DOMAIN Items[o] : Items[o][i] \in OrderItem
  BY <1>1
<1>3. ASSUME NEW i \in DOMAIN Items[o]
      PROVE  /\ Items[o][i].product \in Products \union {Unknown}
             /\ Items[o][i].count \in Ints
             /\ Items[o][i].count \in Int
  <2>1. /\ Items[o][i].product \in Products \union {Unknown}
        /\ Items[o][i].count \in Ints
    BY <1>2 DEF OrderItem
  <2> QED
    BY <2>1, IntsAreInt
<1>4. Len(Items[o]) \in Nat /\ DOMAIN Items[o] = 1 .. Len(Items[o])
  BY <1>1
<1> QED
  BY <1>3, <1>4

\* The item the loop is at is a line of the order.
LEMMA ItemFacts ==
    ASSUME TypeOK, NEW o \in Orders, ~LoopOver(o)
    PROVE  /\ next[o] \in DOMAIN Items[o]
           /\ Item(o) = Items[o][next[o]]
           /\ Item(o).count \in Int
           /\ Item(o).count \in Ints
  BY LineFacts DEF TypeOK, LoopOver, Item

\* What is stored and what is copied are numbers.
LEMMA CountsAreInt ==
    ASSUME TypeOK
    PROVE  /\ \A p \in Products : stock[p] \in Int /\ InitialStock[p] \in Int
           /\ \A o \in Orders : copy[o] \in Int
  BY IntsAreInt, StockAssumption DEF TypeOK

TypeInv == TypeOK /\ DocumentsExist

LEMMA TypeInit == Init => TypeInv
  BY StockAssumption, LineFacts, IntAssumption
  DEF Init, TypeInv, TypeOK, Ints, DocumentsExist, Steps, Answers, LoopOver

LEMMA TypeStep == TypeInv /\ [Next \/ Crash]_vars => TypeInv'
<1> SUFFICES ASSUME TypeInv, [Next \/ Crash]_vars PROVE TypeInv'
  OBVIOUS
<1> USE DEF TypeInv, TypeOK, DocumentsExist, Steps, LoopOver
<1>1. ASSUME NEW o \in Orders, Arrive(o) PROVE TypeInv'
  BY <1>1 DEF Arrive
<1>2. ASSUME NEW o \in Orders, Deliver(o) PROVE TypeInv'
  BY <1>2, LineFacts DEF Deliver
<1>3. ASSUME NEW o \in Orders, CheckItem(o) PROVE TypeInv'
  <2>1. TypeOK'
    <3>1. InStock(Item(o)) \in BOOLEAN
      BY DEF InStock
    <3>2. next[o] + 1 \in Nat \ {0} /\ next[o] + 1 <= Len(Items[o]) + 1
      BY <1>3, LineFacts DEF CheckItem
    <3> HIDE DEF DocumentsExist
    <3> QED
      BY <1>3, <3>1, <3>2 DEF CheckItem
  <2>2. DocumentsExist'
    <3>1. enough'[o] = (enough[o] /\ InStock(Item(o)))
      BY <1>3 DEF CheckItem
    <3>2. /\ step' = step /\ next'[o] = next[o] + 1
          /\ \A a \in Orders \ {o} : enough'[a] = enough[a] /\ next'[a] = next[a]
      BY <1>3 DEF CheckItem
    <3>3. ASSUME NEW i \in DOMAIN Items[o], step[o] = "check", enough'[o],
                 i < next'[o]
          PROVE  Items[o][i].product \in Products
      <4>1. i < next[o] \/ i = next[o]
        BY <3>2, <3>3, LineFacts
      <4> QED
        BY <3>1, <3>3, <4>1 DEF InStock, Item
    <3> QED
      BY <1>3, <3>2, <3>3 DEF CheckItem
  <2> QED
    BY <2>1, <2>2
<1>4. ASSUME NEW o \in Orders, Decide(o) PROVE TypeInv'
  BY <1>4, LineFacts DEF Decide
<1>5. ASSUME NEW o \in Orders, ReadItem(o) PROVE TypeInv'
  <2>1. Item(o).product \in Products
    BY <1>5, ItemFacts DEF ReadItem
  <2> QED
    BY <1>5, <2>1 DEF ReadItem
<1>6. ASSUME NEW o \in Orders, ReplaceItem(o) PROVE TypeInv'
  <2>1. ~LoopOver(o) /\ Item(o).count \in Int
    BY <1>6, ItemFacts DEF ReplaceItem
  <2>2. next[o] + 1 \in Nat \ {0} /\ next[o] + 1 <= Len(Items[o]) + 1
    BY <2>1, LineFacts
  <2>3. TypeOK'
    <3>1. Wrap(copy[o] - Item(o).count) \in Ints
      <4>1. copy[o] \in Int
        BY CountsAreInt
      <4>2. copy[o] - Item(o).count \in Int
        BY <2>1, <4>1
      <4> QED
        BY <4>2, WrapIsInt
    <3>2. stock' \in [Products -> Ints] /\ step' \in [Orders -> Steps]
      BY <1>6, <3>1 DEF ReplaceItem
    <3>3. next' \in [Orders -> Nat \ {0}]
      BY <1>6, <2>2 DEF ReplaceItem
    <3>4. \A a \in Orders : /\ next'[a] <= Len(Items[a]) + 1
                            /\ step'[a] = "replace" => ~(next'[a] > Len(Items[a]))
      BY <1>6, <2>2 DEF ReplaceItem
    <3> QED
      BY <1>6, <3>2, <3>3, <3>4 DEF ReplaceItem
  <2>4. DocumentsExist'
    <3>1. /\ enough' = enough /\ step'[o] = "reserve"
          /\ \A a \in Orders \ {o} : step'[a] = step[a] /\ next'[a] = next[a]
      BY <1>6 DEF ReplaceItem
    <3>2. \A i \in DOMAIN Items[o] : Items[o][i].product \in Products
      BY <1>6 DEF ReplaceItem
    <3> QED
      BY <3>1, <3>2
  <2> QED
    BY <2>3, <2>4
<1>7. ASSUME NEW o \in Orders, SendStockReserved(o) PROVE TypeInv'
  BY <1>7 DEF SendStockReserved, Answer, Answers
<1>8. ASSUME NEW o \in Orders, PublishStockNotReserved(o) PROVE TypeInv'
  BY <1>8 DEF PublishStockNotReserved, Answer, Answers
<1>9. ASSUME NEW o \in Orders, Acknowledge(o) PROVE TypeInv'
  BY <1>9 DEF Acknowledge
<1>10. CASE Crash
  <2>1. 0 \in Ints
    BY IntAssumption DEF Ints
  <2> QED
    BY <1>10, <2>1, LineFacts DEF Crash, Active
<1>11. CASE UNCHANGED vars
  BY <1>11 DEF vars
<1> QED
  BY <1>1, <1>2, <1>3, <1>4, <1>5, <1>6, <1>7, <1>8, <1>9, <1>10, <1>11
  DEF Next, Step, Consume

\* Every variable has its type and no null document is dereferenced, for any
\* Limit and any number of crashes (the two foreach loops of the consumer).
THEOREM TypeCorrect == CrashSpec => [](TypeOK /\ DocumentsExist)
<1>1. TypeInv => TypeOK /\ DocumentsExist
  BY DEF TypeInv
<1> QED
  BY <1>1, TypeInit, TypeStep, PTL DEF CrashSpec

-----------------------------------------------------------------------------
(* The oversell.  While no update of a product is lost, its count stays     *)
(* above what the deliveries that have passed its check still are to take   *)
(* from it, but for the further deliveries of the limit: the lowest count a *)
(* check lets pass is that of its own item.                                 *)

MaxCount(p) == Max({0} \union CountsOf(p))

\* What the deliveries of the limit after the first n can still take.
Room(p, n) == (Limit - n) * MaxCount(p)

LEMMA MaxIs ==
    ASSUME NEW S \in SUBSET Int, IsFiniteSet(S), S # {}
    PROVE  Max(S) \in S /\ \A x \in S : x <= Max(S)
<1> DEFINE HasMax(T) == \E m \in T : \A x \in T : x <= m
           Bad == {T \in SUBSET S : T # {} /\ ~HasMax(T)}
<1>1. Bad = {}
  <2> SUFFICES ASSUME Bad # {} PROVE FALSE
    OBVIOUS
  <2>1. PICK T \in Bad : \A x \in T : T \ {x} \notin Bad
    BY LeastSet
  <2>2. T \in SUBSET S /\ T # {} /\ ~HasMax(T)
    OBVIOUS
  <2>3. PICK x \in T : x \in Int
    BY <2>2
  <2>4. CASE T \ {x} = {}
    BY <2>2, <2>3, <2>4
  <2>5. CASE T \ {x} # {}
    <3>1. PICK m \in T \ {x} : \A y \in T \ {x} : y <= m
      BY <2>1, <2>2, <2>5
    <3>2. m \in Int /\ \A y \in T : y \in Int
      BY <2>2
    <3>3. (m <= x /\ \A y \in T : y <= x) \/ (x <= m /\ \A y \in T : y <= m)
      BY <2>3, <3>1, <3>2
    <3> QED
      BY <2>2, <2>3, <3>1, <3>3
  <2> QED
    BY <2>4, <2>5
<1>2. HasMax(S)
  BY <1>1
<1>3. \E m \in S : \A x \in S : m >= x
  BY <1>2
<1>4. Max(S) \in S /\ \A x \in S : Max(S) >= x
  BY <1>3 DEF Max
<1> QED
  BY <1>4

LEMMA FiniteImage ==
    ASSUME NEW S, IsFiniteSet(S), NEW f
    PROVE  IsFiniteSet({f[x] : x \in S})
<1> DEFINE T == {f[x] : x \in S}
           g == [x \in S |-> f[x]]
<1>1. g \in Surjection(S, T)
  BY DEF Surjection
<1> HIDE DEF T, g
<1>2. IsFiniteSet(T)
  BY <1>1, FS_Surjection
<1> QED
  BY <1>2 DEF T

LEMMA MaxCountFacts ==
    ASSUME NEW p \in Products
    PROVE  /\ MaxCount(p) \in Nat
           /\ \A o \in Orders : \A i \in DOMAIN Items[o] :
                 Items[o][i].product = p => Items[o][i].count <= MaxCount(p)
<1> DEFINE Counts(o) == {Items[o][i].count : i \in {j \in DOMAIN Items[o] :
                                                      Items[o][j].product = p}}
           All == {Counts(o) : o \in Orders}
           S == {0} \union CountsOf(p)
<1>1. ASSUME NEW o \in Orders PROVE IsFiniteSet(Counts(o)) /\ Counts(o) \subseteq Int
  <2>1. IsFiniteSet({j \in DOMAIN Items[o] : Items[o][j].product = p})
    <3>1. IsFiniteSet(DOMAIN Items[o])
      BY LineFacts, FS_Interval
    <3> QED
      BY <3>1, FS_Subset
  <2> DEFINE f == [i \in DOMAIN Items[o] |-> Items[o][i].count]
             J == {j \in DOMAIN Items[o] : Items[o][j].product = p}
  <2>2. IsFiniteSet({f[i] : i \in J})
    <3> HIDE DEF f, J
    <3> QED
      BY <2>1, FiniteImage DEF J
  <2>3. {f[i] : i \in J} = Counts(o)
    OBVIOUS
  <2> QED
    BY <2>2, <2>3, LineFacts
<1>2. IsFiniteSet(All)
  <2> DEFINE g == [o \in Orders |-> Counts(o)]
  <2>1. IsFiniteSet({g[o] : o \in Orders})
    <3> HIDE DEF g
    <3> QED
      BY OrdersAssumption, FiniteImage
  <2>2. {g[o] : o \in Orders} = All
    OBVIOUS
  <2> QED
    BY <2>1, <2>2
<1>3. IsFiniteSet(UNION All)
  BY <1>1, <1>2, FS_UNION
<1>4. CountsOf(p) = UNION All
  BY DEF CountsOf
<1>5. IsFiniteSet(S) /\ S # {}
  BY <1>3, <1>4, FS_Singleton, FS_Union
<1>6. S \in SUBSET Int
  <2>1. \A T \in All : T \subseteq Int
    BY <1>1
  <2> HIDE DEF All
  <2> QED
    BY <1>4, <2>1
<1>7. MaxCount(p) \in S /\ \A x \in S : x <= MaxCount(p)
  BY <1>5, <1>6, MaxIs DEF MaxCount
<1>8. 0 \in S
  OBVIOUS
<1>9. ASSUME NEW o \in Orders, NEW i \in DOMAIN Items[o], Items[o][i].product = p
      PROVE  Items[o][i].count \in S
  BY <1>9 DEF CountsOf
<1> HIDE DEF S
<1>10. MaxCount(p) \in Int /\ 0 <= MaxCount(p)
  BY <1>6, <1>7, <1>8
<1>11. \A o \in Orders : \A i \in DOMAIN Items[o] :
          Items[o][i].product = p => Items[o][i].count <= MaxCount(p)
  BY <1>7, <1>9
<1> QED
  BY <1>10, <1>11

LEMMA RoomFacts ==
    ASSUME NEW p \in Products, NEW n \in Nat
    PROVE  /\ Room(p, n) \in Int
           /\ Room(p, n + 1) = Room(p, n) - MaxCount(p)
           /\ n <= Limit => Room(p, n) >= 0
           /\ \A m \in Nat : m <= n => Room(p, n) <= Room(p, m)
<1> DEFINE M == MaxCount(p)
<1>1. M \in Nat /\ Limit \in Nat
  BY MaxCountFacts, LimitAssumption
<1> HIDE DEF M
<1>2. (Limit - n) * M \in Int /\ (Limit - (n + 1)) * M = (Limit - n) * M - M
  BY <1>1
<1>3. n <= Limit => (Limit - n) * M >= 0
  BY <1>1
<1>4. ASSUME NEW m \in Nat, m <= n PROVE (Limit - n) * M <= (Limit - m) * M
  <2>1. (n - m) * M >= 0
    BY <1>1, <1>4
  <2>2. (Limit - m) * M = (Limit - n) * M + (n - m) * M
    BY <1>1
  <2>3. (n - m) * M \in Int
    BY <1>1
  <2> QED
    BY <1>2, <2>1, <2>2, <2>3
<1> QED
  BY <1>2, <1>3, <1>4 DEF Room, M

\* Count s of product p is high enough for the deliveries D still to take from it.
Floor(p, s, D) ==
    \/ s >= -Room(p, Cardinality(D) + 1)
    \/ \E w \in D : \E i \in DOMAIN Items[w] :
          /\ Items[w][i].product = p
          /\ s >= Items[w][i].count - Room(p, Cardinality(D))

\* Deliveries that take something from p, when they take it.
Takers(p) ==
    {o \in Orders : \A i \in DOMAIN Items[o] :
                       Items[o][i].product = p => Items[o][i].count > 0}

LEMMA FloorBounds ==
    ASSUME NEW p \in Products, NEW s \in Int, NEW D \in SUBSET Takers(p), Floor(p, s, D)
    PROVE  s >= -Room(p, 1)
<1>1. IsFiniteSet(D) /\ Cardinality(D) \in Nat
  BY OrdersAssumption, FS_Subset, FS_CardinalityType DEF Takers
<1>2. Room(p, 1) \in Int /\ Room(p, Cardinality(D) + 1) \in Int
      /\ Room(p, Cardinality(D) + 1) <= Room(p, 1)
  BY <1>1, RoomFacts
<1>3. CASE s >= -Room(p, Cardinality(D) + 1)
  BY <1>2, <1>3
<1>4. ASSUME NEW w \in D, NEW i \in DOMAIN Items[w], Items[w][i].product = p,
             s >= Items[w][i].count - Room(p, Cardinality(D))
      PROVE  s >= -Room(p, 1)
  <2>1. Items[w][i].count \in Int /\ Items[w][i].count > 0
    BY <1>4, LineFacts DEF Takers
  <2>2. Cardinality(D) >= 1
    BY <1>1, FS_EmptySet
  <2>3. Room(p, Cardinality(D)) <= Room(p, 1) /\ Room(p, Cardinality(D)) \in Int
    BY <1>1, <2>2, RoomFacts
  <2> QED
    BY <1>2, <1>4, <2>1, <2>3
<1> QED
  BY <1>3, <1>4 DEF Floor

\* Deliveries that give up, and counts that rise.
LEMMA FloorKept ==
    ASSUME NEW p \in Products, NEW s \in Int, NEW t \in Int, s <= t,
           NEW D \in SUBSET Takers(p), NEW E \in SUBSET D, Floor(p, s, D)
    PROVE  Floor(p, t, E)
<1> DEFINE d == Cardinality(D)
           e == Cardinality(E)
<1>1. d \in Nat /\ e \in Nat /\ e <= d /\ (E # D => e < d)
  <2>1. IsFiniteSet(D)
    BY OrdersAssumption, FS_Subset DEF Takers
  <2> QED
    BY <2>1, FS_Subset, FS_CardinalityType
<1> HIDE DEF d, e
<1>2. /\ Room(p, d) \in Int /\ Room(p, e) \in Int
      /\ Room(p, d + 1) \in Int /\ Room(p, e + 1) \in Int
      /\ Room(p, d) <= Room(p, e) /\ Room(p, d + 1) <= Room(p, e + 1)
      /\ e + 1 <= d => Room(p, d) <= Room(p, e + 1)
  BY <1>1, RoomFacts
<1>3. CASE s >= -Room(p, d + 1)
  BY <1>2, <1>3 DEF Floor, d, e
<1>4. ASSUME NEW w \in D, NEW i \in DOMAIN Items[w], Items[w][i].product = p,
             s >= Items[w][i].count - Room(p, d)
      PROVE  Floor(p, t, E)
  <2>1. Items[w][i].count \in Int /\ Items[w][i].count > 0
    BY <1>4, LineFacts DEF Takers
  <2>2. CASE w \in E
    <3>1. t >= Items[w][i].count - Room(p, e)
      BY <1>2, <1>4, <2>1
    <3> QED
      BY <1>4, <2>2, <3>1 DEF Floor, e
  <2>3. CASE w \notin E
    <3>1. e + 1 <= d
      BY <1>1, <2>3
    <3>2. t >= -Room(p, e + 1)
      BY <1>2, <1>4, <2>1, <3>1
    <3> QED
      BY <3>2 DEF Floor, e
  <2> QED
    BY <2>2, <2>3
<1> QED
  BY <1>3, <1>4 DEF Floor, d

\* A delivery passes the check.
LEMMA FloorChecked ==
    ASSUME NEW p \in Products, NEW s \in Int, NEW D \in SUBSET Takers(p),
           NEW w \in D, Cardinality(D) <= Limit,
           NEW i \in DOMAIN Items[w], Items[w][i].product = p, s >= Items[w][i].count
    PROVE  Floor(p, s, D)
<1>1. IsFiniteSet(D) /\ Cardinality(D) \in Nat
  BY OrdersAssumption, FS_Subset, FS_CardinalityType DEF Takers
<1>2. Room(p, Cardinality(D)) \in Int /\ Room(p, Cardinality(D)) >= 0
  BY <1>1, RoomFacts
<1>3. Items[w][i].count \in Int
  BY LineFacts DEF Takers
<1>4. s >= Items[w][i].count - Room(p, Cardinality(D))
  BY <1>2, <1>3
<1> QED
  BY <1>4 DEF Floor

\* A delivery takes its item.
LEMMA FloorTaken ==
    ASSUME NEW p \in Products, NEW s \in Int, NEW D \in SUBSET Takers(p), Floor(p, s, D),
           NEW o \in D, NEW j \in DOMAIN Items[o], Items[o][j].product = p, ListsOnce(o, p)
    PROVE  Floor(p, s - Items[o][j].count, D \ {o})
<1> DEFINE d == Cardinality(D)
           c == Items[o][j].count
<1>1. d \in Nat /\ Cardinality(D \ {o}) = d - 1 /\ d - 1 \in Nat
  <2>1. IsFiniteSet(D) /\ IsFiniteSet(D \ {o})
    BY OrdersAssumption, FS_Subset DEF Takers
  <2> QED
    BY <2>1, FS_Subset, FS_RemoveElement, FS_CardinalityType
<1>2. c \in Int /\ c > 0 /\ c <= MaxCount(p) /\ MaxCount(p) \in Nat
  BY LineFacts, MaxCountFacts DEF Takers
<1> HIDE DEF d, c
<1>3. /\ Room(p, d) \in Int /\ Room(p, d - 1) \in Int /\ Room(p, d + 1) \in Int
      /\ Room(p, d + 1) = Room(p, d) - MaxCount(p)
      /\ Room(p, d) = Room(p, d - 1) - MaxCount(p)
  <2>1. (d - 1) + 1 = d
    BY <1>1
  <2>2. Room(p, (d - 1) + 1) = Room(p, d - 1) - MaxCount(p)
    BY <1>1, RoomFacts
  <2> QED
    BY <1>1, <2>1, <2>2, RoomFacts
<1>4. CASE s >= -Room(p, d + 1)
  <2>1. s - c >= -Room(p, (d - 1) + 1)
    BY <1>1, <1>2, <1>3, <1>4
  <2> QED
    BY <1>1, <2>1 DEF Floor, c
<1>5. ASSUME NEW w \in D, NEW i \in DOMAIN Items[w], Items[w][i].product = p,
             s >= Items[w][i].count - Room(p, d)
      PROVE  Floor(p, s - c, D \ {o})
  <2>1. Items[w][i].count \in Int
    BY LineFacts DEF Takers
  <2>2. CASE w = o
    <3>1. i = j
      BY <1>5, <2>2 DEF ListsOnce
    <3>2. s - c >= -Room(p, (d - 1) + 1)
      BY <1>1, <1>2, <1>3, <1>5, <2>2, <3>1 DEF c
    <3> QED
      BY <1>1, <3>2 DEF Floor
  <2>3. CASE w # o
    <3>1. s - c >= Items[w][i].count - Room(p, d - 1)
      BY <1>2, <1>3, <1>5, <2>1
    <3> QED
      BY <1>1, <1>5, <2>3, <3>1 DEF Floor
  <2> QED
    BY <2>2, <2>3
<1> QED
  BY <1>4, <1>5 DEF Floor, d, c

Due(p) ==
    {o \in Takers(p) :
        \E i \in DOMAIN Items[o] : Items[o][i].product = p /\ Awaits(o, i)}

AtMostLimit == Cardinality({o \in Orders : Active(o)}) <= Limit

FloorHolds ==
    \A p \in Products \ lost :
        (\A o \in Orders : ListsOnce(o, p)) /\ (\A n \in CountsOf(p) : n >= 0)
            => Floor(p, stock[p], Due(p))

RacesInv ==
    /\ TypeInv
    /\ AtMostLimit
    /\ FloorHolds

LEMMA RacesInvInit ==
    ASSUME \A p \in Products : InitialStock[p] >= 0
    PROVE  RacesInit => RacesInv
<1> SUFFICES ASSUME RacesInit PROVE RacesInv
  OBVIOUS
<1>1. TypeInv
  BY TypeInit DEF RacesInit
<1>2. AtMostLimit
  <2>1. {o \in Orders : Active(o)} = {}
    BY DEF RacesInit, Init, Active
  <2> QED
    BY <2>1, FS_EmptySet, LimitAssumption DEF AtMostLimit
<1>3. ASSUME NEW p \in Products PROVE Floor(p, stock[p], Due(p))
  <2>1. Due(p) = {}
    BY DEF RacesInit, Init, Due, Takers, Awaits
  <2>2. Cardinality({}) + 1 = 1 /\ Room(p, 1) \in Int /\ Room(p, 1) >= 0
    BY FS_EmptySet, RoomFacts, LimitAssumption
  <2>3. stock[p] \in Int /\ stock[p] >= 0
    BY StockAssumption, IntsAreInt DEF RacesInit, Init
  <2> QED
    BY <2>1, <2>2, <2>3 DEF Floor
<1> QED
  BY <1>1, <1>2, <1>3 DEF RacesInv, FloorHolds

LEMMA AtMostLimitStep == TypeInv /\ AtMostLimit /\ [Next \/ Crash]_vars => AtMostLimit'
<1> SUFFICES ASSUME TypeInv, AtMostLimit, [Next \/ Crash]_vars PROVE AtMostLimit'
  OBVIOUS
<1> DEFINE Busy == {o \in Orders : Active(o)}
<1>1. /\ IsFiniteSet(Busy) /\ Cardinality(Busy) \in Nat
      /\ IsFiniteSet(Busy') /\ Cardinality(Busy') \in Nat
  BY OrdersAssumption, FS_Subset, FS_CardinalityType
<1>2. ASSUME Busy' \subseteq Busy PROVE AtMostLimit'
  <2>1. Cardinality(Busy') <= Cardinality(Busy)
    BY <1>1, <1>2, FS_Subset
  <2> QED
    BY <1>1, <2>1, LimitAssumption DEF AtMostLimit
<1>3. ASSUME NEW o \in Orders, Deliver(o) PROVE AtMostLimit'
  <2>1. Busy' = Busy \union {o}
    BY <1>3 DEF Deliver, Active, TypeInv, TypeOK
  <2>2. Cardinality(Busy') <= Cardinality(Busy) + 1
    BY <1>1, <2>1, FS_AddElement
  <2>3. Cardinality(Busy) < Limit
    BY <1>3 DEF Deliver
  <2> QED
    BY <1>1, <2>2, <2>3, LimitAssumption DEF AtMostLimit
<1>4. ASSUME NEW o \in Orders, Arrive(o) \/ Consume(o) PROVE Busy' \subseteq Busy
  BY <1>4 DEF Arrive, Consume, CheckItem, Decide, ReadItem, ReplaceItem,
     SendStockReserved, PublishStockNotReserved, Answer, Acknowledge, Active,
     TypeInv, TypeOK
<1>5. ASSUME Crash PROVE Busy' \subseteq Busy
  BY <1>5 DEF Crash, Active
<1>6. ASSUME UNCHANGED vars PROVE Busy' \subseteq Busy
  BY <1>6 DEF vars, Active
<1> HIDE DEF Busy
<1> QED
  BY <1>2, <1>3, <1>4, <1>5, <1>6 DEF Next, Step

\* One step, for a product no update of which is lost and that no order lists twice.
LEMMA FloorStep ==
    ASSUME TypeInv, AtMostLimit, FloorHolds, [RacesNext]_<<vars, lost>>,
           NEW p \in Products, p \notin lost', \A o \in Orders : ListsOnce(o, p),
           \A n \in CountsOf(p) : n >= 0
    PROVE  Floor(p, stock'[p], Due(p)')
<1>1. TypeInv' /\ AtMostLimit' /\ [Next \/ Crash]_vars
  BY TypeStep, AtMostLimitStep DEF RacesNext
<1>2. /\ stock[p] \in Int /\ stock'[p] \in Int /\ stock[p] \in Ints
      /\ Due(p) \in SUBSET Takers(p) /\ Due(p)' \in SUBSET Takers(p)
  BY <1>1, IntsAreInt DEF TypeInv, TypeOK, Due
<1>3. Floor(p, stock[p], Due(p))
  BY DEF FloorHolds, RacesNext
<1>4. ASSUME stock[p] <= stock'[p], Due(p)' \subseteq Due(p)
      PROVE  Floor(p, stock'[p], Due(p)')
  BY <1>2, <1>3, <1>4, FloorKept
<1> USE DEF TypeInv, TypeOK, Awaits
<1>5. ASSUME NEW o \in Orders,
             Arrive(o) \/ Deliver(o) \/ ReadItem(o) \/ SendStockReserved(o)
               \/ PublishStockNotReserved(o) \/ Acknowledge(o)
      PROVE  stock' = stock /\ Due(p)' \subseteq Due(p)
  <2>1. stock' = stock
    BY <1>5 DEF Arrive, Deliver, ReadItem, SendStockReserved, PublishStockNotReserved,
       Answer, Acknowledge
  <2>2. \A a \in Orders : \A i \in DOMAIN Items[a] : Awaits(a, i)' => Awaits(a, i)
    BY <1>5, LineFacts DEF Arrive, Deliver, ReadItem, SendStockReserved,
       PublishStockNotReserved, Answer, Acknowledge
  <2> QED
    BY <2>1, <2>2 DEF Due, Takers
<1>6. ASSUME NEW o \in Orders, Decide(o) PROVE stock' = stock /\ Due(p)' \subseteq Due(p)
  <2>1. \A i \in DOMAIN Items[o] : i < next[o]
    BY <1>6, LineFacts DEF Decide, LoopOver
  <2>2. \A a \in Orders : \A i \in DOMAIN Items[a] : Awaits(a, i)' => Awaits(a, i)
    BY <1>6, <2>1 DEF Decide
  <2> QED
    BY <1>6, <2>2 DEF Due, Takers, Decide
<1>7. ASSUME NEW o \in Orders, CheckItem(o) PROVE Floor(p, stock'[p], Due(p)')
  <2>1. /\ stock' = stock /\ step' = step /\ step[o] = "check" /\ next'[o] = next[o] + 1
        /\ enough'[o] = (enough[o] /\ InStock(Item(o)))
        /\ \A a \in Orders \ {o} : enough'[a] = enough[a] /\ next'[a] = next[a]
    BY <1>7 DEF CheckItem
  <2>2. \A a \in Orders \ {o} : a \in Due(p)' => a \in Due(p)
    BY <2>1 DEF Due, Takers
  <2>3. CASE o \in Due(p)' /\ o \notin Due(p)
    <3>1. PICK i \in DOMAIN Items[o] :
             Items[o][i].product = p /\ enough'[o] /\ i < next'[o]
      BY <2>1, <2>3 DEF Due
    <3>2. ~(i < next[o])
      BY <2>1, <2>3, <3>1 DEF Due
    <3>3. i = next[o]
      BY <2>1, <3>1, <3>2, LineFacts
    <3>4. stock[p] >= Items[o][i].count
      BY <2>1, <3>1, <3>3 DEF InStock, Item
    <3>5. Cardinality(Due(p)') <= Limit
      <4> DEFINE Busy == {a \in Orders : Active(a)}'
      <4>1. Due(p)' \subseteq Busy
        BY DEF Due, Takers, Active
      <4>2. IsFiniteSet(Busy) /\ Cardinality(Busy) \in Nat /\ Cardinality(Busy) <= Limit
        BY <1>1, OrdersAssumption, FS_Subset, FS_CardinalityType DEF AtMostLimit
      <4>3. Cardinality(Due(p)') <= Cardinality(Busy) /\ Cardinality(Due(p)') \in Nat
        BY <4>1, <4>2, FS_Subset, FS_CardinalityType
      <4> QED
        BY <4>2, <4>3, LimitAssumption
    <3> QED
      BY <1>2, <2>1, <2>3, <3>1, <3>4, <3>5, FloorChecked
  <2>4. CASE ~(o \in Due(p)' /\ o \notin Due(p))
    <3>1. Due(p)' \subseteq Due(p)
      BY <2>2, <2>4 DEF Due, Takers
    <3> QED
      BY <1>2, <1>4, <2>1, <3>1
  <2> QED
    BY <2>3, <2>4
<1>8. ASSUME NEW o \in Orders, ReplaceItem(o) PROVE Floor(p, stock'[p], Due(p)')
  <2> DEFINE j == next[o]
             c == Item(o).count
  <2>1. /\ j \in DOMAIN Items[o] /\ Item(o) = Items[o][j] /\ c \in Int
        /\ Item(o).product \in Products
    BY <1>8, ItemFacts DEF ReplaceItem, DocumentsExist
  <2>2. /\ step[o] = "replace" /\ step'[o] = "reserve" /\ next'[o] = j + 1
        /\ \A a \in Orders \ {o} : step'[a] = step[a] /\ next'[a] = next[a]
        /\ enough' = enough
        /\ stock' = [stock EXCEPT ![Item(o).product] = Wrap(copy[o] - c)]
    BY <1>8 DEF ReplaceItem
  <2>3. Due(p)' \subseteq Due(p)
    <3>1. \A a \in Orders : \A i \in DOMAIN Items[a] : Awaits(a, i)' => Awaits(a, i)
      BY <2>1, <2>2, LineFacts
    <3> QED
      BY <3>1 DEF Due, Takers
  <2>4. CASE Item(o).product # p
    <3>1. stock'[p] = stock[p]
      BY <2>1, <2>2, <2>4
    <3> QED
      BY <1>2, <1>4, <2>3, <3>1
  <2>5. CASE Item(o).product = p
    <3>1. lost' = lost \union {Item(a).product : a \in {b \in Orders : LosesUpdate(b)}}
      BY <2>2 DEF RacesNext, vars
    <3>2. ~LosesUpdate(o)
      BY <2>5, <3>1
    <3>3. stock'[p] = Wrap(stock[p] - c)
      BY <2>1, <2>2, <2>5, <3>2 DEF LosesUpdate
    <3>6. c >= 0 /\ stock'[p] >= stock[p] - c
      <4>1. c \in Ints /\ c \in CountsOf(p)
        BY <2>1, <2>5, LineFacts DEF CountsOf
      <4> HIDE DEF c
      <4> QED
        BY <1>2, <3>3, <4>1, WrapOfTaking
    <3>4. CASE o \in Takers(p)
      <4>1. o \in Due(p)
        BY <2>1, <2>2, <2>5, <3>4 DEF Due
      <4>2. o \notin Due(p)'
        <5>1. \A i \in DOMAIN Items[o] : Items[o][i].product = p => i = j
          BY <2>1, <2>5 DEF ListsOnce
        <5> QED
          BY <2>2, <5>1, <2>1 DEF Due
      <4>3. Floor(p, stock[p] - c, Due(p) \ {o})
        <5>1. Items[o][j].product = p /\ ListsOnce(o, p)
          BY <2>1, <2>5
        <5>2. Floor(p, stock[p] - Items[o][j].count, Due(p) \ {o})
          BY <1>2, <1>3, <2>1, <4>1, <5>1, FloorTaken
        <5> QED
          BY <2>1, <5>2
      <4>4. Due(p)' \in SUBSET (Due(p) \ {o}) /\ Due(p) \ {o} \in SUBSET Takers(p)
        BY <1>2, <2>3, <4>2
      <4>5. stock[p] - c <= stock'[p] /\ stock[p] - c \in Int
        BY <1>2, <2>1, <3>6
      <4> HIDE DEF c
      <4> QED
        BY <1>2, <4>3, <4>4, <4>5, FloorKept
    <3>5. CASE o \notin Takers(p)
      <4>1. PICK i \in DOMAIN Items[o] : Items[o][i].product = p /\ ~(Items[o][i].count > 0)
        BY <3>5 DEF Takers
      <4>2. i = j
        BY <2>1, <2>5, <4>1 DEF ListsOnce
      <4>3. stock[p] <= stock'[p]
        BY <1>2, <2>1, <3>6, <4>1, <4>2
      <4> QED
        BY <1>4, <2>3, <4>3
    <3> QED
      BY <3>4, <3>5
  <2> QED
    BY <2>4, <2>5
<1>9. ASSUME Crash PROVE stock' = stock /\ Due(p)' \subseteq Due(p)
  <2>1. \A a \in Orders : \A i \in DOMAIN Items[a] : ~Awaits(a, i)'
    BY <1>9 DEF Crash, Active
  <2> QED
    BY <1>9, <2>1 DEF Due, Takers, Crash
<1>10. ASSUME UNCHANGED vars PROVE stock' = stock /\ Due(p)' \subseteq Due(p)
  BY <1>10 DEF vars, Due, Takers
<1>11. ASSUME stock' = stock, Due(p)' \subseteq Due(p) PROVE Floor(p, stock'[p], Due(p)')
  BY <1>2, <1>4, <1>11
<1> HIDE DEF TypeInv, TypeOK, Awaits
<1> QED
  BY <1>1, <1>5, <1>6, <1>7, <1>8, <1>9, <1>10, <1>11 DEF Next, Step, Consume

LEMMA RacesInvStep == RacesInv /\ [RacesNext]_<<vars, lost>> => RacesInv'
<1> SUFFICES ASSUME RacesInv, [RacesNext]_<<vars, lost>> PROVE RacesInv'
  OBVIOUS
<1>1. TypeInv /\ AtMostLimit /\ FloorHolds
  BY DEF RacesInv
<1>2. TypeInv' /\ AtMostLimit'
  BY <1>1, TypeStep, AtMostLimitStep DEF RacesNext
<1>3. FloorHolds'
  BY <1>1, FloorStep DEF FloorHolds
<1> QED
  BY <1>2, <1>3 DEF RacesInv

\* For any orders, counts, limit and seed data that is not negative, crashes and
\* redelivered messages included: as long as no replacement of a product has lost
\* another one, its count is at most one reservation for each further delivery of
\* the limit below zero, if no order lists it twice.
THEOREM OversellBounded ==
    ASSUME \A p \in Products : InitialStock[p] >= 0
    PROVE  RacesSpec => []OversellIsBounded
<1>1. RacesInv => OversellIsBounded
  <2> SUFFICES ASSUME RacesInv, NEW p \in Products \ lost,
                      \A o \in Orders : ListsOnce(o, p),
                      \A n \in CountsOf(p) : n >= 0
               PROVE  stock[p] >= -(Limit - 1) * Max({0} \union CountsOf(p))
    BY DEF OversellIsBounded
  <2>1. Floor(p, stock[p], Due(p)) /\ stock[p] \in Int /\ Due(p) \in SUBSET Takers(p)
    BY IntsAreInt DEF RacesInv, FloorHolds, TypeInv, TypeOK, Due
  <2>2. stock[p] >= -Room(p, 1)
    BY <2>1, FloorBounds
  <2>3. MaxCount(p) \in Nat /\ Limit \in Nat
    BY MaxCountFacts, LimitAssumption
  <2>4. -((Limit - 1) * MaxCount(p)) = -(Limit - 1) * MaxCount(p)
    BY <2>3
  <2> QED
    BY <2>2, <2>4 DEF Room, MaxCount
<1> QED
  BY <1>1, RacesInvInit, RacesInvStep, PTL DEF RacesSpec

-----------------------------------------------------------------------------
(* What the orders have taken. *)

\* The pieces of p among the lines I of the order.
CountIn(o, p, I) ==
    SumFunctionOnSet([i \in DOMAIN Items[o] |-> Items[o][i].count],
                     {i \in I : Items[o][i].product = p})

LEMMA CountInFacts ==
    ASSUME NEW o \in Orders, NEW p, NEW I \in SUBSET DOMAIN Items[o]
    PROVE  /\ CountIn(o, p, I) \in Int
           /\ CountIn(o, p, {}) = 0
           /\ \A i \in DOMAIN Items[o] \ I :
                 CountIn(o, p, I \union {i}) =
                    CountIn(o, p, I) + IF Items[o][i].product = p THEN Items[o][i].count ELSE 0
<1> DEFINE f == [i \in DOMAIN Items[o] |-> Items[o][i].count]
           L(J) == {i \in J : Items[o][i].product = p}
<1>1. ASSUME NEW J \in SUBSET DOMAIN Items[o]
      PROVE  /\ IsFiniteSet(L(J)) /\ \A x \in L(J) : f[x] \in Int
             /\ CountIn(o, p, J) = SumFunctionOnSet(f, L(J))
  <2>1. IsFiniteSet(DOMAIN Items[o])
    BY LineFacts, FS_Interval
  <2>2. IsFiniteSet(L(J))
    BY <2>1, FS_Subset
  <2> QED
    BY <2>2, LineFacts DEF CountIn
<1>2. L({}) = {}
  OBVIOUS
<1>3. ASSUME NEW i \in DOMAIN Items[o] \ I
      PROVE  CountIn(o, p, I \union {i}) =
                CountIn(o, p, I) + IF Items[o][i].product = p THEN Items[o][i].count ELSE 0
  <2> DEFINE K == I \union {i}
  <2>1. K \in SUBSET DOMAIN Items[o]
    OBVIOUS
  <2>2. CASE Items[o][i].product = p
    <3>1. i \in L(K) /\ L(K) \ {i} = L(I) /\ f[i] = Items[o][i].count
      BY <2>2
    <3> HIDE DEF f, L, K
    <3>2. SumFunctionOnSet(f, L(K)) = f[i] + SumFunctionOnSet(f, L(K) \ {i})
      BY <1>1, <2>1, <3>1, SumRemove
    <3>3. f[i] \in Int /\ SumFunctionOnSet(f, L(I)) \in Int
      BY <1>1, <2>1, <3>1, SumInt
    <3>4. CountIn(o, p, K) = SumFunctionOnSet(f, L(K))
      BY <1>1, <2>1
    <3>5. CountIn(o, p, I) = SumFunctionOnSet(f, L(I))
      BY <1>1
    <3>7. SumFunctionOnSet(f, L(K) \ {i}) = CountIn(o, p, I)
      BY <3>1, <3>5
    <3>8. CountIn(o, p, K) = f[i] + CountIn(o, p, I) /\ CountIn(o, p, I) \in Int
      BY <3>2, <3>3, <3>4, <3>5, <3>7
    <3>6. CountIn(o, p, K) = CountIn(o, p, I) + f[i]
      BY <3>3, <3>8
    <3> QED
      BY <2>2, <3>1, <3>6 DEF K
  <2>3. CASE Items[o][i].product # p
    <3>1. L(K) = L(I)
      BY <2>3
    <3>2. CountIn(o, p, I) \in Int
      <4> HIDE DEF f, L
      <4> QED
        BY <1>1, SumInt
    <3> HIDE DEF f, L
    <3> QED
      BY <1>1, <2>1, <2>3, <3>1, <3>2
  <2> QED
    BY <2>2, <2>3
<1>4. CountIn(o, p, I) \in Int /\ CountIn(o, p, {}) = 0
  <2> HIDE DEF f, L
  <2> QED
    BY <1>1, <1>2, SumInt, SumEmpty
<1> QED
  BY <1>3, <1>4

\* Without crashes a delivery that has answered does nothing more.
AnsweredIsOver ==
    \A o \in Orders :
        /\ step[o] \in {"none", "queued", "check", "reserve", "replace", "refuse"}
              => answers[o] = {}
        /\ step[o] = "refuse" => ~enough[o]
        /\ step[o] \in {"reserve", "replace"} => enough[o]

QuietInv == TypeInv /\ AnsweredIsOver

LEMMA QuietInit == Init => QuietInv
  BY TypeInit DEF Init, QuietInv, AnsweredIsOver

LEMMA QuietStep == QuietInv /\ [Next]_vars => QuietInv'
<1> SUFFICES ASSUME QuietInv, [Next]_vars PROVE QuietInv'
  OBVIOUS
<1>1. TypeInv /\ TypeInv' /\ TypeOK
  BY TypeStep DEF QuietInv, TypeInv
<1>2. AnsweredIsOver
  BY DEF QuietInv
<1>3. ASSUME NEW o \in Orders, Step(o) PROVE AnsweredIsOver'
  BY <1>1, <1>2, <1>3 DEF TypeOK, AnsweredIsOver, Step, Arrive, Deliver, Consume, CheckItem,
     Decide, ReadItem, ReplaceItem, SendStockReserved, PublishStockNotReserved,
     Answer, Acknowledge
<1>4. ASSUME UNCHANGED vars PROVE AnsweredIsOver'
  BY <1>2, <1>4 DEF vars, AnsweredIsOver
<1> QED
  BY <1>1, <1>3, <1>4 DEF QuietInv, Next

LEMMA TakenIs ==
    ASSUME QuietInv
    PROVE  \A o \in Orders : \A p : /\ Taken(o, p) = CountIn(o, p, Replaced(o))
                                    /\ Replaced(o) \in SUBSET DOMAIN Items[o]
  BY LineFacts DEF Taken, CountIn, Replaced, QuietInv, TypeInv, TypeOK

LEMMA TakenStep ==
    ASSUME QuietInv, QuietInv', [Next]_vars, NEW o \in Orders
    PROVE  /\ ~ReplaceItem(o) => Replaced(o)' = Replaced(o)
           /\ ReplaceItem(o) => /\ next[o] \in DOMAIN Items[o] \ Replaced(o)
                                /\ Replaced(o)' = Replaced(o) \union {next[o]}
<1> USE DEF QuietInv, TypeInv, TypeOK, AnsweredIsOver
<1>1. ASSUME NEW a \in Orders, ReplaceItem(a)
      PROVE  /\ a # o => Replaced(o)' = Replaced(o)
             /\ next[a] \in DOMAIN Items[a] \ Replaced(a)
             /\ Replaced(a)' = Replaced(a) \union {next[a]}
  <2>1. next[a] \in DOMAIN Items[a]
    BY <1>1, ItemFacts DEF ReplaceItem
  <2>2. 1 .. next[a] = (1 .. next[a] - 1) \union {next[a]} /\ next[a] \notin 1 .. next[a] - 1
    BY <2>1, LineFacts
  <2> QED
    BY <1>1, <2>1, <2>2 DEF ReplaceItem, Replaced
<1>2. ASSUME NEW a \in Orders, SendStockReserved(a)
      PROVE  Replaced(o)' = Replaced(o)
  <2>1. next[a] = Len(Items[a]) + 1
    BY <1>2, LineFacts DEF SendStockReserved, LoopOver
  <2>2. 1 .. next[a] - 1 = DOMAIN Items[a]
    BY <2>1, LineFacts
  <2> QED
    BY <1>2, <2>2 DEF SendStockReserved, Answer, Replaced
<1>3. ASSUME NEW a \in Orders,
             Arrive(a) \/ Deliver(a) \/ CheckItem(a) \/ ReadItem(a)
               \/ PublishStockNotReserved(a) \/ Acknowledge(a)
      PROVE  Replaced(o)' = Replaced(o)
  <2>1. ASSUME NEW b \in Orders, b # a
        PROVE  step'[b] = step[b] /\ next'[b] = next[b] /\ answers'[b] = answers[b]
    BY <1>3, <2>1 DEF Arrive, Deliver, CheckItem, ReadItem, PublishStockNotReserved,
       Answer, Acknowledge
  <2>2. ~(step[a] \in {"reserve", "replace"}) =>
            /\ ~(step'[a] \in {"reserve", "replace"})
            /\ "reserved" \in answers'[a] <=> "reserved" \in answers[a]
    BY <1>3 DEF Arrive, Deliver, CheckItem, ReadItem, PublishStockNotReserved,
       Answer, Acknowledge
  <2>3. step[a] \in {"reserve", "replace"} =>
            step'[a] \in {"reserve", "replace"} /\ next'[a] = next[a]
    BY <1>3 DEF Arrive, Deliver, CheckItem, ReadItem, PublishStockNotReserved,
       Answer, Acknowledge
  <2> QED
    BY <2>1, <2>2, <2>3 DEF Replaced
<1>7. ASSUME NEW a \in Orders, Decide(a) PROVE Replaced(o)' = Replaced(o)
  <2>1. 1 .. 1 - 1 = {}
    OBVIOUS
  <2>2. /\ step[a] = "check" /\ answers[a] = {} /\ answers' = answers /\ next'[a] = 1
        /\ step'[a] \in {"reserve", "refuse"}
        /\ \A b \in Orders \ {a} : step'[b] = step[b] /\ next'[b] = next[b]
    BY <1>7 DEF Decide
  <2> QED
    BY <2>1, <2>2 DEF Replaced
<1>4. ASSUME UNCHANGED vars PROVE Replaced(o)' = Replaced(o)
  BY <1>4 DEF vars, Replaced
<1> HIDE DEF QuietInv, TypeInv, TypeOK, AnsweredIsOver
<1> QED
  BY <1>1, <1>2, <1>3, <1>4, <1>7 DEF Next, Step, Consume

LEMMA OneReplaces ==
    ASSUME QuietInv, NEW o \in Orders, ReplaceItem(o)
    PROVE  \A a \in Orders \ {o} : ~ReplaceItem(a)
  BY DEF ReplaceItem, QuietInv, TypeInv, TypeOK

LEMMA TakenMoves ==
    ASSUME QuietInv, QuietInv', [Next]_vars, NEW o \in Orders, NEW p \in Products
    PROVE  /\ Taken(o, p) \in Int /\ Taken(o, p)' \in Int
           /\ ~ReplaceItem(o) => Taken(o, p)' = Taken(o, p)
           /\ ReplaceItem(o) => Taken(o, p)' = Taken(o, p) + IF Item(o).product = p
                                                             THEN Item(o).count ELSE 0
<1>1. Taken(o, p) = CountIn(o, p, Replaced(o)) /\ Taken(o, p)' = CountIn(o, p, Replaced(o)')
  BY DEF Taken, CountIn
<1>2. Replaced(o) \in SUBSET DOMAIN Items[o]
  BY TakenIs
<1>3. CountIn(o, p, Replaced(o)) \in Int
  BY <1>2, CountInFacts
<1>4. CASE ~ReplaceItem(o)
  BY <1>1, <1>3, <1>4, TakenStep
<1>5. CASE ReplaceItem(o)
  <2> DEFINE i == next[o]
             c == IF Items[o][i].product = p THEN Items[o][i].count ELSE 0
  <2>1. i \in DOMAIN Items[o] \ Replaced(o) /\ Replaced(o)' = Replaced(o) \union {i}
    BY <1>5, TakenStep
  <2>2. c \in Int
    BY <2>1, LineFacts
  <2>3. CountIn(o, p, Replaced(o) \union {i}) = CountIn(o, p, Replaced(o)) + c
    BY <1>2, <2>1, CountInFacts
  <2>4. c = IF Item(o).product = p THEN Item(o).count ELSE 0
    BY DEF Item
  <2> HIDE DEF c
  <2>5. Taken(o, p)' = Taken(o, p) + c /\ Taken(o, p)' \in Int
    BY <1>1, <1>3, <2>1, <2>2, <2>3
  <2> QED
    BY <1>1, <1>3, <1>5, <2>4, <2>5
<1> QED
  BY <1>4, <1>5

TotalTaken(p) == SumFunction([o \in Orders |-> Taken(o, p)])

LEMMA TotalMoves ==
    ASSUME QuietInv, QuietInv', [Next]_vars, NEW p \in Products
    PROVE  /\ TotalTaken(p) \in Int
           /\ (\A o \in Orders : ~ReplaceItem(o)) => TotalTaken(p)' = TotalTaken(p)
           /\ \A o \in Orders : ReplaceItem(o) =>
                 TotalTaken(p)' = TotalTaken(p) + IF Item(o).product = p
                                                  THEN Item(o).count ELSE 0
<1> DEFINE f == [o \in Orders |-> Taken(o, p)]
<1>1. \A o \in Orders : f[o] \in Int /\ f'[o] = Taken(o, p)' /\ f[o] = Taken(o, p)
  BY TakenMoves
<1>2. /\ TotalTaken(p) = SumFunctionOnSet(f, Orders)
      /\ TotalTaken(p)' = SumFunctionOnSet(f', Orders)
  BY DEF TotalTaken, SumFunction
<1> HIDE DEF f
<1>3. TotalTaken(p) \in Int
  BY <1>1, <1>2, OrdersAssumption, SumInt
<1>4. ASSUME \A o \in Orders : ~ReplaceItem(o) PROVE TotalTaken(p)' = TotalTaken(p)
  <2>1. \A o \in Orders : f'[o] = f[o]
    BY <1>1, <1>4, TakenMoves
  <2> QED
    BY <1>2, <2>1, OrdersAssumption, SumSame
<1>5. ASSUME NEW o \in Orders, ReplaceItem(o)
      PROVE  TotalTaken(p)' = TotalTaken(p) + IF Item(o).product = p
                                              THEN Item(o).count ELSE 0
  <2> DEFINE c == IF Item(o).product = p THEN Item(o).count ELSE 0
  <2>1. c \in Int
    BY <1>5, ItemFacts DEF ReplaceItem, QuietInv, TypeInv, TypeOK
  <2>2. \A a \in Orders \ {o} : f'[a] = f[a]
    BY <1>1, <1>5, OneReplaces, TakenMoves
  <2>3. f'[o] = f[o] + c
    BY <1>1, <1>5, TakenMoves
  <2> HIDE DEF c
  <2>4. SumFunctionOnSet(f', Orders) = SumFunctionOnSet(f, Orders) + c
    BY <1>1, <2>1, <2>2, <2>3, OrdersAssumption, SumUpdate
  <2> QED
    BY <1>2, <2>4 DEF c
<1> QED
  BY <1>3, <1>4, <1>5

\* A copy of a document is as good as the document when no count is negative.
CopiesNotShort ==
    \A o \in Orders :
        LET p == Item(o).product
        IN step[o] = "replace" /\ (\A n \in CountsOf(p) : n >= 0)
              => copy[o] >= InitialStock[p] - TotalTaken(p)

VanishInv == QuietInv /\ NothingVanishes /\ CopiesNotShort

LEMMA VanishInit == Init => VanishInv
<1> SUFFICES ASSUME Init PROVE VanishInv
  OBVIOUS
<1>1. QuietInv
  BY QuietInit
<1>2. ASSUME NEW p \in Products PROVE TotalTaken(p) = 0
  <2> DEFINE f == [o \in Orders |-> Taken(o, p)]
  <2>1. \A o \in Orders : Replaced(o) = {}
    BY DEF Init, Replaced
  <2>2. \A o \in Orders : f[o] = 0
    BY <2>1, CountInFacts DEF Taken, CountIn
  <2>3. TotalTaken(p) = SumFunctionOnSet(f, Orders)
    BY DEF TotalTaken, SumFunction
  <2> HIDE DEF f
  <2> QED
    BY <2>2, <2>3, OrdersAssumption, SumZero
<1>3. NothingVanishes
  <2>1. \A p \in Products : stock[p] = InitialStock[p] /\ InitialStock[p] \in Int
    BY StockAssumption, IntsAreInt DEF Init
  <2> QED
    BY <1>2, <2>1 DEF NothingVanishes, TotalTaken
<1>4. CopiesNotShort
  BY DEF Init, CopiesNotShort
<1> QED
  BY <1>1, <1>3, <1>4 DEF VanishInv

LEMMA VanishStep == VanishInv /\ [Next]_vars => VanishInv'
<1> SUFFICES ASSUME VanishInv, [Next]_vars PROVE VanishInv'
  OBVIOUS
<1>1. QuietInv /\ QuietInv' /\ TypeOK /\ TypeOK' /\ DocumentsExist
  BY QuietStep DEF VanishInv, QuietInv, TypeInv
<1>2. ASSUME NEW p \in Products, \A n \in CountsOf(p) : n >= 0
      PROVE  /\ stock'[p] >= InitialStock[p] - TotalTaken(p)'
             /\ \A o \in Orders : step'[o] = "replace" /\ Item(o)'.product = p
                   => copy'[o] >= InitialStock[p] - TotalTaken(p)'
  <2> DEFINE T == TotalTaken(p)
             S == InitialStock[p]
  <2>1. T \in Int /\ S \in Int /\ stock[p] \in Int /\ \A o \in Orders : copy[o] \in Int
    BY <1>1, TotalMoves, CountsAreInt
  <2>2. stock[p] >= S - T
    BY <1>2 DEF VanishInv, NothingVanishes, TotalTaken
  <2>3. \A o \in Orders : step[o] = "replace" /\ Item(o).product = p => copy[o] >= S - T
    BY <1>2 DEF VanishInv, CopiesNotShort
  <2>4. ASSUME NEW o \in Orders, ReplaceItem(o)
        PROVE  /\ stock'[p] >= S - T'
               /\ \A a \in Orders : step'[a] = "replace" /\ Item(a)'.product = p
                     => copy'[a] >= S - T'
    <3> DEFINE c == Item(o).count
    <3>1. /\ next[o] \in DOMAIN Items[o] /\ Item(o) = Items[o][next[o]] /\ c \in Int
          /\ Item(o).product \in Products /\ c \in Ints
      <4>1. step[o] = "replace" /\ ~LoopOver(o)
        BY <1>1, <2>4 DEF ReplaceItem, TypeOK
      <4>2. /\ next[o] \in DOMAIN Items[o] /\ Item(o) = Items[o][next[o]]
            /\ c \in Int /\ c \in Ints
        BY <1>1, <4>1, ItemFacts
      <4> QED
        BY <1>1, <4>1, <4>2 DEF DocumentsExist
    <3>2. /\ stock' = [stock EXCEPT ![Item(o).product] = Wrap(copy[o] - c)]
          /\ step[o] = "replace" /\ step'[o] = "reserve" /\ copy' = copy
          /\ \A a \in Orders \ {o} : step'[a] = step[a] /\ Item(a)' = Item(a)
      BY <1>1, <2>4 DEF ReplaceItem, TypeOK, Item
    <3>3. T' = T + IF Item(o).product = p THEN c ELSE 0
      BY <1>1, <2>4, TotalMoves
    <3>4. Item(o).product = p => c >= 0
      BY <1>2, <3>1 DEF CountsOf
    <3> HIDE DEF T, S, c
    <3>5. T' \in Int /\ T <= T'
      BY <2>1, <3>1, <3>3, <3>4
    <3>6. stock'[p] >= S - T'
      <4>1. CASE Item(o).product = p
        <5>1. stock'[p] >= copy[o] - c /\ T' = T + c
          <6>1. stock'[p] = Wrap(copy[o] - c) /\ copy[o] \in Ints
            BY <1>1, <3>2, <4>1 DEF TypeOK
          <6>2. stock'[p] >= copy[o] - c
            BY <3>1, <3>4, <4>1, <6>1, WrapOfTaking
          <6> QED
            BY <3>3, <4>1, <6>2
        <5>2. copy[o] >= S - T
          BY <2>3, <3>2, <4>1
        <5>3. stock'[p] \in Int
          BY <1>1, IntsAreInt DEF TypeOK
        <5> QED
          BY <2>1, <3>1, <5>1, <5>2, <5>3
      <4>2. CASE Item(o).product # p
        <5>1. stock'[p] = stock[p]
          BY <1>1, <3>2, <4>2 DEF TypeOK
        <5> QED
          BY <2>1, <2>2, <3>5, <5>1
      <4> QED
        BY <4>1, <4>2
    <3>7. ASSUME NEW a \in Orders, step'[a] = "replace", Item(a)'.product = p
          PROVE  copy'[a] >= S - T'
      <4>1. copy[a] >= S - T /\ copy'[a] = copy[a]
        BY <2>3, <3>2, <3>7
      <4> QED
        BY <2>1, <3>5, <4>1
    <3> QED
      BY <3>6, <3>7
  <2>5. ASSUME \A o \in Orders : ~ReplaceItem(o)
        PROVE  /\ stock'[p] >= S - T'
               /\ \A a \in Orders : step'[a] = "replace" /\ Item(a)'.product = p
                     => copy'[a] >= S - T'
    <3>1. T' = T
      BY <1>1, <2>5, TotalMoves
    <3>2. /\ stock' = stock
          /\ \A a \in Orders : step'[a] = "replace" =>
                \/ step[a] = "replace" /\ copy'[a] = copy[a] /\ Item(a)' = Item(a)
                \/ copy'[a] = stock[Item(a).product] /\ Item(a)' = Item(a)
      <4>1. ASSUME NEW o \in Orders, ReadItem(o)
            PROVE  /\ stock' = stock /\ next' = next
                   /\ \A a \in Orders \ {o} : step'[a] = step[a] /\ copy'[a] = copy[a]
                   /\ copy'[o] = stock[Item(o).product]
        BY <1>1, <4>1 DEF ReadItem, TypeOK
      <4>2. ASSUME NEW o \in Orders, Step(o), ~ReadItem(o), ~ReplaceItem(o)
            PROVE  /\ stock' = stock /\ copy' = copy
                   /\ \A a \in Orders : step'[a] = "replace" =>
                         step[a] = "replace" /\ next'[a] = next[a]
        BY <1>1, <4>2 DEF Step, Consume, Arrive, Deliver, CheckItem, Decide,
           SendStockReserved, PublishStockNotReserved, Answer, Acknowledge, TypeOK
      <4>3. ASSUME UNCHANGED vars
            PROVE  stock' = stock /\ copy' = copy /\ step' = step /\ next' = next
        BY <4>3 DEF vars
      <4> QED
        BY <2>5, <4>1, <4>2, <4>3 DEF Next, Item
    <3> HIDE DEF T, S
    <3> QED
      BY <2>2, <2>3, <3>1, <3>2
  <2> HIDE DEF T, S
  <2> QED
    BY <2>4, <2>5 DEF T, S
<1>3. NothingVanishes'
  BY <1>2 DEF NothingVanishes, TotalTaken, CountsOf
<1>4. ASSUME NEW o \in Orders, step'[o] = "replace" PROVE Item(o)'.product \in Products
  <2>1. next'[o] \in DOMAIN Items[o]
    BY <1>1, <1>4, LineFacts DEF TypeOK, LoopOver
  <2>2. DocumentsExist'
    BY <1>1 DEF QuietInv, TypeInv
  <2> QED
    BY <1>4, <2>1, <2>2 DEF DocumentsExist, Item
<1>5. CopiesNotShort'
  BY <1>2, <1>4 DEF CopiesNotShort, CountsOf
<1> QED
  BY <1>1, <1>3, <1>5 DEF VanishInv

\* Without crashes, and however many deliveries run at once: of a product that no
\* order asks a negative number of, never more is gone than what orders have taken,
\* whichever updates were lost.
THEOREM OnlyReservationsTake == Spec => []NothingVanishes
<1>1. VanishInv => NothingVanishes
  BY DEF VanishInv
<1> QED
  BY <1>1, VanishInit, VanishStep, PTL DEF Spec

-----------------------------------------------------------------------------
(* No overlap.  Of a product that is not contended at most one delivery is  *)
(* about to take something, so what its check has found is still there, and *)
(* its copy is the document.                                                *)

Calm(p) == p \in Products \ contended /\ Orderly(p)

FoundIsThere ==
    \A o \in Orders : \A i \in DOMAIN Items[o] :
        Calm(Items[o][i].product) /\ Awaits(o, i)
            => stock[Items[o][i].product] >= Items[o][i].count

CopyIsCurrent ==
    \A o \in Orders :
        step[o] = "replace" /\ Calm(Item(o).product) => copy[o] = stock[Item(o).product]

CalmInv ==
    /\ TypeInv
    /\ Contended \subseteq contended
    /\ FoundIsThere
    /\ CopyIsCurrent
    /\ NegativeNeedsOverlap

LEMMA CalmInit == OverlapsInit => CalmInv
<1> SUFFICES ASSUME OverlapsInit PROVE CalmInv
  OBVIOUS
<1>1. TypeInv
  BY TypeInit DEF OverlapsInit
<1>2. \A o \in Orders : \A i \in DOMAIN Items[o] : ~Awaits(o, i)
  BY DEF OverlapsInit, Init, Awaits
<1>3. Contended \subseteq contended /\ FoundIsThere
  BY <1>2 DEF Contended, AwaitsProduct, FoundIsThere
<1>4. CopyIsCurrent /\ NegativeNeedsOverlap
  BY DEF OverlapsInit, Init, CopyIsCurrent, NegativeNeedsOverlap
<1> QED
  BY <1>1, <1>3, <1>4 DEF CalmInv

LEMMA OneTaker ==
    ASSUME Contended \subseteq contended, NEW p, Calm(p),
           NEW a \in Orders, NEW b \in Orders,
           NEW i \in DOMAIN Items[a], NEW j \in DOMAIN Items[b],
           Items[a][i].product = p, Items[b][j].product = p, Awaits(a, i), Awaits(b, j)
    PROVE  a = b /\ i = j
<1>1. AwaitsProduct(a, p) /\ AwaitsProduct(b, p) /\ p \in Products
  BY DEF AwaitsProduct, Calm
<1>2. a = b
  BY <1>1 DEF Contended, Calm
<1> QED
  BY <1>2 DEF Calm, Orderly, ListsOnce

\* A line of a product that is listed once, and not with a negative number.
LEMMA OrderlyCounts ==
    ASSUME NEW o \in Orders, NEW i \in DOMAIN Items[o], Orderly(Items[o][i].product)
    PROVE  Items[o][i].count >= 0
  BY DEF Orderly, CountsOf

\* What the check has found is what the document holds when it is replaced.
LEMMA CalmTaking ==
    ASSUME CalmInv, NEW o \in Orders, ReplaceItem(o), Calm(Item(o).product)
    PROVE  /\ stock[Item(o).product] >= Item(o).count
           /\ Item(o).count >= 0
           /\ stock'[Item(o).product] = stock[Item(o).product] - Item(o).count
<1> DEFINE p == Item(o).product
           c == Item(o).count
<1>1. TypeOK /\ FoundIsThere /\ CopyIsCurrent
  BY DEF CalmInv, TypeInv
<1>2. /\ step[o] = "replace" /\ next[o] \in DOMAIN Items[o] /\ Item(o) = Items[o][next[o]]
      /\ c \in Ints /\ next[o] \in Nat
  BY <1>1, ItemFacts DEF ReplaceItem, TypeOK
<1>3. Awaits(o, next[o])
  BY <1>2 DEF Awaits
<1>4. stock[p] >= c /\ copy[o] = stock[p]
  BY <1>1, <1>2, <1>3 DEF FoundIsThere, CopyIsCurrent
<1>5. c >= 0
  BY <1>2, OrderlyCounts DEF Calm
<1>6. p \in Products /\ stock[p] \in Ints
  BY <1>1 DEF Calm, TypeOK
<1>7. stock'[p] = Wrap(copy[o] - c)
  BY <1>1, <1>6 DEF ReplaceItem, TypeOK
<1> HIDE DEF p, c
<1>8. Wrap(stock[p] - c) = stock[p] - c
  BY <1>2, <1>4, <1>5, <1>6, WrapOfTaking
<1> QED
  BY <1>4, <1>5, <1>7, <1>8 DEF p, c

\* A step that neither writes a document nor reads one, and finds no item.
LEMMA CalmKept ==
    ASSUME CalmInv, TypeInv', stock' = stock, contended \subseteq contended',
           \A a \in Orders : \A i \in DOMAIN Items[a] : Awaits(a, i)' => Awaits(a, i),
           \A a \in Orders : step'[a] = "replace" =>
              step[a] = "replace" /\ next'[a] = next[a] /\ copy'[a] = copy[a]
    PROVE  FoundIsThere' /\ CopyIsCurrent' /\ NegativeNeedsOverlap'
<1>1. \A p : Calm(p)' => Calm(p)
  BY DEF Calm, Orderly, ListsOnce, CountsOf
<1>2. FoundIsThere /\ CopyIsCurrent /\ NegativeNeedsOverlap
  BY DEF CalmInv
<1>3. FoundIsThere'
  BY <1>1, <1>2 DEF FoundIsThere
<1>4. CopyIsCurrent'
  BY <1>1, <1>2 DEF CopyIsCurrent, Item
<1>5. NegativeNeedsOverlap'
  BY <1>2 DEF NegativeNeedsOverlap, Orderly, ListsOnce, CountsOf
<1> QED
  BY <1>3, <1>4, <1>5

LEMMA CalmStep == CalmInv /\ [OverlapsNext]_<<vars, history>> => CalmInv'
<1> SUFFICES ASSUME CalmInv, [OverlapsNext]_<<vars, history>> PROVE CalmInv'
  OBVIOUS
<1> DEFINE Rest == FoundIsThere /\ CopyIsCurrent /\ NegativeNeedsOverlap
<1>1. TypeInv /\ TypeOK /\ Contended \subseteq contended /\ Rest /\ DocumentsExist
  BY DEF CalmInv, TypeInv
<1>2. [Next \/ Crash]_vars /\ contended \subseteq contended'
  BY DEF OverlapsNext, history
<1>3. TypeInv' /\ TypeOK'
  BY <1>1, <1>2, TypeStep DEF TypeInv
<1>4. (Contended \subseteq contended)'
  <2>1. CASE OverlapsNext
    BY <2>1 DEF OverlapsNext
  <2>2. CASE UNCHANGED <<vars, history>>
    BY <1>1, <2>2 DEF vars, history, Contended, AwaitsProduct, Awaits
  <2> QED
    BY <2>1, <2>2
<1>5. \A p : Calm(p)' => Calm(p)
  BY <1>2 DEF Calm, Orderly, ListsOnce, CountsOf
<1>6. ASSUME NEW o \in Orders,
             Arrive(o) \/ Deliver(o) \/ SendStockReserved(o)
               \/ PublishStockNotReserved(o) \/ Acknowledge(o)
      PROVE  Rest'
  <2>1. stock' = stock
    BY <1>6 DEF Arrive, Deliver, SendStockReserved, PublishStockNotReserved, Answer,
       Acknowledge
  <2>2. \A a \in Orders : \A i \in DOMAIN Items[a] : Awaits(a, i)' => Awaits(a, i)
    BY <1>1, <1>6, LineFacts DEF Arrive, Deliver, SendStockReserved,
       PublishStockNotReserved, Answer, Acknowledge, Awaits, TypeOK
  <2>3. \A a \in Orders : step'[a] = "replace" =>
           step[a] = "replace" /\ next'[a] = next[a] /\ copy'[a] = copy[a]
    BY <1>1, <1>6 DEF Arrive, Deliver, SendStockReserved, PublishStockNotReserved, Answer,
       Acknowledge, TypeOK
  <2> QED
    BY <1>2, <1>3, <2>1, <2>2, <2>3, CalmKept
<1>7. ASSUME NEW o \in Orders, Decide(o) PROVE Rest'
  <2>1. \A i \in DOMAIN Items[o] : i < next[o]
    BY <1>1, <1>7, LineFacts DEF Decide, LoopOver, TypeOK
  <2>2. \A a \in Orders : \A i \in DOMAIN Items[a] : Awaits(a, i)' => Awaits(a, i)
    BY <1>1, <1>7, <2>1 DEF Decide, Awaits, TypeOK
  <2>3. stock' = stock /\ \A a \in Orders : step'[a] = "replace" =>
           step[a] = "replace" /\ next'[a] = next[a] /\ copy'[a] = copy[a]
    BY <1>1, <1>7 DEF Decide, TypeOK
  <2> QED
    BY <1>2, <1>3, <2>2, <2>3, CalmKept
<1>8. ASSUME NEW o \in Orders, CheckItem(o) PROVE Rest'
  <2>1. /\ stock' = stock /\ step' = step /\ copy' = copy
        /\ step[o] = "check" /\ next'[o] = next[o] + 1
        /\ enough'[o] = (enough[o] /\ InStock(Item(o)))
        /\ \A a \in Orders \ {o} : enough'[a] = enough[a] /\ next'[a] = next[a]
    BY <1>1, <1>8 DEF CheckItem, TypeOK
  <2>2. FoundIsThere'
    <3>1. ASSUME NEW i \in DOMAIN Items[o], Awaits(o, i)', Calm(Items[o][i].product)
          PROVE  stock[Items[o][i].product] >= Items[o][i].count
      <4>1. enough[o] /\ InStock(Item(o)) /\ (i < next[o] \/ i = next[o])
        <5>1. enough'[o] /\ i < next'[o]
          BY <2>1, <3>1 DEF Awaits
        <5>2. i \in Nat /\ next[o] \in Nat
          BY <1>1, LineFacts DEF TypeOK
        <5>3. enough[o] /\ InStock(Item(o))
          BY <2>1, <5>1, Zenon
        <5>4. i < next[o] \/ i = next[o]
          BY <2>1, <5>1, <5>2
        <5> QED
          BY <5>3, <5>4
      <4>2. CASE i < next[o]
        BY <1>1, <2>1, <3>1, <4>1, <4>2 DEF FoundIsThere, Awaits
      <4>3. CASE i = next[o]
        BY <4>1, <4>3 DEF InStock, Item
      <4> QED
        BY <4>1, <4>2, <4>3
    <3>2. ASSUME NEW a \in Orders, a # o, NEW i \in DOMAIN Items[a], Awaits(a, i)'
          PROVE  Awaits(a, i)
      BY <2>1, <3>2 DEF Awaits
    <3> QED
      BY <1>1, <1>5, <2>1, <3>1, <3>2 DEF FoundIsThere
  <2>3. CopyIsCurrent'
    BY <1>1, <1>5, <2>1 DEF CopyIsCurrent, Item
  <2>4. NegativeNeedsOverlap'
    BY <1>1, <1>2, <2>1 DEF NegativeNeedsOverlap, Orderly, ListsOnce, CountsOf
  <2> QED
    BY <2>2, <2>3, <2>4
<1>9. ASSUME NEW o \in Orders, ReadItem(o) PROVE Rest'
  <2>1. /\ stock' = stock /\ next' = next /\ enough' = enough
        /\ step[o] = "reserve" /\ step'[o] = "replace"
        /\ copy'[o] = stock[Item(o).product]
        /\ \A a \in Orders \ {o} : step'[a] = step[a] /\ copy'[a] = copy[a]
    BY <1>1, <1>9 DEF ReadItem, TypeOK
  <2>2. FoundIsThere'
    <3>1. \A a \in Orders : \A i \in DOMAIN Items[a] : Awaits(a, i)' => Awaits(a, i)
      BY <2>1 DEF Awaits
    <3> QED
      BY <1>1, <1>5, <2>1, <3>1 DEF FoundIsThere
  <2>3. CopyIsCurrent'
    BY <1>1, <1>5, <2>1 DEF CopyIsCurrent, Item
  <2>4. NegativeNeedsOverlap'
    BY <1>1, <1>2, <2>1 DEF NegativeNeedsOverlap, Orderly, ListsOnce, CountsOf
  <2> QED
    BY <2>2, <2>3, <2>4
<1>10. ASSUME NEW o \in Orders, ReplaceItem(o) PROVE Rest'
  <2> DEFINE j == next[o]
             p == Item(o).product
             c == Item(o).count
  <2>1. /\ j \in DOMAIN Items[o] /\ Item(o) = Items[o][j] /\ c \in Int /\ j \in Nat
        /\ p \in Products /\ stock[p] \in Int
    BY <1>1, <1>10, ItemFacts, IntsAreInt DEF ReplaceItem, TypeOK, DocumentsExist
  <2>2. /\ step[o] = "replace" /\ step'[o] = "reserve" /\ next'[o] = j + 1
        /\ \A a \in Orders \ {o} : step'[a] = step[a] /\ next'[a] = next[a]
        /\ enough' = enough /\ copy' = copy
        /\ \A q \in Products \ {p} : stock'[q] = stock[q]
    BY <1>1, <1>10 DEF ReplaceItem, TypeOK
  <2>3. Calm(p) => stock[p] >= c /\ c >= 0 /\ stock'[p] = stock[p] - c
    BY <1>10, CalmTaking
  <2>4. ASSUME NEW a \in Orders, NEW i \in DOMAIN Items[a], Awaits(a, i)'
        PROVE  Awaits(a, i) /\ ~(a = o /\ i = j)
    BY <2>1, <2>2, <2>4, LineFacts DEF Awaits
  <2>5. Awaits(o, j)
    BY <2>1, <2>2 DEF Awaits
  <2>6. ASSUME NEW a \in Orders, NEW i \in DOMAIN Items[a], Awaits(a, i)',
               Calm(Items[a][i].product)
        PROVE  Items[a][i].product \in Products \ {p}
    BY <1>1, <2>1, <2>4, <2>5, <2>6, OneTaker DEF Calm
  <2>7. FoundIsThere'
    <3> SUFFICES ASSUME NEW a \in Orders, NEW i \in DOMAIN Items[a],
                        Awaits(a, i)', Calm(Items[a][i].product)'
                 PROVE  stock'[Items[a][i].product] >= Items[a][i].count
      BY DEF FoundIsThere
    <3>1. Calm(Items[a][i].product)
      BY <1>5
    <3>2. Items[a][i].product \in Products \ {p} /\ Awaits(a, i)
      BY <2>4, <2>6, <3>1
    <3> QED
      BY <1>1, <2>2, <3>1, <3>2 DEF FoundIsThere
  <2>8. CopyIsCurrent'
    <3> SUFFICES ASSUME NEW a \in Orders, step'[a] = "replace", Calm(Item(a).product)'
                 PROVE  copy'[a] = stock'[Item(a)'.product]
      BY DEF CopyIsCurrent
    <3>1. Calm(Item(a)'.product) /\ Item(a)' = Item(a) /\ step[a] = "replace"
      <4>1. Calm(Item(a)'.product)
        BY <1>2 DEF Calm, Orderly, ListsOnce, CountsOf, Item
      <4> QED
        BY <2>2, <4>1 DEF Item
    <3>2. PICK k \in DOMAIN Items[a] : k = next[a] /\ Item(a) = Items[a][k] /\ k \in Nat
      BY <1>1, <3>1, ItemFacts DEF TypeOK
    <3>3. Awaits(a, k)'
      <4>1. next'[a] = next[a]
        BY <2>2, <3>1
      <4> QED
        BY <3>2, <4>1 DEF Awaits
    <3>4. Item(a).product \in Products \ {p}
      <4>1. Calm(Items[a][k].product)
        BY <3>1, <3>2
      <4>2. Items[a][k].product \in Products \ {p}
        BY <2>6, <3>3, <4>1
      <4> HIDE DEF p
      <4> QED
        BY <3>2, <4>2
    <3> QED
      BY <1>1, <2>2, <3>1, <3>4 DEF CopyIsCurrent
  <2>9. NegativeNeedsOverlap'
    <3> SUFFICES ASSUME NEW q \in Products \ contended', Orderly(q), InitialStock[q] >= 0
                 PROVE  stock'[q] >= 0
      BY DEF NegativeNeedsOverlap, Orderly, ListsOnce, CountsOf
    <3>1. stock[q] >= 0 /\ Calm(q)
      BY <1>1, <1>2 DEF NegativeNeedsOverlap, Calm
    <3>2. CASE q = p
      <4> HIDE DEF p, c
      <4> QED
        BY <2>1, <2>3, <3>1, <3>2
    <3>3. CASE q # p
      BY <2>2, <3>1, <3>3
    <3> QED
      BY <3>2, <3>3
  <2> QED
    BY <2>7, <2>8, <2>9
<1>11. ASSUME Crash PROVE Rest'
  <2>1. /\ stock' = stock
        /\ \A a \in Orders : \A i \in DOMAIN Items[a] : ~Awaits(a, i)'
        /\ \A a \in Orders : step'[a] # "replace"
    BY <1>11 DEF Crash, Active, Awaits
  <2> QED
    BY <1>2, <1>3, <2>1, CalmKept
<1>12. ASSUME UNCHANGED vars PROVE Rest'
  BY <1>2, <1>3, <1>12, CalmKept DEF vars, Awaits
<1>13. Rest'
  BY <1>2, <1>6, <1>7, <1>8, <1>9, <1>10, <1>11, <1>12 DEF Next, Step, Consume
<1> QED
  BY <1>3, <1>4, <1>13 DEF CalmInv

\* For any orders, limit and seed data, crashes and redelivered messages included:
\* the count of a product falls below zero only after two deliveries were about to
\* take the same pieces of it, if every order lists it once, in a number that is not
\* negative.
THEOREM NegativeCountsOverlap == OverlapsSpec => []NegativeNeedsOverlap
<1>1. CalmInv => NegativeNeedsOverlap
  BY DEF CalmInv
<1> QED
  BY <1>1, CalmInit, CalmStep, PTL DEF OverlapsSpec

-----------------------------------------------------------------------------
(* The abstract service.  An order takes its items when its check is over.  *)
(* Of a calm product only one delivery can then have an item to take, so    *)
(* that what is available is its count, less that item.                     *)

Claims(o, i) == step[o] \in {"reserve", "replace"} /\ i >= next[o]

LEMMA OutstandingIs ==
    ASSUME NEW o \in Orders, NEW p, Orderly(p)
    PROVE  /\ (\A i \in DOMAIN Items[o] : Items[o][i].product = p => ~Claims(o, i))
                 => Outstanding(o, p) = 0
           /\ \A i \in DOMAIN Items[o] :
                 Items[o][i].product = p /\ Claims(o, i)
                    => Outstanding(o, p) = Items[o][i].count
<1> DEFINE f == [i \in DOMAIN Items[o] |-> Items[o][i].count]
           S == {i \in DOMAIN Items[o] : /\ step[o] \in {"reserve", "replace"}
                                         /\ i >= next[o]
                                         /\ Items[o][i].product = p}
<1>1. Outstanding(o, p) = SumFunctionOnSet(f, S)
  BY DEF Outstanding
<1>2. ASSUME \A i \in DOMAIN Items[o] : Items[o][i].product = p => ~Claims(o, i)
      PROVE  Outstanding(o, p) = 0
  <2>1. S = {}
    BY <1>2 DEF Claims
  <2> QED
    BY <1>1, <2>1, SumEmpty
<1>3. ASSUME NEW i \in DOMAIN Items[o], Items[o][i].product = p, Claims(o, i)
      PROVE  Outstanding(o, p) = Items[o][i].count
  <2>1. S = {i}
    BY <1>3 DEF Claims, Orderly, ListsOnce
  <2>2. f[i] = Items[o][i].count /\ f[i] \in Int
    BY LineFacts
  <2>3. IsFiniteSet({i})
    BY FS_Singleton
  <2> HIDE DEF f, S
  <2>4. SumFunctionOnSet(f, {i}) = f[i]
    BY <2>2, <2>3, SumOne
  <2> QED
    BY <1>1, <2>1, <2>2, <2>4
<1> QED
  BY <1>2, <1>3

AvailableFacts ==
    CalmInv => \A p : Calm(p) =>
        /\ (\A o \in Orders : \A i \in DOMAIN Items[o] :
               Items[o][i].product = p => ~Claims(o, i)) => Available(p) = stock[p]
        /\ \A o \in Orders : \A i \in DOMAIN Items[o] :
               Items[o][i].product = p /\ Claims(o, i)
                  => Available(p) = stock[p] - Items[o][i].count

LEMMA AvailableNow == AvailableFacts
<1> SUFFICES ASSUME CalmInv, NEW p, Calm(p)
             PROVE  /\ (\A o \in Orders : \A i \in DOMAIN Items[o] :
                           Items[o][i].product = p => ~Claims(o, i)) => Available(p) = stock[p]
                    /\ \A o \in Orders : \A i \in DOMAIN Items[o] :
                           Items[o][i].product = p /\ Claims(o, i)
                              => Available(p) = stock[p] - Items[o][i].count
  BY DEF AvailableFacts
<1> DEFINE f == [o \in Orders |-> Outstanding(o, p)]
<1>1. Available(p) = stock[p] - SumFunctionOnSet(f, Orders)
  BY DEF Available, SumFunction
<1>2. Orderly(p) /\ stock[p] \in Int
  BY IntsAreInt DEF Calm, CalmInv, TypeInv, TypeOK
<1>3. ASSUME \A o \in Orders : \A i \in DOMAIN Items[o] :
                Items[o][i].product = p => ~Claims(o, i)
      PROVE  Available(p) = stock[p]
  <2>1. \A o \in Orders : f[o] = 0
    BY <1>2, <1>3, OutstandingIs
  <2> HIDE DEF f
  <2>2. SumFunctionOnSet(f, Orders) = 0
    BY <2>1, OrdersAssumption, SumZero
  <2> QED
    BY <1>1, <1>2, <2>2
<1>4. ASSUME NEW o \in Orders, NEW i \in DOMAIN Items[o], Items[o][i].product = p,
             Claims(o, i)
      PROVE  Available(p) = stock[p] - Items[o][i].count
  <2>1. f[o] = Items[o][i].count /\ f[o] \in Int
    BY <1>2, <1>4, LineFacts, OutstandingIs
  <2>2. ASSUME NEW a \in Orders \ {o} PROVE f[a] = 0
    <3>1. ASSUME NEW j \in DOMAIN Items[a], Items[a][j].product = p, Claims(a, j)
          PROVE  FALSE
      <4>1. Awaits(o, i) /\ Awaits(a, j)
        BY <1>4, <3>1 DEF Awaits, Claims
      <4>2. Contended \subseteq contended
        BY DEF CalmInv
      <4>3. o = a
        BY <1>4, <3>1, <4>1, <4>2, OneTaker
      <4> QED
        BY <4>3
    <3> QED
      BY <1>2, <3>1, OutstandingIs
  <2> HIDE DEF f
  <2>3. SumFunctionOnSet(f, Orders) = f[o]
    BY <2>1, <2>2, OrdersAssumption, SumOne
  <2> QED
    BY <1>1, <2>1, <2>3
<1> QED
  BY <1>3, <1>4

LEMMA AvailableNext == AvailableFacts'
  BY AvailableNow, PTL

LEMMA WantedIs ==
    ASSUME NEW o \in Orders, NEW p, Orderly(p)
    PROVE  /\ (\A i \in DOMAIN Items[o] : Items[o][i].product # p)
                 => StockService!Wanted(o, p) = 0
           /\ \A i \in DOMAIN Items[o] :
                 Items[o][i].product = p => StockService!Wanted(o, p) = Items[o][i].count
<1> DEFINE f == [i \in DOMAIN Items[o] |-> Items[o][i].count]
           S == {i \in DOMAIN Items[o] : Items[o][i].product = p}
<1>1. StockService!Wanted(o, p) = SumFunctionOnSet(f, S)
  BY DEF StockService!Wanted, StockService!Lines, SumFunctionOnSet,
     FoldFunctionOnSet, MapThenFoldSet, StockService!SumFunctionOnSet,
     StockService!FoldFunctionOnSet, StockService!MapThenFoldSet
<1>2. ASSUME \A i \in DOMAIN Items[o] : Items[o][i].product # p
      PROVE  StockService!Wanted(o, p) = 0
  <2>1. S = {}
    BY <1>2
  <2> QED
    BY <1>1, <2>1, SumEmpty
<1>3. ASSUME NEW i \in DOMAIN Items[o], Items[o][i].product = p
      PROVE  StockService!Wanted(o, p) = Items[o][i].count
  <2>1. S = {i}
    BY <1>3 DEF Orderly, ListsOnce
  <2>2. f[i] = Items[o][i].count /\ f[i] \in Int
    BY LineFacts
  <2>3. IsFiniteSet({i})
    BY FS_Singleton
  <2> HIDE DEF f, S
  <2>4. SumFunctionOnSet(f, {i}) = f[i]
    BY <2>2, <2>3, SumOne
  <2> QED
    BY <1>1, <2>1, <2>2, <2>4
<1> QED
  BY <1>2, <1>3

LEMMA DisturbedGrows ==
    ASSUME [OverlapsNext]_<<vars, history>>
    PROVE  /\ contended \subseteq contended' /\ interrupted \subseteq interrupted'
           /\ Disturbed \subseteq Disturbed'
<1>1. contended \subseteq contended' /\ interrupted \subseteq interrupted'
  BY DEF OverlapsNext, history
<1> QED
  BY <1>1 DEF Disturbed, Orderly, ListsOnce, CountsOf

LEMMA UndisturbedIsCalm ==
    ASSUME NEW p \in Products \ Disturbed
    PROVE  /\ Calm(p)
           /\ \A o \in interrupted : \A i \in DOMAIN Items[o] : Items[o][i].product # p
  BY DEF Disturbed, Calm

\* The check of the order is over and has found every item.
Takes(o) == Decide(o) /\ enough[o]

\* A step that starts or ends no claim on the product and does not write it.
LEMMA AvailableKept ==
    ASSUME CalmInv, CalmInv', NEW p, Calm(p), Calm(p)', stock'[p] = stock[p],
           \A o \in Orders : \A i \in DOMAIN Items[o] :
              Items[o][i].product = p => (Claims(o, i)' <=> Claims(o, i))
    PROVE  Available(p)' = Available(p)
<1>1. CASE \A o \in Orders : \A i \in DOMAIN Items[o] : Items[o][i].product = p => ~Claims(o, i)
  BY <1>1, AvailableNow, AvailableNext DEF AvailableFacts
<1>2. ASSUME NEW o \in Orders, NEW i \in DOMAIN Items[o], Items[o][i].product = p, Claims(o, i)
      PROVE  Available(p)' = Available(p)
  BY <1>2, AvailableNow, AvailableNext DEF AvailableFacts
<1> QED
  BY <1>1, <1>2

\* What is available is a number, and no more than the document holds.
LEMMA AvailableIsInt ==
    ASSUME CalmInv, NEW p, Calm(p)
    PROVE  /\ Available(p) \in Int /\ stock[p] \in Int
           /\ Available(p) <= stock[p]
<1>1. stock[p] \in Int
  BY IntsAreInt DEF CalmInv, TypeInv, TypeOK, Calm
<1>2. CASE \A o \in Orders : \A i \in DOMAIN Items[o] : Items[o][i].product = p => ~Claims(o, i)
  BY <1>1, <1>2, AvailableNow DEF AvailableFacts
<1>3. ASSUME NEW o \in Orders, NEW i \in DOMAIN Items[o], Items[o][i].product = p, Claims(o, i)
      PROVE  /\ Available(p) \in Int
             /\ Available(p) <= stock[p]
  <2>1. Available(p) = stock[p] - Items[o][i].count
    BY <1>3, AvailableNow DEF AvailableFacts
  <2>2. Items[o][i].count \in Int /\ Items[o][i].count >= 0
    BY <1>3, LineFacts, OrderlyCounts DEF Calm
  <2> QED
    BY <1>1, <2>1, <2>2
<1> QED
  BY <1>1, <1>2, <1>3

\* Before the order takes an item it has found, nothing else is to be taken.
LEMMA AvailableToTaker ==
    ASSUME CalmInv, NEW o \in Orders, step[o] = "check",
           NEW i \in DOMAIN Items[o], Awaits(o, i), Calm(Items[o][i].product)
    PROVE  Available(Items[o][i].product) = stock[Items[o][i].product]
<1>1. ASSUME NEW a \in Orders, NEW j \in DOMAIN Items[a],
             Items[a][j].product = Items[o][i].product
      PROVE  ~Claims(a, j)
  <2>1. SUFFICES ASSUME Claims(a, j) PROVE FALSE
    OBVIOUS
  <2>2. Awaits(a, j) /\ Contended \subseteq contended
    BY <2>1 DEF Awaits, Claims, CalmInv
  <2>3. a = o
    BY <1>1, <2>2, OneTaker
  <2> QED
    BY <2>1, <2>3 DEF Claims
<1> QED
  BY <1>1, AvailableNow DEF AvailableFacts

LEMMA AvailableMoves ==
    ASSUME CalmInv, CalmInv', [OverlapsNext]_<<vars, history>>,
           NEW p \in Products \ Disturbed'
    PROVE  /\ \A o \in Orders : Takes(o) =>
                 Available(p)' = Available(p) - StockService!Wanted(o, p)
           /\ (\A o \in Orders : ~Takes(o)) => Available(p)' = Available(p)
<1>1. TypeInv /\ TypeOK /\ Contended \subseteq contended /\ [Next \/ Crash]_vars
  BY DEF CalmInv, TypeInv, OverlapsNext
<1>2. p \in Products /\ Calm(p) /\ Calm(p)' /\ Orderly(p)
  <2>1. p \in Products \ Disturbed /\ p \notin contended'
    BY DisturbedGrows DEF Disturbed
  <2> QED
    BY <2>1, UndisturbedIsCalm DEF Calm, Orderly, ListsOnce, CountsOf
<1> DEFINE Same == /\ stock'[p] = stock[p]
                   /\ \A o \in Orders : \A i \in DOMAIN Items[o] :
                         Items[o][i].product = p => (Claims(o, i)' <=> Claims(o, i))
<1>3. Same => Available(p)' = Available(p)
  BY <1>2, AvailableKept
<1>4. ASSUME NEW o \in Orders,
             \/ Arrive(o) \/ Deliver(o) \/ CheckItem(o) \/ ReadItem(o)
             \/ PublishStockNotReserved(o) \/ Acknowledge(o)
      PROVE  Same
  BY <1>1, <1>4 DEF Arrive, Deliver, CheckItem, ReadItem, PublishStockNotReserved, Answer,
     Acknowledge, Claims, TypeOK
<1>5. ASSUME NEW o \in Orders, SendStockReserved(o) PROVE Same
  <2>1. \A i \in DOMAIN Items[o] : i < next[o]
    BY <1>1, <1>5, LineFacts DEF SendStockReserved, LoopOver, TypeOK
  <2>2. \A i \in DOMAIN Items[o] : i \in Nat /\ next[o] \in Nat
    BY <1>1, LineFacts DEF TypeOK
  <2> QED
    BY <1>1, <1>5, <2>1, <2>2 DEF SendStockReserved, Answer, Claims, TypeOK
<1>6. ASSUME NEW o \in Orders, Decide(o), ~enough[o] PROVE Same
  BY <1>1, <1>6 DEF Decide, Claims, TypeOK
<1>7. ASSUME NEW o \in Orders, Takes(o)
      PROVE  Available(p)' = Available(p) - StockService!Wanted(o, p)
  <2>1. /\ step[o] = "check" /\ enough[o] /\ step'[o] = "reserve" /\ next'[o] = 1
        /\ stock' = stock
        /\ \A a \in Orders \ {o} : step'[a] = step[a] /\ next'[a] = next[a]
    BY <1>1, <1>7 DEF Takes, Decide, TypeOK
  <2>2. \A i \in DOMAIN Items[o] : Awaits(o, i) /\ Claims(o, i)' /\ ~Claims(o, i)
    BY <1>1, <1>7, <2>1, LineFacts DEF Takes, Decide, LoopOver, Awaits, Claims, TypeOK
  <2>3. \A a \in Orders \ {o} : \A i \in DOMAIN Items[a] : Claims(a, i)' <=> Claims(a, i)
    BY <2>1 DEF Claims
  <2>4. CASE \A i \in DOMAIN Items[o] : Items[o][i].product # p
    <3>1. Same
      BY <2>1, <2>3, <2>4
    <3>2. StockService!Wanted(o, p) = 0
      BY <1>2, <2>4, WantedIs
    <3>3. Available(p) \in Int
      BY AvailableIsInt, <1>2
    <3> QED
      BY <1>3, <3>1, <3>2, <3>3
  <2>5. ASSUME NEW i \in DOMAIN Items[o], Items[o][i].product = p
        PROVE  Available(p)' = Available(p) - StockService!Wanted(o, p)
    <3>2. Available(p) = stock[p]
      BY <1>2, <2>1, <2>2, <2>5, AvailableToTaker
    <3>3. Available(p)' = stock'[p] - Items[o][i].count
      BY <1>2, <2>2, <2>5, AvailableNext DEF AvailableFacts
    <3>4. StockService!Wanted(o, p) = Items[o][i].count
      BY <1>2, <2>5, WantedIs
    <3> QED
      BY <2>1, <3>2, <3>3, <3>4
  <2> QED
    BY <2>4, <2>5
<1>8. ASSUME NEW o \in Orders, ReplaceItem(o) PROVE Available(p)' = Available(p)
  <2> DEFINE k == next[o]
  <2>1. /\ step[o] = "replace" /\ k \in DOMAIN Items[o] /\ Item(o) = Items[o][k] /\ k \in Nat
        /\ step'[o] = "reserve" /\ next'[o] = k + 1
        /\ \A a \in Orders \ {o} : step'[a] = step[a] /\ next'[a] = next[a]
        /\ \A q \in Products \ {Item(o).product} : stock'[q] = stock[q]
    BY <1>1, <1>8, ItemFacts DEF ReplaceItem, TypeOK
  <2>2. ASSUME NEW a \in Orders, NEW i \in DOMAIN Items[a], ~(a = o /\ i = k)
        PROVE  Claims(a, i)' <=> Claims(a, i)
    BY <2>1, <2>2, LineFacts DEF Claims
  <2>3. Claims(o, k) /\ Awaits(o, k)
    BY <2>1 DEF Claims, Awaits
  <2>4. CASE Item(o).product # p
    <3>1. Same
      BY <1>2, <2>1, <2>2, <2>4
    <3> QED
      BY <1>3, <3>1
  <2>5. CASE Item(o).product = p
    <3>1. ASSUME NEW a \in Orders, NEW i \in DOMAIN Items[a], Items[a][i].product = p
          PROVE  ~Claims(a, i)'
      <4>1. CASE a = o /\ i = k
        BY <2>1, <4>1 DEF Claims
      <4>2. CASE ~(a = o /\ i = k)
        <5>1. SUFFICES ASSUME Claims(a, i) PROVE FALSE
          BY <2>2, <4>2
        <5>2. Awaits(a, i)
          BY <5>1 DEF Awaits, Claims
        <5> HIDE DEF k
        <5> QED
          BY <1>1, <1>2, <2>1, <2>3, <2>5, <3>1, <4>2, <5>2, OneTaker
      <4> QED
        BY <4>1, <4>2
    <3>2. Available(p)' = stock'[p]
      BY <1>2, <3>1, AvailableNext DEF AvailableFacts
    <3>3. Available(p) = stock[p] - Item(o).count
      BY <1>2, <2>1, <2>3, <2>5, AvailableNow DEF AvailableFacts
    <3>4. stock'[p] = stock[p] - Item(o).count
      BY <1>2, <1>8, <2>5, CalmTaking
    <3> QED
      BY <3>2, <3>3, <3>4
  <2> QED
    BY <2>4, <2>5
<1>9. ASSUME Crash, interrupted' = interrupted \union {o \in Orders : Decided(o)} PROVE Same
  <2>1. ASSUME NEW o \in Orders, NEW i \in DOMAIN Items[o], Items[o][i].product = p
        PROVE  ~Claims(o, i) /\ ~Claims(o, i)'
    <3>1. o \notin interrupted'
      BY <1>2, <2>1 DEF Disturbed
    <3>2. step[o] \notin {"reserve", "replace"}
      BY <1>9, <3>1 DEF Decided
    <3>3. step'[o] \notin {"reserve", "replace"}
      BY <1>9, <3>2 DEF Crash, Active
    <3> QED
      BY <3>2, <3>3 DEF Claims
  <2> QED
    BY <1>9, <2>1 DEF Crash
<1>10. ASSUME UNCHANGED vars PROVE Same
  BY <1>10 DEF vars, Claims
<1>11. (Crash /\ interrupted' = interrupted \union {o \in Orders : Decided(o)})
          \/ (\E o \in Orders : Step(o)) \/ UNCHANGED vars
  BY DEF OverlapsNext, Next
<1> HIDE DEF Same
<1>12. (\A o \in Orders : ~Takes(o)) => Available(p)' = Available(p)
  BY <1>3, <1>4, <1>5, <1>6, <1>8, <1>9, <1>10, <1>11 DEF Step, Consume, Takes
<1> QED
  BY <1>7, <1>12

\* An order no crash cut short is answered once its delivery has worked on it.
Unanswered ==
    \A o \in Orders \ interrupted :
        step[o] \notin {"sent", "done"} => answers[o] = {}

\* The line of the order that is not available, or about which nothing is known.
Misses(o, i) ==
    \/ Items[o][i].product \notin Products \ Disturbed
    \/ Available(Items[o][i].product) < Items[o][i].count

RefusalStands ==
    \A o \in Orders : step[o] = "check" /\ ~enough[o] => \E i \in DOMAIN Items[o] : Misses(o, i)

ServiceInv == CalmInv /\ Unanswered /\ RefusalStands

LEMMA ServiceInit == OverlapsInit => ServiceInv
  BY CalmInit DEF ServiceInv, Unanswered, RefusalStands, OverlapsInit, Init

LEMMA UnansweredStep ==
    TypeOK /\ Unanswered /\ [OverlapsNext]_<<vars, history>> => Unanswered'
<1> SUFFICES ASSUME TypeOK, Unanswered, [OverlapsNext]_<<vars, history>> PROVE Unanswered'
  OBVIOUS
<1>1. ASSUME NEW o \in Orders, Step(o), interrupted' = interrupted PROVE Unanswered'
  BY <1>1 DEF TypeOK, Unanswered, Step, Arrive, Deliver, Consume, CheckItem,
     Decide, ReadItem, ReplaceItem, SendStockReserved, PublishStockNotReserved,
     Answer, Acknowledge
<1>2. ASSUME Crash, interrupted' = interrupted \union {o \in Orders : Decided(o)}
      PROVE  Unanswered'
  BY <1>2 DEF Unanswered, Crash, Active, Decided
<1>3. ASSUME UNCHANGED <<vars, history>> PROVE Unanswered'
  BY <1>3 DEF vars, history, Unanswered
<1> QED
  BY <1>1, <1>2, <1>3 DEF OverlapsNext, Next

\* What is available of a product nothing has disturbed never rises.
LEMMA AvailableFalls ==
    ASSUME CalmInv, CalmInv', [OverlapsNext]_<<vars, history>>,
           NEW p \in Products \ Disturbed'
    PROVE  Available(p)' <= Available(p) /\ Available(p) \in Int /\ Available(p)' \in Int
<1>1. p \in Products \ Disturbed
  BY DisturbedGrows
<1>2. Calm(p) /\ Orderly(p) /\ Available(p) \in Int
  BY <1>1, UndisturbedIsCalm, AvailableIsInt DEF Calm
<1>3. CASE \A o \in Orders : ~Takes(o)
  BY <1>2, <1>3, AvailableMoves
<1>4. ASSUME NEW o \in Orders, Takes(o)
      PROVE  Available(p)' <= Available(p) /\ Available(p)' \in Int
  <2>1. StockService!Wanted(o, p) \in Int /\ StockService!Wanted(o, p) >= 0
    BY <1>2, LineFacts, OrderlyCounts, WantedIs
  <2>2. Available(p)' = Available(p) - StockService!Wanted(o, p)
    BY <1>4, AvailableMoves
  <2> QED
    BY <1>2, <2>1, <2>2
<1> QED
  BY <1>2, <1>3, <1>4

LEMMA ServiceStep == ServiceInv /\ [OverlapsNext]_<<vars, history>> => ServiceInv'
<1> SUFFICES ASSUME ServiceInv, [OverlapsNext]_<<vars, history>> PROVE ServiceInv'
  OBVIOUS
<1>1. CalmInv /\ CalmInv' /\ TypeOK /\ Unanswered' /\ RefusalStands
  BY CalmStep, UnansweredStep DEF ServiceInv, CalmInv, TypeInv
<1>2. ASSUME NEW o \in Orders, NEW i \in DOMAIN Items[o], Misses(o, i) PROVE Misses(o, i)'
  <2> DEFINE p == Items[o][i].product
  <2>1. CASE p \notin Products \ Disturbed'
    BY <2>1 DEF Misses
  <2>2. CASE p \in Products \ Disturbed'
    <3>1. Available(p) < Items[o][i].count
      BY <1>2, <2>2, DisturbedGrows DEF Misses
    <3>2. Available(p)' <= Available(p) /\ Available(p) \in Int /\ Available(p)' \in Int
      BY <1>1, <2>2, AvailableFalls
    <3>3. Available(p)' < Items[o][i].count
      BY <3>1, <3>2, LineFacts
    <3> QED
      BY <3>3 DEF Misses
  <2> QED
    BY <2>1, <2>2
<1>3. ASSUME NEW o \in Orders, step[o] = "check", ~enough[o]
      PROVE  \E i \in DOMAIN Items[o] : Misses(o, i)'
  BY <1>1, <1>2, <1>3 DEF RefusalStands
<1>4. ASSUME NEW o \in Orders, CheckItem(o) PROVE RefusalStands'
  <2>1. /\ step[o] = "check" /\ step' = step /\ stock' = stock
        /\ enough'[o] = (enough[o] /\ InStock(Item(o)))
        /\ \A a \in Orders \ {o} : enough'[a] = enough[a]
    BY <1>1, <1>4 DEF CheckItem, TypeOK
  <2>2. PICK k \in DOMAIN Items[o] : Item(o) = Items[o][k]
    BY <1>1, <1>4, ItemFacts DEF CheckItem
  <2>3. ASSUME ~InStock(Item(o)) PROVE Misses(o, k)
    <3> DEFINE p == Items[o][k].product
    <3>1. CASE p \notin Products \ Disturbed
      BY <3>1 DEF Misses
    <3>2. CASE p \in Products \ Disturbed
      <4>1. ~(stock[p] >= Items[o][k].count)
        BY <2>2, <2>3, <3>2 DEF InStock
      <4>2. Available(p) \in Int /\ stock[p] \in Int /\ Available(p) <= stock[p]
        BY <1>1, <3>2, UndisturbedIsCalm, AvailableIsInt
      <4>3. Available(p) < Items[o][k].count
        BY <4>1, <4>2, LineFacts
      <4> QED
        BY <4>3 DEF Misses
    <3> QED
      BY <3>1, <3>2
  <2>4. ASSUME ~enough'[o] PROVE \E i \in DOMAIN Items[o] : Misses(o, i)'
    <3>1. ~enough[o] \/ ~InStock(Item(o))
      BY <2>1, <2>4, Zenon
    <3>2. CASE ~enough[o]
      BY <1>3, <2>1, <3>2
    <3>3. CASE ~InStock(Item(o))
      BY <1>2, <2>2, <2>3, <3>3
    <3> QED
      BY <3>1, <3>2, <3>3
  <2>5. ASSUME NEW a \in Orders, step'[a] = "check", ~enough'[a]
        PROVE  \E i \in DOMAIN Items[a] : Misses(a, i)'
    BY <1>3, <2>1, <2>4, <2>5
  <2> QED
    BY <2>5 DEF RefusalStands
<1>5. ASSUME NEW o \in Orders,
             \/ Arrive(o) \/ Deliver(o) \/ Decide(o) \/ ReadItem(o) \/ ReplaceItem(o)
             \/ SendStockReserved(o) \/ PublishStockNotReserved(o) \/ Acknowledge(o)
      PROVE  RefusalStands'
  <2>1. \A a \in Orders : step'[a] = "check" /\ ~enough'[a] => step[a] = "check" /\ ~enough[a]
    BY <1>1, <1>5 DEF Arrive, Deliver, Decide, ReadItem, ReplaceItem, SendStockReserved,
       PublishStockNotReserved, Answer, Acknowledge, TypeOK
  <2> QED
    BY <1>3, <2>1 DEF RefusalStands
<1>6. ASSUME Crash PROVE RefusalStands'
  BY <1>6 DEF Crash, Active, RefusalStands
<1>7. ASSUME UNCHANGED vars PROVE RefusalStands'
  BY <1>3, <1>7 DEF vars, RefusalStands
<1>8. RefusalStands'
  <2>1. (\E o \in Orders : Step(o)) \/ Crash \/ UNCHANGED vars
    BY DEF OverlapsNext, Next
  <2> QED
    BY <1>4, <1>5, <1>6, <1>7, <2>1 DEF Step, Consume
<1> QED
  BY <1>1, <1>8 DEF ServiceInv

\* The refinement mapping.
AbstractAvailable == [p \in Products |-> Available(p)]

AbstractOutcome == [o \in Orders |-> Outcome(o)]

LEMMA InventoryInit == OverlapsInit => StockService!Init
<1> SUFFICES ASSUME OverlapsInit PROVE StockService!Init
  OBVIOUS
<1>1. ASSUME NEW p \in Products PROVE Available(p) = InitialStock[p]
  <2> DEFINE f == [o \in Orders |-> Outstanding(o, p)]
  <2>1. \A o \in Orders : step[o] = "none" /\ stock = InitialStock
    BY DEF OverlapsInit, Init
  <2>2. ASSUME NEW o \in Orders PROVE f[o] = 0
    <3>1. {i \in DOMAIN Items[o] : /\ step[o] \in {"reserve", "replace"}
                                   /\ i >= next[o]
                                   /\ Items[o][i].product = p} = {}
      BY <2>1
    <3> QED
      BY <3>1, SumEmpty DEF Outstanding
  <2>3. Available(p) = stock[p] - SumFunctionOnSet(f, Orders)
    BY DEF Available, SumFunction
  <2>4. InitialStock[p] \in Int
    BY StockAssumption, IntsAreInt
  <2> HIDE DEF f
  <2>5. SumFunctionOnSet(f, Orders) = 0
    BY <2>2, OrdersAssumption, SumZero
  <2> QED
    BY <2>1, <2>3, <2>4, <2>5 DEF OverlapsInit, Init
<1>2. AbstractAvailable = InitialStock
  BY <1>1, StockAssumption DEF AbstractAvailable
<1>3. AbstractOutcome = [o \in Orders |-> "pending"]
  BY DEF OverlapsInit, Init, AbstractOutcome, Outcome
<1>4. Disturbed \subseteq Products /\ interrupted = {}
  BY DEF Disturbed, OverlapsInit
<1> QED
  BY <1>2, <1>3, <1>4 DEF StockService!Init, AbstractAvailable, AbstractOutcome

LEMMA InventoryStep ==
    ServiceInv /\ [OverlapsNext]_<<vars, history>> => [StockService!Next]_(StockService!vars)
<1> SUFFICES ASSUME ServiceInv, [OverlapsNext]_<<vars, history>> PROVE StockService!Next
  OBVIOUS
<1>1. CalmInv /\ CalmInv' /\ TypeOK /\ DocumentsExist /\ Unanswered /\ RefusalStands
  BY ServiceStep DEF ServiceInv, CalmInv, TypeInv
<1>2. interrupted \subseteq interrupted' /\ Disturbed \subseteq Disturbed'
  BY DisturbedGrows
<1> DEFINE Quietly == /\ \A p \in Products \ Disturbed' : Available(p)' = Available(p)
                      /\ \A a \in Orders \ interrupted' : Outcome(a)' = Outcome(a)
<1>3. Quietly => StockService!Next
  BY <1>2 DEF StockService!Next, StockService!Disturb, StockService!Becomes,
     StockService!Decides
<1>4. ASSUME \A o \in Orders : ~Decide(o) PROVE Quietly
  <2>1. \A p \in Products \ Disturbed' : Available(p)' = Available(p)
    BY <1>1, <1>4, AvailableMoves DEF Takes
  <2>2. ASSUME NEW o \in Orders, Step(o), ~Decide(o)
        PROVE  \A a \in Orders : Outcome(a)' = Outcome(a)
    BY <1>1, <2>2 DEF Step, Arrive, Deliver, Consume, CheckItem, ReadItem, ReplaceItem,
       SendStockReserved, PublishStockNotReserved, Answer, Acknowledge, TypeOK, Outcome
  <2>3. ASSUME Crash, interrupted' = interrupted \union {o \in Orders : Decided(o)},
               NEW a \in Orders \ interrupted'
        PROVE  Outcome(a)' = Outcome(a)
    BY <2>3 DEF Crash, Active, Decided, Outcome
  <2>4. ASSUME UNCHANGED vars PROVE \A a \in Orders : Outcome(a)' = Outcome(a)
    BY <2>4 DEF vars, Outcome
  <2>5. \A a \in Orders \ interrupted' : Outcome(a)' = Outcome(a)
    <3>1. \/ Crash /\ interrupted' = interrupted \union {o \in Orders : Decided(o)}
          \/ \E o \in Orders : Step(o)
          \/ UNCHANGED vars
      BY DEF OverlapsNext, Next
    <3> QED
      BY <1>4, <2>2, <2>3, <2>4, <3>1
  <2> QED
    BY <2>1, <2>5
<1>5. ASSUME NEW o \in Orders, Decide(o) PROVE StockService!Next
  <2>1. /\ step[o] = "check" /\ answers' = answers
        /\ step'[o] = IF enough[o] THEN "reserve" ELSE "refuse"
        /\ \A a \in Orders \ {o} : step'[a] = step[a]
        /\ \A i \in DOMAIN Items[o] : i < next[o]
    BY <1>1, <1>5, LineFacts DEF Decide, LoopOver, TypeOK
  <2>2. \A a \in Orders \ {o} : Outcome(a)' = Outcome(a) /\ ~Takes(a)
    <3>1. \A a \in Orders \ {o} : ~Takes(a)
      BY <1>1, <2>1 DEF Takes, Decide, TypeOK
    <3> QED
      BY <2>1, <3>1 DEF Outcome
  <2>3. CASE o \in interrupted
    <3>1. ASSUME NEW p \in Products \ Disturbed' PROVE Available(p)' = Available(p)
      <4>1. p \in Products \ Disturbed
        BY <1>2
      <4>2. Orderly(p) /\ StockService!Wanted(o, p) = 0 /\ Available(p) \in Int
        BY <1>1, <2>3, <4>1, UndisturbedIsCalm, WantedIs, AvailableIsInt DEF Calm
      <4>3. CASE Takes(o)
        BY <1>1, <4>2, <4>3, AvailableMoves
      <4>4. CASE ~Takes(o)
        BY <1>1, <2>2, <4>4, AvailableMoves
      <4> QED
        BY <4>3, <4>4
    <3> QED
      BY <1>2, <1>3, <2>2, <2>3, <3>1
  <2>4. CASE o \notin interrupted /\ enough[o]
    <3>1. Takes(o) /\ step'[o] = "reserve" /\ Outcome(o)' = "reserved"
      BY <1>5, <2>1, <2>4 DEF Takes, Outcome
    <3>2. AbstractOutcome[o] = "pending"
      BY <1>1, <2>1, <2>4 DEF AbstractOutcome, Outcome, Unanswered
    <3>3. ASSUME NEW i \in DOMAIN Items[o]
          PROVE  /\ Items[o][i].product \in Products
                 /\ Items[o][i].product \notin Disturbed =>
                       AbstractAvailable[Items[o][i].product] >= Items[o][i].count
      <4>1. Items[o][i].product \in Products /\ Awaits(o, i)
        BY <1>1, <2>1, <2>4 DEF DocumentsExist, Awaits
      <4>2. ASSUME Items[o][i].product \notin Disturbed
            PROVE  Available(Items[o][i].product) >= Items[o][i].count
        <5>1. Calm(Items[o][i].product)
          BY <4>1, <4>2, UndisturbedIsCalm
        <5>2. Available(Items[o][i].product) = stock[Items[o][i].product]
          BY <1>1, <2>1, <4>1, <5>1, AvailableToTaker
        <5> QED
          BY <1>1, <4>1, <5>1, <5>2 DEF CalmInv, FoundIsThere
      <4> QED
        BY <4>1, <4>2 DEF AbstractAvailable
    <3>4. \A p \in Products : p \notin Disturbed' =>
             AbstractAvailable'[p] = AbstractAvailable[p] - StockService!Wanted(o, p)
      BY <1>1, <3>1, AvailableMoves DEF AbstractAvailable
    <3>5. \A a \in Orders : a \notin interrupted' =>
             AbstractOutcome'[a] = IF a = o THEN "reserved" ELSE AbstractOutcome[a]
      BY <2>2, <3>1 DEF AbstractOutcome
    <3>6. StockService!Reserve(o)
      BY <3>2, <3>3, <3>4, <3>5
      DEF StockService!Reserve, StockService!Lines, StockService!Enough,
          StockService!Becomes, StockService!Decides, AbstractAvailable, AbstractOutcome
    <3> QED
      BY <1>2, <2>4, <3>6 DEF StockService!Next
  <2>5. CASE o \notin interrupted /\ ~enough[o]
    <3>1. ~Takes(o) /\ step'[o] = "refuse" /\ answers[o] = {}
      BY <1>1, <2>1, <2>5 DEF Takes, Unanswered
    <3>2. AbstractOutcome[o] = "pending" /\ Outcome(o)' = "refused"
      BY <2>1, <3>1 DEF AbstractOutcome, Outcome
    <3>3. PICK i \in DOMAIN Items[o] : Misses(o, i)
      BY <1>1, <2>1, <2>5 DEF RefusalStands
    <3>4. \/ Items[o][i].product \notin Products \ Disturbed
          \/ ~(AbstractAvailable[Items[o][i].product] >= Items[o][i].count)
      <4> SUFFICES ASSUME Items[o][i].product \in Products \ Disturbed
                   PROVE  ~(Available(Items[o][i].product) >= Items[o][i].count)
        BY DEF AbstractAvailable
      <4>1. Available(Items[o][i].product) < Items[o][i].count
        BY <3>3 DEF Misses
      <4>2. Available(Items[o][i].product) \in Int
        BY <1>1, UndisturbedIsCalm, AvailableIsInt
      <4> QED
        BY <4>1, <4>2, LineFacts
    <3>5. \A p \in Products : p \notin Disturbed' => AbstractAvailable'[p] = AbstractAvailable[p]
      BY <1>1, <2>2, <3>1, AvailableMoves DEF AbstractAvailable
    <3>6. \A a \in Orders : a \notin interrupted' =>
             AbstractOutcome'[a] = IF a = o THEN "refused" ELSE AbstractOutcome[a]
      BY <2>2, <3>2 DEF AbstractOutcome
    <3>7. StockService!Refuse(o)
      BY <3>2, <3>4, <3>5, <3>6
      DEF StockService!Refuse, StockService!Lines, StockService!Enough,
          StockService!Becomes, StockService!Decides, AbstractAvailable, AbstractOutcome
    <3> QED
      BY <1>2, <2>5, <3>7 DEF StockService!Next
  <2> QED
    BY <2>3, <2>4, <2>5
<1> QED
  BY <1>3, <1>4, <1>5

\* For any orders, counts, limit and seed data, crashes and redelivered messages
\* included: the two loops of the consumer are one step of the abstract service, on
\* every product that no two deliveries were about to take at once, that every order
\* lists once, in a number that is not negative, and of which no delivery that a
\* crash cut short after its check was to take anything.
THEOREM StockImplementsInventory == OverlapsSpec => ImplementsInventory
<1>1. OverlapsInit => ServiceInv /\ StockService!Init
  BY ServiceInit, InventoryInit
<1>2. ServiceInv /\ [OverlapsNext]_<<vars, history>>
         => ServiceInv' /\ [StockService!Next]_(StockService!vars)
  BY ServiceStep, InventoryStep
<1> QED
  BY <1>1, <1>2, PTL DEF OverlapsSpec, ImplementsInventory, StockService!Spec

=============================================================================
