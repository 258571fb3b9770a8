--------------------------- MODULE PayablesProofs ---------------------------
(***************************************************************************)
(* Proofs about Payables, for any orders, invoices, receipts, runs, users  *)
(* and budgets.                                                            *)
(***************************************************************************)
EXTENDS Payables, FiniteSetTheorems, WellFoundedInduction, TLAPS

\* A run number that was not minted yet has no lines.
NoLineBeforeRun ==
  \A r \in Run, i \in Invoice : runStatus[r] = "none" => line[r][i] = "none"

\* The inductive invariant.  SingleLiveClaim and PaidByOneLine are not inductive
\* alone: that a settlement meets an unpaid invoice follows from ClaimBacked, which
\* in turn needs that no two runs hold a claim on one invoice.
PaymentInv ==
  /\ SingleLiveClaim
  /\ PaidByOneLine
  /\ ClaimBacked
  /\ NoPaymentOfCancelledOrder
  /\ NoLineBeforeRun

IInv == TypeOK /\ PaymentInv
-----------------------------------------------------------------------------
(* Sums over finite sets. *)

\* A nonempty set of natural numbers has a least element.
LEMMA LeastNumber ==
  ASSUME NEW S, S \subseteq Nat, S # {}
  PROVE  \E x \in S : \A y \in S : x <= y
  <1>1. PICK x \in S : \A y \in S : ~ (<<y, x>> \in OpToRel(<, Nat))
    BY NatLessThanWellFounded, WFMin
  <1>2. \A y \in S : ~ (y < x)
    BY <1>1 DEF OpToRel
  <1> QED
    BY <1>2

\* Among sets of elements there is a smallest one.
LEMMA LeastSet ==
  ASSUME NEW S, IsFiniteSet(S), NEW B, B \subseteq SUBSET S, B # {}
  PROVE  \E T \in B : \A x \in T : T \ {x} \notin B
  <1> DEFINE Sizes == {Cardinality(T) : T \in B}
  <1>1. \A T \in B : IsFiniteSet(T) /\ Cardinality(T) \in Nat
    BY FS_Subset, FS_CardinalityType
  <1>2. Sizes \subseteq Nat /\ Sizes # {}
    BY <1>1
  <1>3. PICK n \in Sizes : \A m \in Sizes : n <= m
    BY <1>2, LeastNumber
  <1>4. PICK T \in B : Cardinality(T) = n
    BY <1>3
  <1>5. ASSUME NEW x \in T, T \ {x} \in B
        PROVE  FALSE
    <2>1. Cardinality(T \ {x}) = Cardinality(T) - 1
      BY <1>1, <1>5, FS_RemoveElement
    <2>2. n <= Cardinality(T \ {x})
      BY <1>3, <1>5
    <2> QED
      BY <1>1, <1>4, <2>1, <2>2
  <1> QED
    BY <1>5

\* Induction over a finite set, in terms of the set of subsets for which a fact holds.
LEMMA FiniteInduction ==
  ASSUME NEW S, IsFiniteSet(S), NEW Good, {} \in Good,
         \A T \in SUBSET S : \A x \in S \ T : T \in Good => T \cup {x} \in Good
  PROVE  S \in Good
  <1> SUFFICES ASSUME S \notin Good
               PROVE  FALSE
    OBVIOUS
  <1> DEFINE Bad == (SUBSET S) \ Good
  <1>1. PICK T \in Bad : \A x \in T : T \ {x} \notin Bad
    <2>1. Bad \subseteq SUBSET S /\ Bad # {}
      OBVIOUS
    <2> HIDE DEF Bad
    <2> QED
      BY <2>1, LeastSet
  <1>2. PICK x : x \in T
    <2>1. T # {}
      BY <1>1
    <2> QED
      BY <2>1
  <1>3. T \ {x} \in Good /\ T \ {x} \in SUBSET S
    BY <1>1, <1>2
  <1>4. (T \ {x}) \cup {x} \in Good
    BY <1>1, <1>2, <1>3
  <1>5. (T \ {x}) \cup {x} = T
    BY <1>2
  <1> QED
    BY <1>1, <1>4, <1>5

Some(s) == CHOOSE x \in s : TRUE

Body(f, S, g) == [s \in SUBSET S |-> IF s = {} THEN 0 ELSE f[Some(s)] + g[s \ {Some(s)}]]

LEMMA SomeIsIn == ASSUME NEW s, s # {} PROVE Some(s) \in s
  BY DEF Some

\* The recursion of a sum has a solution, up to any size and therefore for the whole set.
LEMMA SumExists ==
  ASSUME NEW S, IsFiniteSet(S), NEW f
  PROVE  \E g : g = Body(f, S, g)
  <1> DEFINE Upto(n, g) == [s \in SUBSET S |-> IF s = {} \/ Cardinality(s) > n THEN 0
                                               ELSE f[Some(s)] + g[s \ {Some(s)}]]
             Bad == {n \in Nat : ~ \E g : g = Upto(n, g)}
  <1>1. \A s \in SUBSET S : /\ IsFiniteSet(s) /\ Cardinality(s) \in Nat
                            /\ Cardinality(s) <= Cardinality(S)
                            /\ Cardinality(s) = 0 => s = {}
    BY FS_Subset, FS_CardinalityType, FS_EmptySet
  <1>2. 0 \notin Bad
    <2> DEFINE g == [s \in SUBSET S |-> 0]
    <2>1. \A s \in SUBSET S : s = {} \/ Cardinality(s) > 0
      BY <1>1
    <2>2. g = Upto(0, g)
      BY <2>1
    <2> QED
      BY <2>2
  <1>3. ASSUME NEW n \in Nat, n \notin Bad
        PROVE  n + 1 \notin Bad
    <2>1. PICK g : g = Upto(n, g)
      BY <1>3
    <2> DEFINE h == Upto(n + 1, g)
    <2>2. ASSUME NEW s \in SUBSET S, s # {}, ~ (Cardinality(s) > n + 1)
          PROVE  g[s \ {Some(s)}] = h[s \ {Some(s)}]
      <3> DEFINE t == s \ {Some(s)}
      <3>1. t \in SUBSET S /\ Cardinality(t) = Cardinality(s) - 1
        BY <1>1, <2>2, SomeIsIn, FS_RemoveElement
      <3>2. ~ (Cardinality(t) > n) /\ ~ (Cardinality(t) > n + 1)
        BY <1>1, <2>2, <3>1
      <3> HIDE DEF t
      <3>3. g[t] = IF t = {} THEN 0 ELSE f[Some(t)] + g[t \ {Some(t)}]
        BY <2>1, <3>1, <3>2
      <3>4. h[t] = IF t = {} THEN 0 ELSE f[Some(t)] + g[t \ {Some(t)}]
        BY <3>1, <3>2
      <3>5. g[t] = h[t]
        BY <3>3, <3>4
      <3> QED
        BY <3>5 DEF t
    <2>3. h = Upto(n + 1, h)
      BY <2>2
    <2> QED
      BY <2>3
  <1>4. Bad = {}
    <2> SUFFICES ASSUME Bad # {}
                 PROVE  FALSE
      OBVIOUS
    <2>1. PICK n \in Bad : \A m \in Bad : n <= m
      <3>1. Bad \subseteq Nat
        OBVIOUS
      <3> HIDE DEF Bad
      <3> QED
        BY <3>1, LeastNumber
    <2>2. n \in Nat
      OBVIOUS
    <2> HIDE DEF Bad
    <2>3. n # 0 /\ n - 1 \in Nat /\ n - 1 \notin Bad
      BY <1>2, <2>1, <2>2
    <2>4. (n - 1) + 1 \notin Bad
      BY <1>3, <2>3
    <2> QED
      BY <2>2, <2>4
  <1>5. PICK g : g = Upto(Cardinality(S), g)
    <2>1. Cardinality(S) \in Nat
      BY FS_CardinalityType
    <2> QED
      BY <1>4, <2>1
  <1>6. \A s \in SUBSET S : ~ (Cardinality(s) > Cardinality(S))
    BY <1>1
  <1>7. g = Body(f, S, g)
    BY <1>5, <1>6 DEF Body
  <1> QED
    BY <1>7

\* The sums of the subsets of a set are those of the set's recursion.
LEMMA SumFacts ==
  ASSUME NEW S, IsFiniteSet(S), NEW f
  PROVE  \E g : /\ g = Body(f, S, g)
                /\ SumFunctionOnSet(f, S) = g[S]
  <1> DEFINE h == CHOOSE g : g = Body(f, S, g)
  <1>1. h = Body(f, S, h)
    BY SumExists
  <1>2. SumFunctionOnSet(f, S) = h[S]
    BY DEF SumFunctionOnSet, FoldFunctionOnSet, MapThenFoldSet, Body, Some
  <1> QED
    BY <1>1, <1>2

\* A solution for a set gives its subsets the values that their own solutions give them.
LEMMA SumUnique ==
  ASSUME NEW S, IsFiniteSet(S), NEW f, NEW g, g = Body(f, S, g),
         NEW T \in SUBSET S, NEW h, h = Body(f, T, h)
  PROVE  h[T] = g[T]
  <1> DEFINE Bad == {s \in SUBSET T : h[s] # g[s]}
  <1> SUFFICES ASSUME Bad # {}
               PROVE  FALSE
    OBVIOUS
  <1>1. PICK s \in Bad : \A x \in s : s \ {x} \notin Bad
    <2>1. Bad \subseteq SUBSET T /\ IsFiniteSet(T)
      BY FS_Subset
    <2> HIDE DEF Bad
    <2> QED
      BY <2>1, LeastSet
  <1>2. s \in SUBSET T /\ s \in SUBSET S /\ s \ {Some(s)} \in SUBSET T
    OBVIOUS
  <1>3. /\ h[s] = IF s = {} THEN 0 ELSE f[Some(s)] + h[s \ {Some(s)}]
        /\ g[s] = IF s = {} THEN 0 ELSE f[Some(s)] + g[s \ {Some(s)}]
    BY <1>2 DEF Body
  <1>4. s # {} => h[s \ {Some(s)}] = g[s \ {Some(s)}]
    BY <1>1, <1>2, SomeIsIn
  <1> QED
    BY <1>3, <1>4

Sum(f, S) == SumFunctionOnSet(f, S)

\* Any solution of the recursion gives the sum.
LEMMA SumIs ==
  ASSUME NEW S, IsFiniteSet(S), NEW f, NEW g, g = Body(f, S, g)
  PROVE  Sum(f, S) = g[S]
  <1>1. PICK h : h = Body(f, S, h) /\ Sum(f, S) = h[S]
    BY SumFacts DEF Sum
  <1>2. S \in SUBSET S
    OBVIOUS
  <1>3. h[S] = g[S]
    BY <1>1, <1>2, SumUnique
  <1> QED
    BY <1>1, <1>3

\* A sum is that of the element its recursion takes first and of the rest.
LEMMA SumUnfold ==
  ASSUME NEW S, IsFiniteSet(S), NEW f
  PROVE  /\ S = {} => Sum(f, S) = 0
         /\ S # {} => Sum(f, S) = f[Some(S)] + Sum(f, S \ {Some(S)})
  <1>1. PICK g : g = Body(f, S, g) /\ Sum(f, S) = g[S]
    BY SumFacts DEF Sum
  <1>2. g[S] = IF S = {} THEN 0 ELSE f[Some(S)] + g[S \ {Some(S)}]
    BY <1>1 DEF Body
  <1> DEFINE T == S \ {Some(S)}
  <1>3. T \in SUBSET S /\ IsFiniteSet(T)
    BY FS_Subset
  <1> HIDE DEF T
  <1>4. PICK h : h = Body(f, T, h) /\ Sum(f, T) = h[T]
    BY <1>3, SumFacts DEF Sum
  <1>5. h[T] = g[T]
    BY <1>1, <1>3, <1>4, SumUnique
  <1> QED
    BY <1>1, <1>2, <1>4, <1>5 DEF T

LEMMA SumNat ==
  ASSUME NEW S, IsFiniteSet(S), NEW f, \A x \in S : f[x] \in Nat
  PROVE  Sum(f, S) \in Nat
  <1> DEFINE Bad == {T \in SUBSET S : Sum(f, T) \notin Nat}
  <1> SUFFICES ASSUME Bad # {}
               PROVE  FALSE
    OBVIOUS
  <1>1. PICK T \in Bad : \A x \in T : T \ {x} \notin Bad
    <2>1. Bad \subseteq SUBSET S
      OBVIOUS
    <2> HIDE DEF Bad
    <2> QED
      BY <2>1, LeastSet
  <1>2. T \subseteq S /\ Sum(f, T) \notin Nat /\ IsFiniteSet(T)
    BY FS_Subset
  <1>3. CASE T = {}
    <2>1. Sum(f, T) = 0
      BY <1>2, <1>3, SumUnfold, Zenon
    <2> QED
      BY <1>2, <2>1
  <1>4. CASE T # {}
    <2>1. Some(T) \in T
      BY <1>4, SomeIsIn
    <2>2. Sum(f, T \ {Some(T)}) \in Nat /\ f[Some(T)] \in Nat
      BY <1>1, <1>2, <2>1
    <2>3. Sum(f, T) = f[Some(T)] + Sum(f, T \ {Some(T)})
      BY <1>2, <1>4, SumUnfold
    <2> QED
      BY <1>2, <2>2, <2>3
  <1> QED
    BY <1>3, <1>4

\* A sum is that of any of its elements and of the rest.
LEMMA SumRemove ==
  ASSUME NEW S, IsFiniteSet(S), NEW f, \A x \in S : f[x] \in Nat, NEW e \in S
  PROVE  Sum(f, S) = f[e] + Sum(f, S \ {e})
  <1> DEFINE Bad == {T \in SUBSET S : \E x \in T : Sum(f, T) # f[x] + Sum(f, T \ {x})}
  <1> SUFFICES ASSUME Bad # {}
               PROVE  FALSE
    OBVIOUS
  <1>1. PICK T \in Bad : \A x \in T : T \ {x} \notin Bad
    <2>1. Bad \subseteq SUBSET S
      OBVIOUS
    <2> HIDE DEF Bad
    <2> QED
      BY <2>1, LeastSet
  <1>2. PICK x \in T : Sum(f, T) # f[x] + Sum(f, T \ {x})
    BY <1>1
  <1>3. T \subseteq S /\ IsFiniteSet(T) /\ T # {}
    BY <1>2, FS_Subset
  <1> DEFINE y == Some(T)
  <1>4. y \in T
    BY <1>3, SomeIsIn
  <1>5. Sum(f, T) = f[y] + Sum(f, T \ {y})
    BY <1>3, SumUnfold
  <1> HIDE DEF y
  <1>6. x # y
    BY <1>2, <1>5
  <1>7. T \ {x} \in SUBSET S /\ T \ {y} \in SUBSET S /\ y \in T \ {x} /\ x \in T \ {y}
    BY <1>3, <1>4, <1>6
  <1>8. /\ Sum(f, T \ {x}) = f[y] + Sum(f, (T \ {x}) \ {y})
        /\ Sum(f, T \ {y}) = f[x] + Sum(f, (T \ {y}) \ {x})
    BY <1>1, <1>2, <1>4, <1>7
  <1>9. (T \ {x}) \ {y} = (T \ {y}) \ {x}
    OBVIOUS
  <1>10. Sum(f, (T \ {x}) \ {y}) \in Nat /\ f[x] \in Nat /\ f[y] \in Nat
    <2>1. IsFiniteSet((T \ {x}) \ {y}) /\ \A z \in (T \ {x}) \ {y} : f[z] \in Nat
      BY <1>3, FS_Subset
    <2> QED
      BY <1>2, <1>3, <1>4, <2>1, SumNat
  <1>11. Sum(f, T \ {y}) = f[x] + Sum(f, (T \ {x}) \ {y})
    BY <1>8, <1>9, Zenon
  <1> QED
    BY <1>2, <1>5, <1>8, <1>10, <1>11

LEMMA SumAdd ==
  ASSUME NEW S, IsFiniteSet(S), NEW f, \A x \in S : f[x] \in Nat, NEW e, e \notin S, f[e] \in Nat
  PROVE  Sum(f, S \cup {e}) = f[e] + Sum(f, S)
  <1>1. IsFiniteSet(S \cup {e}) /\ \A x \in S \cup {e} : f[x] \in Nat
    BY FS_AddElement
  <1>2. (S \cup {e}) \ {e} = S
    OBVIOUS
  <1>3. e \in S \cup {e}
    OBVIOUS
  <1>4. Sum(f, S \cup {e}) = f[e] + Sum(f, (S \cup {e}) \ {e})
    BY <1>1, <1>3, SumRemove
  <1> QED
    BY <1>2, <1>4

\* A sum of natural numbers is at least that of a part of it.
LEMMA SumMonotone ==
  ASSUME NEW S, IsFiniteSet(S), NEW f, \A x \in S : f[x] \in Nat, NEW T \in SUBSET S
  PROVE  Sum(f, T) <= Sum(f, S)
  <1> DEFINE Good == {U \in SUBSET (S \ T) : Sum(f, T) <= Sum(f, T \cup U)}
  <1>1. IsFiniteSet(S \ T) /\ \A U \in SUBSET (S \ T) : IsFiniteSet(T \cup U) /\ Sum(f, T \cup U) \in Nat
    <2>1. \A U \in SUBSET (S \ T) : T \cup U \in SUBSET S
      OBVIOUS
    <2>2. \A V \in SUBSET S : IsFiniteSet(V) /\ \A x \in V : f[x] \in Nat
      BY FS_Subset
    <2>3. \A V \in SUBSET S : Sum(f, V) \in Nat
      BY <2>2, SumNat
    <2> QED
      BY <2>1, <2>2, <2>3
  <1>2. {} \in Good
    <2>1. T \cup {} = T
      OBVIOUS
    <2>2. Sum(f, T) \in Nat
      BY <1>1, <2>1
    <2> QED
      BY <2>1, <2>2
  <1>3. ASSUME NEW U \in SUBSET (S \ T), NEW x \in (S \ T) \ U, U \in Good
        PROVE  U \cup {x} \in Good
    <2>1. x \notin T \cup U /\ f[x] \in Nat /\ \A y \in T \cup U : f[y] \in Nat
      BY <1>3
    <2>2. Sum(f, (T \cup U) \cup {x}) = f[x] + Sum(f, T \cup U)
      BY <1>1, <2>1, SumAdd
    <2>3. (T \cup U) \cup {x} = T \cup (U \cup {x})
      OBVIOUS
    <2>4. Sum(f, T) <= Sum(f, T \cup U) /\ Sum(f, T \cup U) \in Nat /\ Sum(f, T) \in Nat
      <3>1. T \cup {} = T /\ {} \in SUBSET (S \ T)
        OBVIOUS
      <3> QED
        BY <1>1, <1>3, <3>1
    <2>5. Sum(f, T) <= Sum(f, T \cup (U \cup {x}))
      <3>1. Sum(f, T \cup (U \cup {x})) = f[x] + Sum(f, T \cup U)
        BY <2>2, <2>3, Zenon
      <3> QED
        BY <2>1, <2>4, <3>1
    <2> QED
      BY <1>3, <2>5
  <1>4. S \ T \in Good
    <2> HIDE DEF Good
    <2> QED
      BY <1>1, <1>2, <1>3, FiniteInduction
  <1>5. T \cup (S \ T) = S
    OBVIOUS
  <1> QED
    BY <1>4, <1>5

\* The sum of sums of two numbers is the sum of their sums.
LEMMA SumOfSums ==
  ASSUME NEW S, IsFiniteSet(S), NEW f, NEW g, NEW h,
         \A x \in S : g[x] \in Nat /\ h[x] \in Nat /\ f[x] = g[x] + h[x]
  PROVE  Sum(f, S) = Sum(g, S) + Sum(h, S)
  <1> DEFINE Good == {T \in SUBSET S : Sum(f, T) = Sum(g, T) + Sum(h, T)}
  <1>1. \A T \in SUBSET S : IsFiniteSet(T) /\ \A x \in T : f[x] \in Nat /\ g[x] \in Nat /\ h[x] \in Nat
    BY FS_Subset
  <1>2. \A T \in SUBSET S : Sum(f, T) \in Nat /\ Sum(g, T) \in Nat /\ Sum(h, T) \in Nat
    BY <1>1, SumNat
  <1>3. {} \in Good
    <2>1. Sum(f, {}) = 0 /\ Sum(g, {}) = 0 /\ Sum(h, {}) = 0
      BY <1>1, SumUnfold
    <2> QED
      BY <2>1
  <1>4. ASSUME NEW T \in SUBSET S, NEW x \in S \ T, T \in Good
        PROVE  T \cup {x} \in Good
    <2>1. f[x] \in Nat /\ g[x] \in Nat /\ h[x] \in Nat /\ f[x] = g[x] + h[x]
      OBVIOUS
    <2>2. /\ Sum(f, T \cup {x}) = f[x] + Sum(f, T)
          /\ Sum(g, T \cup {x}) = g[x] + Sum(g, T)
          /\ Sum(h, T \cup {x}) = h[x] + Sum(h, T)
      BY <1>1, <2>1, SumAdd
    <2>3. Sum(f, T \cup {x}) = Sum(g, T \cup {x}) + Sum(h, T \cup {x})
      BY <1>2, <1>4, <2>1, <2>2
    <2> QED
      BY <1>4, <2>3
  <1>5. S \in Good
    <2> HIDE DEF Good
    <2> QED
      BY <1>3, <1>4, FiniteInduction
  <1> QED
    BY <1>5

\* A sum grows with its numbers.
LEMMA SumUpTo ==
  ASSUME NEW S, IsFiniteSet(S), NEW f, NEW g,
         \A x \in S : f[x] \in Nat /\ g[x] \in Nat /\ f[x] <= g[x]
  PROVE  Sum(f, S) <= Sum(g, S)
  <1> DEFINE d == [x \in S |-> g[x] - f[x]]
  <1>1. \A x \in S : d[x] \in Nat /\ g[x] = f[x] + d[x]
    OBVIOUS
  <1> HIDE DEF d
  <1>2. Sum(g, S) = Sum(f, S) + Sum(d, S)
    BY <1>1, SumOfSums
  <1>3. Sum(f, S) \in Nat /\ Sum(d, S) \in Nat
    BY <1>1, SumNat
  <1> QED
    BY <1>2, <1>3

\* A sum depends on nothing but its numbers.
LEMMA SumSame ==
  ASSUME NEW S, IsFiniteSet(S), NEW f, NEW g, \A x \in S : f[x] \in Nat /\ f[x] = g[x]
  PROVE  Sum(f, S) = Sum(g, S)
  <1>1. Sum(f, S) <= Sum(g, S) /\ Sum(g, S) <= Sum(f, S)
    BY SumUpTo
  <1>2. Sum(f, S) \in Nat /\ Sum(g, S) \in Nat
    BY SumNat
  <1> QED
    BY <1>1, <1>2

\* A number that grows makes the sum grow by as much.
LEMMA SumChanges ==
  ASSUME NEW S, IsFiniteSet(S), NEW f, NEW g, NEW e \in S, NEW a \in Nat,
         \A x \in S : f[x] \in Nat, \A x \in S \ {e} : g[x] = f[x], g[e] = f[e] + a
  PROVE  Sum(g, S) = Sum(f, S) + a
  <1>1. f[e] \in Nat /\ \A x \in S : g[x] \in Nat
    OBVIOUS
  <1>2. Sum(f, S) = f[e] + Sum(f, S \ {e}) /\ Sum(g, S) = g[e] + Sum(g, S \ {e})
    BY <1>1, SumRemove
  <1>3. IsFiniteSet(S \ {e}) /\ \A x \in S \ {e} : f[x] \in Nat /\ f[x] = g[x]
    BY FS_Subset
  <1>4. Sum(f, S \ {e}) = Sum(g, S \ {e}) /\ Sum(f, S \ {e}) \in Nat
    BY <1>3, SumSame, SumNat
  <1> QED
    BY <1>1, <1>2, <1>4

LEMMA SumZero ==
  ASSUME NEW S, IsFiniteSet(S), NEW f, \A x \in S : f[x] = 0
  PROVE  Sum(f, S) = 0
  <1>1. \A x \in S : f[x] \in Nat /\ f[x] = f[x] + f[x]
    OBVIOUS
  <1>2. Sum(f, S) = Sum(f, S) + Sum(f, S) /\ Sum(f, S) \in Nat
    BY <1>1, SumOfSums, SumNat
  <1>3. \A n \in Nat : n = n + n => n = 0
    OBVIOUS
  <1> QED
    BY <1>2, <1>3
-----------------------------------------------------------------------------
(* The operators of the model. *)

\* An order's total is a natural number.
LEMMA PoTotalNat == \A p \in PO : PoTotal(p) \in Nat
  <1>1. \A a, b \in Nat : a * b \in Nat
    OBVIOUS
  <1> QED
    BY <1>1, PoDocAssumption DEF PoTotal

Amounts == [i \in Invoice |-> AmountOf(i)]

Quantities == [c \in Receipt |-> QuantityOf(c)]

\* The value that a set of invoices bills is a sum.
LEMMA ValueIsSum ==
  ASSUME NEW S \in SUBSET Invoice
  PROVE  IsFiniteSet(S) /\ ValueOf(S) = Sum(Amounts, S)
  <1> DEFINE Unfolded(g) == [s \in SUBSET S |->
                               IF s = {} THEN 0 ELSE AmountOf(Some(s)) + g[s \ {Some(s)}]]
             h == CHOOSE g : g = Unfolded(g)
  <1>1. IsFiniteSet(S)
    BY FinitenessAssumption, FS_Subset
  <1>2. \A g : Unfolded(g) = Body(Amounts, S, g)
    BY SomeIsIn DEF Body, Amounts
  <1>3. h = Body(Amounts, S, h)
    <2>1. PICK g : g = Body(Amounts, S, g)
      BY <1>1, SumExists
    <2> HIDE DEF Unfolded
    <2>2. g = Unfolded(g)
      BY <1>2, <2>1
    <2> QED
      BY <1>2, <2>2
  <1>4. ValueOf(S) = h[S]
    BY DEF ValueOf, MapThenSumSet, MapThenFoldSet, Some
  <1> QED
    BY <1>1, <1>3, <1>4, SumIs

\* So is the quantity received.
LEMMA QuantityIsSum ==
  ASSUME NEW S \in SUBSET Receipt
  PROVE  IsFiniteSet(S) /\ QuantityReceived(S) = Sum(Quantities, S)
  <1> DEFINE Unfolded(g) == [s \in SUBSET S |->
                               IF s = {} THEN 0 ELSE QuantityOf(Some(s)) + g[s \ {Some(s)}]]
             h == CHOOSE g : g = Unfolded(g)
  <1>1. IsFiniteSet(S)
    BY FinitenessAssumption, FS_Subset
  <1>2. \A g : Unfolded(g) = Body(Quantities, S, g)
    BY SomeIsIn DEF Body, Quantities
  <1>3. h = Body(Quantities, S, h)
    <2>1. PICK g : g = Body(Quantities, S, g)
      BY <1>1, SumExists
    <2> HIDE DEF Unfolded
    <2>2. g = Unfolded(g)
      BY <1>2, <2>1
    <2> QED
      BY <1>2, <2>2
  <1>4. QuantityReceived(S) = h[S]
    BY DEF QuantityReceived, MapThenSumSet, MapThenFoldSet, Some
  <1> QED
    BY <1>1, <1>3, <1>4, SumIs

\* What ValueOf returns, and how it grows with an invoice and with a set of invoices.
LEMMA ValueFacts ==
  ASSUME NEW S \in SUBSET Invoice
  PROVE  /\ ValueOf(S) \in Nat
         /\ S = {} => ValueOf(S) = 0
         /\ \A i \in Invoice \ S : ValueOf(S \cup {i}) = AmountOf(i) + ValueOf(S)
         /\ \A T \in SUBSET S : ValueOf(T) <= ValueOf(S)
  <1>1. IsFiniteSet(S) /\ ValueOf(S) = Sum(Amounts, S)
    BY ValueIsSum
  <1>2. \A i \in Invoice : Amounts[i] \in Nat /\ Amounts[i] = AmountOf(i)
    BY InvoiceDocAssumption DEF Amounts, AmountOf
  <1>3. Sum(Amounts, S) \in Nat /\ (S = {} => Sum(Amounts, S) = 0)
    BY <1>1, <1>2, SumNat, SumUnfold
  <1>4. ASSUME NEW i \in Invoice \ S
        PROVE  ValueOf(S \cup {i}) = AmountOf(i) + ValueOf(S)
    <2>1. Sum(Amounts, S \cup {i}) = Amounts[i] + Sum(Amounts, S)
      BY <1>1, <1>2, SumAdd
    <2>2. ValueOf(S \cup {i}) = Sum(Amounts, S \cup {i})
      BY ValueIsSum
    <2> QED
      BY <1>1, <1>2, <2>1, <2>2
  <1>5. ASSUME NEW T \in SUBSET S
        PROVE  ValueOf(T) <= ValueOf(S)
    <2>1. Sum(Amounts, T) <= Sum(Amounts, S)
      BY <1>1, <1>2, SumMonotone
    <2>2. ValueOf(T) = Sum(Amounts, T)
      BY ValueIsSum
    <2> QED
      BY <1>1, <2>1, <2>2
  <1> QED
    BY <1>1, <1>3, <1>4, <1>5

\* What ValueReceived returns, and that fewer receipts are worth no more.
LEMMA ReceivedFacts ==
  ASSUME NEW p \in PO, NEW S \in SUBSET Receipt
  PROVE  /\ ValueReceived(p, S) \in Nat
         /\ \A T \in SUBSET S : ValueReceived(p, T) <= ValueReceived(p, S)
  <1>1. IsFiniteSet(S) /\ QuantityReceived(S) = Sum(Quantities, S)
    BY QuantityIsSum
  <1>2. \A c \in Receipt : Quantities[c] \in Nat
    BY ReceiptDocAssumption DEF Quantities, QuantityOf
  <1>3. QuantityReceived(S) \in Nat
    BY <1>1, <1>2, SumNat
  <1>4. PoDoc[p].unitPrice \in Nat
    BY PoDocAssumption
  <1>5. \A x, y, z \in Nat : x * z \in Nat /\ (x <= y => x * z <= y * z)
    OBVIOUS
  <1>6. ASSUME NEW T \in SUBSET S
        PROVE  ValueReceived(p, T) <= ValueReceived(p, S)
    <2>1. Sum(Quantities, T) <= Sum(Quantities, S)
      BY <1>1, <1>2, SumMonotone
    <2>2. QuantityReceived(T) = Sum(Quantities, T) /\ IsFiniteSet(T)
      BY QuantityIsSum
    <2>3. QuantityReceived(T) \in Nat
      BY <1>2, <2>2, SumNat
    <2> QED
      BY <1>1, <1>3, <1>4, <1>5, <2>1, <2>2, <2>3 DEF ValueReceived
  <1> QED
    BY <1>3, <1>4, <1>5, <1>6 DEF ValueReceived

\* Only an invoice of a live order matches.
LEMMA MatchedNeedsLiveOrder ==
  ASSUME NEW i, NEW live \in BOOLEAN, NEW received, NEW allocated,
         MatchAgainstPo(i, live, received, allocated) = "matched"
  PROVE  live
  BY DEF MatchAgainstPo

\* What storing the outcomes of a batch does to the invoices.
LEMMA StoreMatchesEffect ==
  ASSUME TypeOK,
         NEW batch \in SUBSET Invoice, NEW judged \in [batch -> MatchOutcomes],
         StoreMatches(batch, judged)
  PROVE  /\ invStatus' \in [Invoice -> {"none", "received", "matched", "exception", "paid"}]
         /\ outcome' \in [Invoice -> MatchOutcomes \cup {"none"}]
         /\ \A i \in Invoice \ batch : invStatus'[i] = invStatus[i]
         /\ \A i \in batch : /\ invStatus'[i] # "paid"
                             /\ invStatus'[i] = "matched" => judged[i] = "matched"
  <1>1. \A o \in MatchOutcomes : /\ StatusFor(o) \in {"received", "matched", "exception"}
                                 /\ StatusFor(o) = "matched" => o = "matched"
    BY DEF StatusFor, MatchOutcomes
  <1>2. \A i \in batch : judged[i] \in MatchOutcomes
    OBVIOUS
  <1> QED
    BY <1>1, <1>2 DEF StoreMatches, TypeOK

\* A batch of invoices that are neither paid nor claimed can be judged again
\* without disturbing a payment, as long as eligibility needs a live order.
LEMMA RejudgePreserves ==
  ASSUME IInv,
         NEW batch \in SUBSET Invoice, NEW judged \in [batch -> MatchOutcomes],
         StoreMatches(batch, judged),
         UNCHANGED runVars,
         \A i \in batch : invStatus[i] # "paid" /\ \A r \in Run : ~LiveClaim(r, i),
         \A i \in batch : judged[i] = "matched" => IsLive(InvoiceDoc[i].po)',
         \A i \in Invoice \ batch :
           invStatus[i] \in {"matched", "paid"} => IsLive(InvoiceDoc[i].po)'
  PROVE  PaymentInv'
  <1>1. /\ \A i \in Invoice \ batch : invStatus'[i] = invStatus[i]
        /\ \A i \in batch : /\ invStatus'[i] # "paid"
                            /\ invStatus'[i] = "matched" => judged[i] = "matched"
    BY StoreMatchesEffect DEF IInv
  <1>2. \A r \in Run, i \in Invoice : LiveClaim(r, i)' <=> LiveClaim(r, i)
    BY DEF LiveClaim, runVars
  <1>3. SingleLiveClaim'
    BY <1>2 DEF SingleLiveClaim, IInv, PaymentInv
  <1>4. PaidByOneLine'
    <2>1. \A i \in Invoice : invStatus'[i] = "paid" <=> invStatus[i] = "paid"
      BY <1>1
    <2> QED
      BY <2>1 DEF PaidByOneLine, IInv, PaymentInv, runVars
  <1>5. NoPaymentOfCancelledOrder'
    BY <1>1 DEF NoPaymentOfCancelledOrder
  <1>6. ClaimBacked'
    <2> SUFFICES ASSUME NEW r \in Run, NEW i \in Invoice, LiveClaim(r, i)'
                 PROVE  (invStatus[i] = "matched" /\ IsLive(InvoiceDoc[i].po))'
      BY DEF ClaimBacked
    <2>1. i \notin batch /\ invStatus[i] = "matched"
      BY <1>2 DEF ClaimBacked, IInv, PaymentInv
    <2> QED
      BY <2>1, <1>1, <1>5 DEF NoPaymentOfCancelledOrder
  <1>7. NoLineBeforeRun'
    BY DEF NoLineBeforeRun, IInv, PaymentInv, runVars
  <1> QED
    BY <1>3, <1>4, <1>5, <1>6, <1>7 DEF PaymentInv
-----------------------------------------------------------------------------
(* Types. *)

LEMMA InitTypeOK == Init => TypeOK
  BY DEF Init, TypeOK

LEMMA OrderStepTypeOK == TypeOK /\ OrderStep => TypeOK'
  <1> SUFFICES ASSUME TypeOK, OrderStep
               PROVE  TypeOK'
    OBVIOUS
  <1> USE DEF orderVars, receiptVars, invoiceVars, runVars, budgetVars
  <1> PICK p \in PO : \/ IssuePo(p)
                      \/ ConfirmPo(p)
                      \/ \E u \in User : \/ RequestCancellation(u, p)
                                         \/ RejectCancellation(u, p)
                                         \/ ApproveCancellation(u, p)
    BY DEF OrderStep
  <1>1. BudgetOf(p) \in Budget /\ PoTotal(p) \in Nat
    BY PoTotalNat, BudgetAssumption DEF BudgetOf
  <1>2. CASE IssuePo(p)
    BY <1>1, <1>2 DEF IssuePo, TypeOK
  <1>3. CASE ConfirmPo(p)
    BY <1>3 DEF ConfirmPo, TypeOK
  <1>4. CASE \E u \in User : RequestCancellation(u, p) \/ RejectCancellation(u, p)
    BY <1>4 DEF RequestCancellation, RejectCancellation, TypeOK
  <1>5. CASE \E u \in User : ApproveCancellation(u, p)
    <2>1. PICK judged \in [MatchedOf(p) -> MatchOutcomes] : StoreMatches(MatchedOf(p), judged)
      BY <1>5 DEF ApproveCancellation
    <2>2. MatchedOf(p) \subseteq Invoice
      BY DEF MatchedOf, InvoicesOf
    <2>3. /\ invStatus' \in [Invoice -> {"none", "received", "matched", "exception", "paid"}]
          /\ outcome' \in [Invoice -> MatchOutcomes \cup {"none"}]
      BY <2>1, <2>2, StoreMatchesEffect
    <2>4. committed' \in [Budget -> Nat]
      BY <1>1, <1>5 DEF ApproveCancellation, TypeOK
    <2> QED
      BY <1>5, <2>3, <2>4 DEF ApproveCancellation, TypeOK
  <1> QED
    BY <1>2, <1>3, <1>4, <1>5

LEMMA MatchStepTypeOK == TypeOK /\ (ReceiptStep \/ InvoiceStep) => TypeOK'
  <1> SUFFICES ASSUME TypeOK, ReceiptStep \/ InvoiceStep
               PROVE  TypeOK'
    OBVIOUS
  <1> USE DEF orderVars, receiptVars, invoiceVars, runVars, budgetVars
  <1>1. ASSUME NEW c \in Receipt, RecordReceipt(c)
        PROVE  TypeOK'
    <2> DEFINE batch == OpenForRematch(ReceiptDoc[c].po)
    <2>1. PICK judged \in [batch -> MatchOutcomes] : StoreMatches(batch, judged)
      BY <1>1 DEF RecordReceipt
    <2>2. batch \subseteq Invoice
      BY DEF OpenForRematch, InvoicesOf
    <2>3. /\ invStatus' \in [Invoice -> {"none", "received", "matched", "exception", "paid"}]
          /\ outcome' \in [Invoice -> MatchOutcomes \cup {"none"}]
      BY <2>1, <2>2, StoreMatchesEffect
    <2> QED
      BY <1>1, <2>3 DEF RecordReceipt, TypeOK
  <1>2. ASSUME NEW c \in Receipt, CancelReceipt(c)
        PROVE  TypeOK'
    <2> DEFINE batch == MatchedOf(ReceiptDoc[c].po)
    <2>1. PICK judged \in [batch -> MatchOutcomes] : StoreMatches(batch, judged)
      BY <1>2 DEF CancelReceipt
    <2>2. batch \subseteq Invoice
      BY DEF MatchedOf, InvoicesOf
    <2>3. /\ invStatus' \in [Invoice -> {"none", "received", "matched", "exception", "paid"}]
          /\ outcome' \in [Invoice -> MatchOutcomes \cup {"none"}]
      BY <2>1, <2>2, StoreMatchesEffect
    <2> QED
      BY <1>2, <2>3 DEF CancelReceipt, TypeOK
  <1>3. ASSUME NEW i \in Invoice, RegisterInvoice(i)
        PROVE  TypeOK'
    <2>1. PICK judged \in [{i} -> MatchOutcomes] : StoreMatches({i}, judged)
      BY <1>3 DEF RegisterInvoice
    <2>2. /\ invStatus' \in [Invoice -> {"none", "received", "matched", "exception", "paid"}]
          /\ outcome' \in [Invoice -> MatchOutcomes \cup {"none"}]
      BY <2>1, StoreMatchesEffect
    <2> QED
      BY <1>3, <2>2 DEF RegisterInvoice, TypeOK
  <1> QED
    BY <1>1, <1>2, <1>3 DEF ReceiptStep, InvoiceStep

LEMMA RunStepTypeOK == TypeOK /\ RunStep => TypeOK'
  <1> SUFFICES ASSUME TypeOK, RunStep
               PROVE  TypeOK'
    OBVIOUS
  <1> USE DEF orderVars, receiptVars, invoiceVars, runVars, budgetVars
  <1>1. ASSUME NEW u \in User, CommitVoid(u)
        PROVE  TypeOK'
    <2> DEFINE r == voiding[u]
    <2>1. r \in Run /\ voiding' \in [User -> Run \cup {NoRun}]
      BY <1>1 DEF CommitVoid, TypeOK
    <2>2. /\ runStatus' \in [Run -> {"none", "draft", "approved", "executed", "reconciled",
                                     "voided"}]
          /\ voidedBy' \in [Run -> User \cup {NoUser}]
      <3>1. CASE StillVoidable(r)
        BY <1>1, <2>1, <3>1 DEF CommitVoid, TypeOK
      <3>2. CASE ~StillVoidable(r)
        BY <1>1, <3>2 DEF CommitVoid, TypeOK
      <3> QED
        BY <3>1, <3>2
    <2> QED
      BY <1>1, <2>1, <2>2 DEF CommitVoid, TypeOK
  <1>2. ASSUME NEW r \in Run, ExecuteRun(r)
        PROVE  TypeOK'
    BY <1>2 DEF ExecuteRun, TypeOK
  <1>3. ASSUME NEW r \in Run, NEW u \in User, ApproveRun(u, r) \/ BeginVoid(u, r)
        PROVE  TypeOK'
    <2>1. CASE ApproveRun(u, r)
      BY <2>1 DEF ApproveRun, MayApprove, TypeOK
    <2>2. CASE BeginVoid(u, r)
      BY <2>2 DEF BeginVoid, TypeOK
    <2> QED
      BY <1>3, <2>1, <2>2
  <1>4. ASSUME NEW r \in Run, NEW u \in User, NEW S \in SUBSET Invoice, CreateRun(u, r, S)
        PROVE  TypeOK'
    BY <1>4 DEF CreateRun, TypeOK
  <1>5. ASSUME NEW r \in Run, NEW i \in Invoice,
               NEW verdict \in {"paid", "dishonored", "rejected"}, Reconcile(r, i, verdict)
        PROVE  TypeOK'
    <2>1. /\ line' \in [Run -> [Invoice -> {"none", "planned", "paid", "dishonored", "rejected"}]]
          /\ runStatus' \in [Run -> {"none", "draft", "approved", "executed", "reconciled",
                                     "voided"}]
      BY <1>5 DEF Reconcile, Reconcilable, IsLastLine, TypeOK
    <2>2. /\ invStatus' \in [Invoice -> {"none", "received", "matched", "exception", "paid"}]
          /\ committed' \in [Budget -> Nat]
          /\ spent' \in [Budget -> Nat]
      <3>1. AmountOf(i) \in Nat /\ BudgetOf(InvoiceDoc[i].po) \in Budget
        BY InvoiceDocAssumption, BudgetAssumption DEF AmountOf, BudgetOf
      <3>2. CASE verdict = "paid" /\ invStatus[i] # "paid"
        <4> DEFINE b == BudgetOf(InvoiceDoc[i].po)
        <4>1. /\ committed[b] \in Nat /\ spent[b] \in Nat
              /\ CommitmentLeft(b, i) \in Nat
              /\ spent[b] + AmountOf(i) \in Nat
          BY <3>1 DEF TypeOK, CommitmentLeft
        <4>2. /\ invStatus' = [invStatus EXCEPT ![i] = "paid"]
              /\ committed' = [committed EXCEPT ![b] = CommitmentLeft(b, i)]
              /\ spent' = [spent EXCEPT ![b] = spent[b] + AmountOf(i)]
          BY <1>5, <3>2 DEF Reconcile, SettlePaidInvoice
        <4> HIDE DEF b
        <4> QED
          BY <4>1, <4>2 DEF TypeOK
      <3>3. CASE verdict # "paid" \/ invStatus[i] = "paid"
        BY <1>5, <3>3 DEF Reconcile, SettlePaidInvoice, TypeOK
      <3> QED
        BY <3>2, <3>3
    <2> QED
      BY <1>5, <2>1, <2>2 DEF Reconcile, Reconcilable, IsLastLine, TypeOK
  <1> QED
    BY <1>1, <1>2, <1>3, <1>4, <1>5 DEF RunStep

LEMMA NextTypeOK == TypeOK /\ [Next]_vars => TypeOK'
  <1>1. TypeOK /\ UNCHANGED vars => TypeOK'
    BY DEF TypeOK, vars, orderVars, receiptVars, invoiceVars, runVars, budgetVars
  <1> QED
    BY <1>1, OrderStepTypeOK, MatchStepTypeOK, RunStepTypeOK DEF Next

\* Every variable keeps the type of the column it stands for; the commitment of a
\* budget never goes below zero (releaseCommittedBudget, settlePaidInvoice).
THEOREM TypeCorrect == Spec => []TypeOK
  BY InitTypeOK, NextTypeOK, PTL DEF Spec
-----------------------------------------------------------------------------
(* The payment invariant, action by action. *)

\* Steps that change neither invoices nor the status and lines of runs, and that
\* leave every live order live.
LEMMA QuietPreserves ==
  ASSUME PaymentInv, UNCHANGED <<invStatus, runStatus, line>>,
         \A p \in PO : IsLive(p) => IsLive(p)'
  PROVE  PaymentInv'
  <1> USE DEF PaymentInv
  <1>1. \A r \in Run, i \in Invoice : LiveClaim(r, i)' <=> LiveClaim(r, i)
    BY DEF LiveClaim
  <1>2. SingleLiveClaim' /\ PaidByOneLine' /\ NoLineBeforeRun'
    BY <1>1 DEF SingleLiveClaim, PaidByOneLine, NoLineBeforeRun
  <1>3. NoPaymentOfCancelledOrder' /\ ClaimBacked'
    BY <1>1, InvoiceDocAssumption DEF NoPaymentOfCancelledOrder, ClaimBacked
  <1> QED
    BY <1>2, <1>3

LEMMA OrderStepSafe == IInv /\ OrderStep => PaymentInv'
  <1> SUFFICES ASSUME IInv, OrderStep
               PROVE  PaymentInv'
    OBVIOUS
  <1> PICK p \in PO : \/ IssuePo(p)
                      \/ ConfirmPo(p)
                      \/ \E u \in User : \/ RequestCancellation(u, p)
                                         \/ RejectCancellation(u, p)
                                         \/ ApproveCancellation(u, p)
    BY DEF OrderStep
  <1>1. CASE \/ IssuePo(p) \/ ConfirmPo(p)
             \/ \E u \in User : RequestCancellation(u, p) \/ RejectCancellation(u, p)
    <2>1. UNCHANGED <<invStatus, runStatus, line>>
      BY <1>1 DEF IssuePo, ConfirmPo, RequestCancellation, RejectCancellation,
                  invoiceVars, runVars
    <2>2. \A q \in PO : IsLive(q) => IsLive(q)'
      BY <1>1 DEF IssuePo, ConfirmPo, RequestCancellation, RejectCancellation, IsLive,
                  IInv, TypeOK
    <2> QED
      BY <2>1, <2>2, QuietPreserves DEF IInv
  <1>2. ASSUME NEW u \in User, ApproveCancellation(u, p)
        PROVE  PaymentInv'
    <2> DEFINE batch == MatchedOf(p)
    <2>1. PICK judged \in [batch -> MatchOutcomes] :
            /\ JudgedInOrder(batch, judged, FALSE, ValueReceived(p, {}))
            /\ StoreMatches(batch, judged)
      BY <1>2 DEF ApproveCancellation
    <2>2. batch \in SUBSET Invoice /\ \A i \in batch : i \in InvoicesOf(p) /\ invStatus[i] = "matched"
      BY DEF MatchedOf, InvoicesOf
    <2>3. \A i \in batch : judged[i] # "matched"
      <3> SUFFICES ASSUME NEW i \in batch, judged[i] = "matched"
                   PROVE  FALSE
        OBVIOUS
      <3>1. MatchAgainstPo(i, FALSE, ValueReceived(p, {}), ValueOf(Holders(i, batch, judged)))
              = "matched"
        BY <2>1 DEF JudgedInOrder
      <3> QED
        BY <3>1 DEF MatchAgainstPo
    <2>4. UNCHANGED runVars /\ poStatus' = [poStatus EXCEPT ![p] = "cancelled"]
      BY <1>2 DEF ApproveCancellation
    <2>5. \A i \in batch : invStatus[i] # "paid" /\ \A r \in Run : ~LiveClaim(r, i)
      BY <1>2, <2>2 DEF ApproveCancellation, CorrectionAllowed
    <2>6. ASSUME NEW i \in Invoice \ batch, invStatus[i] \in {"matched", "paid"}
          PROVE  IsLive(InvoiceDoc[i].po)'
      <3>1. i \notin InvoicesOf(p)
        BY <1>2, <2>6 DEF ApproveCancellation, CorrectionAllowed, MatchedOf
      <3>2. InvoiceDoc[i].po # p /\ IsLive(InvoiceDoc[i].po)
        BY <2>6, <3>1 DEF InvoicesOf, IInv, PaymentInv, NoPaymentOfCancelledOrder
      <3> QED
        BY <2>4, <3>2, InvoiceDocAssumption DEF IsLive, IInv, TypeOK
    <2> HIDE DEF batch
    <2> QED
      BY <2>1, <2>2, <2>3, <2>4, <2>5, <2>6, RejudgePreserves
  <1> QED
    BY <1>1, <1>2

LEMMA MatchStepSafe == IInv /\ (ReceiptStep \/ InvoiceStep) => PaymentInv'
  <1> SUFFICES ASSUME IInv, ReceiptStep \/ InvoiceStep
               PROVE  PaymentInv'
    OBVIOUS
  <1>1. \A i \in Invoice, live \in BOOLEAN : \A received, allocated :
          MatchAgainstPo(i, live, received, allocated) = "matched" => live
    BY MatchedNeedsLiveOrder
  <1>2. ASSUME UNCHANGED orderVars
        PROVE  \A i \in Invoice : /\ IsLive(InvoiceDoc[i].po)' = IsLive(InvoiceDoc[i].po)
                                  /\ invStatus[i] \in {"matched", "paid"}
                                       => IsLive(InvoiceDoc[i].po)'
    BY <1>2 DEF IsLive, orderVars, IInv, PaymentInv, NoPaymentOfCancelledOrder
  <1>3. ASSUME NEW c \in Receipt, RecordReceipt(c)
        PROVE  PaymentInv'
    <2> DEFINE p     == ReceiptDoc[c].po
               batch == OpenForRematch(p)
               value == ValueReceived(p, Recorded(p) \cup {c})
    <2>1. PICK judged \in [batch -> MatchOutcomes] : StoreMatches(batch, judged)
      BY <1>3 DEF RecordReceipt
    <2>2. UNCHANGED runVars /\ UNCHANGED orderVars /\ IsLive(p)
      BY <1>3 DEF RecordReceipt
    <2>3. batch \in SUBSET Invoice
      BY DEF OpenForRematch, InvoicesOf
    <2>4. \A i \in batch : invStatus[i] # "paid" /\ \A r \in Run : ~LiveClaim(r, i)
      BY DEF OpenForRematch, InvoicesOf, IInv, PaymentInv, ClaimBacked
    <2>5. \A i \in batch : IsLive(InvoiceDoc[i].po)'
      BY <1>2, <2>2 DEF OpenForRematch, InvoicesOf
    <2>6. \A i \in Invoice : invStatus[i] \in {"matched", "paid"} => IsLive(InvoiceDoc[i].po)'
      BY <1>2, <2>2
    <2> HIDE DEF batch
    <2> QED
      BY <2>1, <2>2, <2>3, <2>4, <2>5, <2>6, RejudgePreserves
  <1>4. ASSUME NEW c \in Receipt, CancelReceipt(c)
        PROVE  PaymentInv'
    <2> DEFINE p     == ReceiptDoc[c].po
               batch == MatchedOf(p)
    <2>1. PICK judged \in [batch -> MatchOutcomes] : StoreMatches(batch, judged)
      BY <1>4 DEF CancelReceipt
    <2>2. UNCHANGED runVars /\ UNCHANGED orderVars /\ CorrectionAllowed(p)
      BY <1>4 DEF CancelReceipt
    <2>3. batch \in SUBSET Invoice /\ \A i \in batch : invStatus[i] = "matched"
      BY DEF MatchedOf, InvoicesOf
    <2>4. \A i \in batch : invStatus[i] # "paid" /\ \A r \in Run : ~LiveClaim(r, i)
      BY <2>2 DEF MatchedOf, CorrectionAllowed
    <2>5. \A i \in Invoice : invStatus[i] \in {"matched", "paid"} => IsLive(InvoiceDoc[i].po)'
      BY <1>2, <2>2
    <2> HIDE DEF batch
    <2> QED
      BY <2>1, <2>2, <2>3, <2>4, <2>5, RejudgePreserves
  <1>5. ASSUME NEW i \in Invoice, RegisterInvoice(i)
        PROVE  PaymentInv'
    <2> DEFINE live  == IsLive(InvoiceDoc[i].po)
               value == ValueReceived(InvoiceDoc[i].po, Recorded(InvoiceDoc[i].po))
    <2>1. PICK judged \in [{i} -> MatchOutcomes] :
            JudgedInOrder({i}, judged, live, value) /\ StoreMatches({i}, judged)
      BY <1>5 DEF RegisterInvoice
    <2>2. UNCHANGED runVars /\ UNCHANGED orderVars /\ invStatus[i] = "none"
      BY <1>5 DEF RegisterInvoice
    <2>3. judged[i] = "matched" => live
      <3>1. judged[i] = MatchAgainstPo(i, live, value, ValueOf(Holders(i, {i}, judged)))
        BY <2>1 DEF JudgedInOrder
      <3>2. live \in BOOLEAN
        BY DEF IsLive
      <3> HIDE DEF live, value
      <3> QED
        BY <1>1, <3>1, <3>2
    <2>4. \A r \in Run : ~LiveClaim(r, i)
      BY <2>2 DEF IInv, PaymentInv, ClaimBacked
    <2>5. \A j \in Invoice : invStatus[j] \in {"matched", "paid"} => IsLive(InvoiceDoc[j].po)'
      BY <1>2, <2>2
    <2>6. judged[i] = "matched" => IsLive(InvoiceDoc[i].po)'
      BY <1>2, <2>2, <2>3
    <2> QED
      BY <2>1, <2>2, <2>4, <2>5, <2>6, RejudgePreserves
  <1> QED
    BY <1>3, <1>4, <1>5 DEF ReceiptStep, InvoiceStep

\* Steps of a run that leave orders, invoices and lines alone and create no claim.
LEMMA ReleasePreserves ==
  ASSUME PaymentInv, UNCHANGED <<poStatus, invStatus, line>>,
         \A r \in Run, i \in Invoice : LiveClaim(r, i)' => LiveClaim(r, i),
         \A r \in Run : runStatus'[r] = "none" => runStatus[r] = "none"
  PROVE  PaymentInv'
  <1> USE DEF PaymentInv
  <1>1. SingleLiveClaim' /\ PaidByOneLine' /\ NoLineBeforeRun'
    BY DEF SingleLiveClaim, PaidByOneLine, NoLineBeforeRun
  <1>2. NoPaymentOfCancelledOrder' /\ ClaimBacked'
    BY DEF NoPaymentOfCancelledOrder, ClaimBacked, IsLive
  <1> QED
    BY <1>1, <1>2

LEMMA CreateRunSafe ==
  ASSUME IInv, NEW u \in User, NEW r \in Run, NEW S \in SUBSET Invoice, CreateRun(u, r, S)
  PROVE  PaymentInv'
  <1>1. /\ runStatus[r] = "none"
        /\ runStatus' = [runStatus EXCEPT ![r] = "draft"]
        /\ line' = [line EXCEPT ![r] = [i \in Invoice |-> IF i \in S THEN "planned" ELSE "none"]]
        /\ UNCHANGED <<poStatus, invStatus>>
        /\ \A i \in S : /\ invStatus[i] = "matched" /\ IsLive(InvoiceDoc[i].po)
                        /\ \A q \in Run : ~LiveClaim(q, i)
    BY DEF CreateRun, Payable, orderVars, invoiceVars
  <1>2. \A q \in Run, i \in Invoice :
          /\ LiveClaim(q, i)' => LiveClaim(q, i) \/ (q = r /\ i \in S)
          /\ line'[q][i] = "paid" <=> line[q][i] = "paid"
    BY <1>1 DEF LiveClaim, IInv, TypeOK, PaymentInv, NoLineBeforeRun
  <1>3. SingleLiveClaim' /\ PaidByOneLine'
    BY <1>1, <1>2 DEF SingleLiveClaim, PaidByOneLine, IInv, PaymentInv
  <1>4. NoPaymentOfCancelledOrder' /\ ClaimBacked'
    BY <1>1, <1>2 DEF NoPaymentOfCancelledOrder, ClaimBacked, IsLive, IInv, PaymentInv
  <1>5. NoLineBeforeRun'
    BY <1>1 DEF NoLineBeforeRun, IInv, TypeOK, PaymentInv
  <1> QED
    BY <1>3, <1>4, <1>5 DEF PaymentInv

LEMMA ReconcileSafe ==
  ASSUME IInv, NEW r \in Run, NEW i \in Invoice,
         NEW verdict \in {"paid", "dishonored", "rejected"}, Reconcile(r, i, verdict)
  PROVE  PaymentInv'
  <1>1. /\ runStatus[r] = "executed" /\ line[r][i] = "planned"
        /\ line' = [line EXCEPT ![r][i] = verdict]
        /\ UNCHANGED poStatus
    BY DEF Reconcile, Reconcilable, IsLastLine, orderVars
  <1>2. invStatus' = IF verdict = "paid" THEN [invStatus EXCEPT ![i] = "paid"] ELSE invStatus
    BY DEF Reconcile, Reconcilable, IsLastLine, SettlePaidInvoice, CommitmentLeft, IInv, TypeOK
  <1>3. \A q \in Run : \/ runStatus'[q] = runStatus[q]
                       \/ q = r /\ runStatus'[q] = "reconciled"
    BY DEF Reconcile, Reconcilable, IsLastLine, IInv, TypeOK
  <1>4. /\ LiveClaim(r, i)
        /\ invStatus[i] = "matched" /\ IsLive(InvoiceDoc[i].po)
        /\ \A q \in Run : LiveClaim(q, i) => q = r
        /\ \A q \in Run : line[q][i] # "paid"
    BY <1>1 DEF LiveClaim, IInv, PaymentInv, ClaimBacked, SingleLiveClaim, PaidByOneLine
  <1>5. \A q \in Run, j \in Invoice :
          line'[q][j] = IF q = r /\ j = i THEN verdict ELSE line[q][j]
    <2>1. line \in [Run -> [Invoice -> {"none", "planned", "paid", "dishonored", "rejected"}]]
      BY DEF IInv, TypeOK
    <2> QED
      BY <1>1, <2>1
  <1>6. \A q \in Run, j \in Invoice : LiveClaim(q, j)' => LiveClaim(q, j) /\ j # i
    BY <1>1, <1>3, <1>4, <1>5 DEF LiveClaim
  <1>7. SingleLiveClaim'
    BY <1>6 DEF SingleLiveClaim, IInv, PaymentInv
  <1>8. PaidByOneLine'
    <2>1. ASSUME NEW j \in Invoice
          PROVE  invStatus'[j] = "paid" <=> \E q \in Run : line'[q][j] = "paid"
      <3>1. CASE j = i
        <4>1. \A q \in Run : line'[q][j] = IF q = r THEN verdict ELSE line[q][j]
          BY <1>5, <3>1
        <4>2. invStatus'[j] = "paid" <=> verdict = "paid"
          BY <1>2, <1>4, <3>1 DEF IInv, TypeOK
        <4> QED
          BY <1>4, <3>1, <4>1, <4>2
      <3>2. CASE j # i
        <4>1. invStatus'[j] = invStatus[j] /\ \A q \in Run : line'[q][j] = line[q][j]
          BY <1>2, <1>5, <3>2 DEF IInv, TypeOK
        <4> QED
          BY <4>1 DEF IInv, PaymentInv, PaidByOneLine
      <3> QED
        BY <3>1, <3>2
    <2>2. ASSUME NEW j \in Invoice, NEW p \in Run, NEW q \in Run,
                 line'[p][j] = "paid", line'[q][j] = "paid"
          PROVE  p = q
      BY <1>4, <1>5, <2>2 DEF IInv, PaymentInv, PaidByOneLine
    <2> QED
      BY <2>1, <2>2 DEF PaidByOneLine
  <1>9. NoPaymentOfCancelledOrder' /\ ClaimBacked'
    BY <1>1, <1>2, <1>4, <1>6
       DEF NoPaymentOfCancelledOrder, ClaimBacked, IsLive, IInv, TypeOK, PaymentInv
  <1>10. NoLineBeforeRun'
    BY <1>1, <1>3, <1>5 DEF NoLineBeforeRun, IInv, PaymentInv
  <1> QED
    BY <1>7, <1>8, <1>9, <1>10 DEF PaymentInv

LEMMA RunStepSafe == IInv /\ RunStep => PaymentInv'
  <1> SUFFICES ASSUME IInv, RunStep
               PROVE  PaymentInv'
    OBVIOUS
  <1>1. ASSUME NEW u \in User, CommitVoid(u)
        PROVE  PaymentInv'
    <2>1. UNCHANGED <<poStatus, invStatus, line>>
      BY <1>1 DEF CommitVoid, StillVoidable, orderVars, invoiceVars
    <2>2. \A r \in Run : \/ runStatus'[r] = runStatus[r]
                         \/ runStatus'[r] = "voided"
      BY <1>1 DEF CommitVoid, StillVoidable, IInv, TypeOK
    <2>3. \A r \in Run, i \in Invoice : LiveClaim(r, i)' => LiveClaim(r, i)
      BY <2>1, <2>2 DEF LiveClaim
    <2> QED
      BY <2>1, <2>2, <2>3, ReleasePreserves DEF IInv
  <1>2. ASSUME NEW r \in Run, NEW u \in User,
               ApproveRun(u, r) \/ BeginVoid(u, r)
        PROVE  PaymentInv'
    <2>1. UNCHANGED <<poStatus, invStatus, line>>
      BY <1>2 DEF ApproveRun, MayApprove, BeginVoid, orderVars, invoiceVars, runVars
    <2>2. \A q \in Run : \/ runStatus'[q] = runStatus[q]
                         \/ runStatus[q] = "draft" /\ runStatus'[q] = "approved"
      BY <1>2 DEF ApproveRun, MayApprove, BeginVoid, runVars, IInv, TypeOK
    <2>3. \A q \in Run, i \in Invoice : LiveClaim(q, i)' => LiveClaim(q, i)
      BY <2>1, <2>2 DEF LiveClaim
    <2> QED
      BY <2>1, <2>2, <2>3, ReleasePreserves DEF IInv
  <1>3. ASSUME NEW r \in Run, ExecuteRun(r)
        PROVE  PaymentInv'
    <2>1. UNCHANGED <<poStatus, invStatus, line>>
      BY <1>3 DEF ExecuteRun, orderVars, invoiceVars
    <2>2. \A q \in Run : \/ runStatus'[q] = runStatus[q]
                         \/ runStatus[q] = "approved" /\ runStatus'[q] = "executed"
      BY <1>3 DEF ExecuteRun, IInv, TypeOK
    <2>3. \A q \in Run, i \in Invoice : LiveClaim(q, i)' => LiveClaim(q, i)
      BY <2>1, <2>2 DEF LiveClaim
    <2> QED
      BY <2>1, <2>2, <2>3, ReleasePreserves DEF IInv
  <1> QED
    BY <1>1, <1>2, <1>3, CreateRunSafe, ReconcileSafe DEF RunStep

LEMMA InitSafe == Init => PaymentInv
  BY DEF Init, PaymentInv, SingleLiveClaim, PaidByOneLine, ClaimBacked,
         NoPaymentOfCancelledOrder, NoLineBeforeRun, LiveClaim

LEMMA NextSafe == IInv /\ [Next]_vars => IInv'
  <1>1. ASSUME IInv, UNCHANGED vars
        PROVE  PaymentInv'
    <2>1. /\ UNCHANGED <<invStatus, runStatus, line>>
          /\ \A p \in PO : IsLive(p) => IsLive(p)'
      BY <1>1 DEF vars, orderVars, invoiceVars, runVars, IsLive
    <2> QED
      BY <1>1, <2>1, QuietPreserves DEF IInv
  <1> QED
    BY <1>1, NextTypeOK, OrderStepSafe, MatchStepSafe, RunStepSafe DEF Next, IInv

LEMMA InductiveInvariant == Spec => []IInv
  <1>1. Init => IInv
    BY InitTypeOK, InitSafe DEF IInv
  <1> QED
    BY <1>1, NextSafe, PTL DEF Spec

\* No invoice is ever claimed by two live runs (create).
THEOREM SingleLiveClaimAlways == Spec => []SingleLiveClaim
  BY InductiveInvariant, PTL DEF IInv, PaymentInv

\* No invoice is ever paid by two runs, and paid invoices and paid lines agree
\* (reconcile, settlePaidInvoice).
THEOREM PaidOnceAlways == Spec => []PaidByOneLine
  BY InductiveInvariant, PTL DEF IInv, PaymentInv

\* What a run can still pay stays matched on a live order (assertPoCorrectionAllowed).
THEOREM ClaimBackedAlways == Spec => []ClaimBacked
  BY InductiveInvariant, PTL DEF IInv, PaymentInv

\* Nothing of a cancelled order is matched or paid (decide on a poCancellation).
THEOREM CancelledOrderUnpaid == Spec => []NoPaymentOfCancelledOrder
  BY InductiveInvariant, PTL DEF IInv, PaymentInv
-----------------------------------------------------------------------------
(* Approval and closing of runs. *)

\* A run that is neither closed nor voided has a line to decide, and a run number
\* that was not minted yet has no approver.
OpenRunHasLine ==
  \A r \in Run :
    /\ runStatus[r] \in {"draft", "approved", "executed"}
         => \E i \in Invoice : line[r][i] = "planned"
    /\ runStatus[r] \in {"none", "draft"} => approvedBy[r] = NoUser

RunInv == TypeOK /\ OpenRunHasLine /\ ClosedWithLastLine /\ ApprovedByChecker

LEMMA InitRunInv == Init => RunInv
  BY InitTypeOK DEF Init, RunInv, OpenRunHasLine, ClosedWithLastLine, ApprovedByChecker

LEMMA QuietRunInv ==
  ASSUME RunInv, TypeOK', UNCHANGED runVars
  PROVE  RunInv'
  BY DEF RunInv, OpenRunHasLine, ClosedWithLastLine, ApprovedByChecker, runVars

LEMMA RunStepRunInv ==
  ASSUME RunInv, TypeOK', RunStep
  PROVE  RunInv'
  <1>1. ASSUME NEW u \in User, CommitVoid(u)
        PROVE  RunInv'
    <2>1. /\ UNCHANGED <<line, createdBy, approvedBy>>
          /\ \A r \in Run : runStatus'[r] = runStatus[r] \/ runStatus'[r] = "voided"
      BY <1>1 DEF CommitVoid, StillVoidable, RunInv, TypeOK
    <2> QED
      BY <2>1 DEF RunInv, OpenRunHasLine, ClosedWithLastLine, ApprovedByChecker
  <1>2. ASSUME NEW r \in Run, ExecuteRun(r)
        PROVE  RunInv'
    <2>1. /\ UNCHANGED <<line, createdBy, approvedBy>>
          /\ \A q \in Run : \/ runStatus'[q] = runStatus[q]
                            \/ runStatus[q] = "approved" /\ runStatus'[q] = "executed"
      BY <1>2 DEF ExecuteRun, RunInv, TypeOK
    <2> QED
      BY <2>1 DEF RunInv, OpenRunHasLine, ClosedWithLastLine, ApprovedByChecker
  <1>3. ASSUME NEW r \in Run, NEW u \in User, ApproveRun(u, r)
        PROVE  RunInv'
    <2>1. /\ UNCHANGED <<line, createdBy>>
          /\ \A q \in Run : \/ runStatus'[q] = runStatus[q] /\ approvedBy'[q] = approvedBy[q]
                            \/ /\ runStatus[q] = "draft" /\ runStatus'[q] = "approved"
                               /\ approvedBy'[q] = u /\ createdBy[q] # u
      BY <1>3 DEF ApproveRun, MayApprove, RunInv, TypeOK
    <2> QED
      BY <2>1, UserAssumption DEF RunInv, OpenRunHasLine, ClosedWithLastLine, ApprovedByChecker
  <1>4. ASSUME NEW r \in Run, NEW u \in User, BeginVoid(u, r)
        PROVE  RunInv'
    BY <1>4, QuietRunInv DEF BeginVoid
  <1>5. ASSUME NEW r \in Run, NEW u \in User, NEW S \in SUBSET Invoice, CreateRun(u, r, S)
        PROVE  RunInv'
    <2>1. /\ approvedBy' = approvedBy /\ runStatus[r] = "none"
          /\ \A q \in Run \ {r} : /\ runStatus'[q] = runStatus[q]
                                  /\ createdBy'[q] = createdBy[q]
                                  /\ line'[q] = line[q]
          /\ runStatus'[r] = "draft"
          /\ \E i \in Invoice : line'[r][i] = "planned"
      BY <1>5 DEF CreateRun, RunInv, TypeOK
    <2> QED
      BY <2>1 DEF RunInv, OpenRunHasLine, ClosedWithLastLine, ApprovedByChecker
  <1>6. ASSUME NEW r \in Run, NEW i \in Invoice,
               NEW verdict \in {"paid", "dishonored", "rejected"}, Reconcile(r, i, verdict)
        PROVE  RunInv'
    <2>1. /\ UNCHANGED <<createdBy, approvedBy>> /\ runStatus[r] = "executed"
          /\ \A q \in Run \ {r} : runStatus'[q] = runStatus[q] /\ line'[q] = line[q]
          /\ \/ runStatus'[r] = "executed" /\ \E j \in Invoice : line'[r][j] = "planned"
             \/ runStatus'[r] = "reconciled" /\ \A j \in Invoice : line'[r][j] # "planned"
      BY <1>6 DEF Reconcile, Reconcilable, IsLastLine, RunInv, TypeOK
    <2> QED
      BY <2>1 DEF RunInv, OpenRunHasLine, ClosedWithLastLine, ApprovedByChecker
  <1> QED
    BY <1>1, <1>2, <1>3, <1>4, <1>5, <1>6 DEF RunStep

LEMMA NextRunInv == RunInv /\ [Next]_vars => RunInv'
  <1> SUFFICES ASSUME RunInv, [Next]_vars
               PROVE  RunInv'
    OBVIOUS
  <1>1. TypeOK'
    BY NextTypeOK DEF RunInv
  <1>2. CASE OrderStep \/ ReceiptStep \/ InvoiceStep \/ UNCHANGED vars
    <2>1. UNCHANGED runVars
      BY <1>2 DEF OrderStep, ReceiptStep, InvoiceStep, vars, IssuePo, ConfirmPo,
                  RequestCancellation, RejectCancellation, ApproveCancellation,
                  RecordReceipt, CancelReceipt, RegisterInvoice
    <2> QED
      BY <1>1, <2>1, QuietRunInv
  <1>3. CASE RunStep
    BY <1>1, <1>3, RunStepRunInv
  <1> QED
    BY <1>2, <1>3 DEF Next

LEMMA RunInvariant == Spec => []RunInv
  BY InitRunInv, NextRunInv, PTL DEF Spec

\* The approver of a run is never its maker (approve).
THEOREM CheckerApproves == Spec => []ApprovedByChecker
  BY RunInvariant, PTL DEF RunInv

\* A run closes with its last line and only then (reconcile).
THEOREM ClosesWithLastLine == Spec => []ClosedWithLastLine
  BY RunInvariant, PTL DEF RunInv
-----------------------------------------------------------------------------
(* Decisions are final. *)

LEMMA MatchStepKeepsPaid ==
  ASSUME IInv, OrderStep \/ ReceiptStep \/ InvoiceStep, NEW i \in Invoice, invStatus[i] = "paid"
  PROVE  invStatus'[i] = "paid"
  <1>1. ASSUME NEW batch \in SUBSET Invoice, \A j \in batch : invStatus[j] # "paid",
               \E judged \in [batch -> MatchOutcomes] : StoreMatches(batch, judged)
        PROVE  invStatus'[i] = "paid"
    BY <1>1, StoreMatchesEffect DEF IInv
  <1>2. \A p \in PO : /\ MatchedOf(p) \in SUBSET Invoice
                      /\ \A j \in MatchedOf(p) : invStatus[j] # "paid"
                      /\ OpenForRematch(p) \in SUBSET Invoice
                      /\ \A j \in OpenForRematch(p) : invStatus[j] # "paid"
    BY DEF MatchedOf, OpenForRematch, InvoicesOf
  <1>3. CASE OrderStep
    <2> PICK p \in PO : \/ IssuePo(p)
                        \/ ConfirmPo(p)
                        \/ \E u \in User : \/ RequestCancellation(u, p)
                                           \/ RejectCancellation(u, p)
                                           \/ ApproveCancellation(u, p)
      BY <1>3 DEF OrderStep
    <2>1. CASE \E u \in User : ApproveCancellation(u, p)
      <3>1. \E judged \in [MatchedOf(p) -> MatchOutcomes] : StoreMatches(MatchedOf(p), judged)
        BY <2>1 DEF ApproveCancellation
      <3> QED
        BY <3>1, <1>1, <1>2
    <2>2. CASE ~\E u \in User : ApproveCancellation(u, p)
      BY <2>2 DEF IssuePo, ConfirmPo, RequestCancellation, RejectCancellation, invoiceVars
    <2> QED
      BY <2>1, <2>2
  <1>4. ASSUME NEW c \in Receipt, RecordReceipt(c)
        PROVE  invStatus'[i] = "paid"
    <2> DEFINE batch == OpenForRematch(ReceiptDoc[c].po)
    <2>1. \E judged \in [batch -> MatchOutcomes] : StoreMatches(batch, judged)
      BY <1>4 DEF RecordReceipt
    <2> QED
      BY <2>1, <1>1, <1>2, ReceiptDocAssumption
  <1>5. ASSUME NEW c \in Receipt, CancelReceipt(c)
        PROVE  invStatus'[i] = "paid"
    <2> DEFINE batch == MatchedOf(ReceiptDoc[c].po)
    <2>1. \E judged \in [batch -> MatchOutcomes] : StoreMatches(batch, judged)
      BY <1>5 DEF CancelReceipt
    <2> QED
      BY <2>1, <1>1, <1>2, ReceiptDocAssumption
  <1>6. ASSUME NEW j \in Invoice, RegisterInvoice(j)
        PROVE  invStatus'[i] = "paid"
    <2>1. /\ invStatus[j] = "none"
          /\ \E judged \in [{j} -> MatchOutcomes] : StoreMatches({j}, judged)
      BY <1>6 DEF RegisterInvoice
    <2> QED
      BY <2>1, <1>1
  <1> QED
    BY <1>3, <1>4, <1>5, <1>6 DEF ReceiptStep, InvoiceStep

LEMMA StepKeepsDecisions == IInv /\ [Next]_vars => [KeepsDecisions]_vars
  <1> SUFFICES ASSUME IInv, Next
               PROVE  KeepsDecisions
    OBVIOUS
  <1>1. CASE OrderStep \/ ReceiptStep \/ InvoiceStep
    <2>1. UNCHANGED runVars
      BY <1>1 DEF OrderStep, ReceiptStep, InvoiceStep, IssuePo, ConfirmPo,
                  RequestCancellation, RejectCancellation, ApproveCancellation,
                  RecordReceipt, CancelReceipt, RegisterInvoice
    <2> QED
      BY <1>1, <2>1, MatchStepKeepsPaid DEF KeepsDecisions, runVars
  <1>2. CASE RunStep
    <2>1. ASSUME NEW r \in Run, NEW u \in User, NEW S \in SUBSET Invoice, CreateRun(u, r, S)
          PROVE  KeepsDecisions
      <3>1. /\ invStatus' = invStatus /\ runStatus[r] = "none"
            /\ \A q \in Run \ {r} : line'[q] = line[q]
        BY <2>1 DEF CreateRun, invoiceVars, IInv, TypeOK
      <3> QED
        BY <3>1 DEF KeepsDecisions, IInv, PaymentInv, NoLineBeforeRun
    <2>2. ASSUME NEW r \in Run, NEW i \in Invoice,
                 NEW verdict \in {"paid", "dishonored", "rejected"}, Reconcile(r, i, verdict)
          PROVE  KeepsDecisions
      <3>1. /\ runStatus[r] = "executed" /\ line[r][i] = "planned"
            /\ \A q \in Run, j \in Invoice : (q = r /\ j = i) \/ line'[q][j] = line[q][j]
        BY <2>2 DEF Reconcile, Reconcilable, IsLastLine, IInv, TypeOK
      <3>2. \A j \in Invoice : invStatus'[j] \in {invStatus[j], "paid"}
        BY <2>2 DEF Reconcile, Reconcilable, SettlePaidInvoice, CommitmentLeft, IInv, TypeOK
      <3> QED
        BY <3>1, <3>2 DEF KeepsDecisions
    <2>3. CASE \/ \E u \in User : CommitVoid(u)
               \/ \E r \in Run : \/ ExecuteRun(r)
                                 \/ \E u \in User : ApproveRun(u, r) \/ BeginVoid(u, r)
      <3>1. UNCHANGED <<line, invStatus>>
        BY <2>3 DEF CommitVoid, StillVoidable, ExecuteRun, ApproveRun, MayApprove, BeginVoid,
                    invoiceVars, runVars
      <3> QED
        BY <3>1 DEF KeepsDecisions
    <2> QED
      BY <1>2, <2>1, <2>2, <2>3 DEF RunStep
  <1> QED
    BY <1>1, <1>2 DEF Next

\* A decided line and a paid invoice are final (reconcile's conditional update).
THEOREM DecisionsAreFinal == Spec => DecidedStaysDecided
  <1>1. IInv /\ [Next]_vars => [KeepsDecisions]_vars
    BY StepKeepsDecisions
  <1> QED
    BY <1>1, InductiveInvariant, PTL DEF Spec, DecidedStaysDecided
-----------------------------------------------------------------------------
(* The tolerance of the match. *)

\* An invoice that fits, within tolerance, what others leave of a capacity keeps
\* the whole within one tolerance of the whole capacity: allowing 5% on every
\* remainder never adds up to more than 5% of the total (exceedsCapacity against
\* allocatedValueForPo).
THEOREM ToleranceDoesNotAccumulate ==
  ASSUME NEW allocated \in Nat, NEW total \in Nat, NEW capacity \in Nat,
         ~ExceedsCapacity(total, capacity - allocated)
  PROVE  ~ExceedsCapacity(allocated + total, capacity)
  <1> DEFINE k     == 2 * MatchToleranceBps + 1
             rest  == capacity - allocated
             part  == IF rest > 1 THEN rest ELSE 1
             whole == IF capacity > 1 THEN capacity ELSE 1
  <1>1. k \in Nat /\ rest \in Int /\ part \in Nat /\ whole \in Nat /\ part <= whole
    BY ToleranceAssumption
  <1>2. \A x, y, z \in Nat : y <= z => x * y <= x * z /\ x * y \in Nat /\ x * z \in Nat
    OBVIOUS
  <1>3. k * part <= k * whole /\ k * part \in Nat /\ k * whole \in Nat
    BY <1>1, <1>2
  <1>4. allocated + total - capacity = total - rest
    BY DEF rest
  <1>5. CASE total <= rest
    BY <1>5 DEF ExceedsCapacity
  <1>6. CASE total > rest
    <2>1. ~BeyondTolerance(total - rest, part)
      BY <1>6 DEF ExceedsCapacity
    <2> HIDE DEF k, rest, part, whole
    <2>2. ~(20000 * (total - rest) >= k * part)
      BY <2>1 DEF BeyondTolerance, k
    <2>3. ~(20000 * (total - rest) >= k * whole)
      BY <1>1, <1>3, <2>2
    <2>4. ~BeyondTolerance(allocated + total - capacity, whole)
      BY <1>4, <2>3 DEF BeyondTolerance, k
    <2> QED
      BY <2>4 DEF ExceedsCapacity, whole
  <1> QED
    BY <1>1, <1>5, <1>6

\* What stays within a capacity still does when it shrinks or the capacity grows.
LEMMA SmallerFits ==
  ASSUME NEW total \in Nat, NEW smaller \in Nat, smaller <= total,
         NEW capacity \in Nat, NEW larger \in Nat, capacity <= larger,
         ~ExceedsCapacity(total, capacity)
  PROVE  ~ExceedsCapacity(smaller, larger)
  <1> DEFINE k    == 2 * MatchToleranceBps + 1
             less == IF capacity > 1 THEN capacity ELSE 1
             more == IF larger > 1 THEN larger ELSE 1
  <1>1. k \in Nat /\ less \in Nat /\ more \in Nat /\ less <= more
    BY ToleranceAssumption
  <1>2. \A x, y, z \in Nat : y <= z => x * y <= x * z /\ x * y \in Nat /\ x * z \in Nat
    OBVIOUS
  <1>3. k * less <= k * more /\ k * less \in Nat /\ k * more \in Nat
    BY <1>1, <1>2
  <1> SUFFICES ASSUME smaller > larger
               PROVE  ~BeyondTolerance(smaller - larger, more)
    BY DEF ExceedsCapacity
  <1>4. ~BeyondTolerance(total - capacity, less)
    BY DEF ExceedsCapacity
  <1> HIDE DEF k, less, more
  <1>5. ~(20000 * (total - capacity) >= k * less)
    BY <1>4 DEF BeyondTolerance, k
  <1>6. ~(20000 * (smaller - larger) >= k * more)
    BY <1>3, <1>5
  <1> QED
    BY <1>6 DEF BeyondTolerance, k
-----------------------------------------------------------------------------
(* What the match lets an order bill. *)

Reserved(p) == {i \in InvoicesOf(p) : invStatus[i] \in {"matched", "paid"}}

Fits(p, invoices, received) ==
  /\ ~ExceedsCapacity(ValueOf(invoices), PoTotal(p))
  /\ ~ExceedsCapacity(ValueOf(invoices), received)

Covered(p) == Fits(p, Reserved(p), ValueReceived(p, Recorded(p)))

NoneWaits(p) ==
  \A i \in InvoicesOf(p) : invStatus[i] = "received" => ValueReceived(p, Recorded(p)) = 0

\* The two invariants of the match, order by order.
LEMMA MatchInvByOrder ==
  /\ ReservedWithinCover <=> \A p \in PO : Covered(p)
  /\ WaitingMeansNoGoods <=> \A p \in PO : NoneWaits(p)
  BY InvoiceDocAssumption DEF ReservedWithinCover, WaitingMeansNoGoods, Covered, Fits, Reserved,
                              NoneWaits, InvoicesOf

LEMMA NothingFits ==
  ASSUME NEW p \in PO, NEW received \in Nat
  PROVE  Fits(p, {}, received)
  <1>1. ValueOf({}) = 0
    BY ValueFacts
  <1>2. \A c \in Nat : ~ExceedsCapacity(0, c)
    BY DEF ExceedsCapacity
  <1> QED
    BY <1>1, <1>2, PoTotalNat DEF Fits

\* Fewer invoices fit at least the same goods.
LEMMA FewerFit ==
  ASSUME NEW p \in PO, NEW S \in SUBSET Invoice, NEW T \in SUBSET S,
         NEW received \in Nat, NEW more \in Nat, received <= more, Fits(p, S, received)
  PROVE  Fits(p, T, more)
  <1>1. ValueOf(S) \in Nat /\ ValueOf(T) <= ValueOf(S)
    BY ValueFacts
  <1>2. T \in SUBSET Invoice
    OBVIOUS
  <1>3. ValueOf(T) \in Nat
    BY <1>2, ValueFacts
  <1>4. PoTotal(p) \in Nat /\ PoTotal(p) <= PoTotal(p)
    BY PoTotalNat
  <1> QED
    BY <1>1, <1>3, <1>4, SmallerFits DEF Fits

\* An invoice that matches against what others hold fits together with them.
LEMMA MatchedFits ==
  ASSUME NEW i \in Invoice, NEW others \in SUBSET Invoice, i \notin others,
         NEW live \in BOOLEAN, NEW received \in Nat,
         MatchAgainstPo(i, live, received, ValueOf(others)) = "matched"
  PROVE  Fits(InvoiceDoc[i].po, others \cup {i}, received)
  <1> DEFINE p == InvoiceDoc[i].po
  <1>1. p \in PO /\ AmountOf(i) \in Nat
    BY InvoiceDocAssumption DEF AmountOf
  <1>2. PoTotal(p) \in Nat
    BY <1>1, PoTotalNat
  <1>3. ValueOf(others) \in Nat /\ ValueOf(others \cup {i}) = AmountOf(i) + ValueOf(others)
    BY ValueFacts
  <1>4. /\ ~ExceedsCapacity(AmountOf(i), received - ValueOf(others))
        /\ ~ExceedsCapacity(AmountOf(i), PoTotal(p) - ValueOf(others))
    BY DEF MatchAgainstPo
  <1>5. /\ ~ExceedsCapacity(ValueOf(others) + AmountOf(i), received)
        /\ ~ExceedsCapacity(ValueOf(others) + AmountOf(i), PoTotal(p))
    BY <1>1, <1>2, <1>3, <1>4, ToleranceDoesNotAccumulate
  <1>6. ValueOf(others \cup {i}) = ValueOf(others) + AmountOf(i)
    BY <1>1, <1>3
  <1> QED
    BY <1>5, <1>6 DEF Fits

\* Among any invoices there is one that was received last.
LEMMA LatestInvoice ==
  ASSUME NEW M \in SUBSET Invoice, M # {}
  PROVE  \E m \in M : \A x \in M : InvoiceDoc[x].receivedAt <= InvoiceDoc[m].receivedAt
  <1> DEFINE at(x) == InvoiceDoc[x].receivedAt
             Good  == {T \in SUBSET M : T = {} \/ \E m \in T : \A x \in T : at(x) <= at(m)}
  <1>1. IsFiniteSet(M) /\ \A x \in M : at(x) \in Nat
    BY FinitenessAssumption, FS_Subset, InvoiceDocAssumption
  <1> HIDE DEF at
  <1>2. {} \in Good
    OBVIOUS
  <1>3. ASSUME NEW T \in SUBSET M, NEW x \in M \ T, T \in Good
        PROVE  T \cup {x} \in Good
    <2>1. CASE T = {}
      BY <1>1, <2>1
    <2>2. CASE \E m \in T : \A y \in T : at(y) <= at(m)
      <3>1. PICK m \in T : \A y \in T : at(y) <= at(m)
        BY <2>2
      <3>2. CASE at(x) <= at(m)
        BY <3>1, <3>2
      <3>3. CASE at(m) <= at(x)
        <4>1. \A y \in T : at(y) <= at(x)
          BY <1>1, <3>1, <3>3
        <4> QED
          BY <1>1, <4>1
      <3> QED
        BY <1>1, <3>2, <3>3
    <2> QED
      BY <1>3, <2>1, <2>2
  <1>4. M \in Good
    <2> HIDE DEF Good
    <2> QED
      BY <1>1, <1>2, <1>3, FiniteInduction
  <1> QED
    BY <1>4 DEF at

\* What an outcome of a batch says about the invoices and the goods.
LEMMA JudgedFits ==
  ASSUME NEW p \in PO, NEW batch \in SUBSET InvoicesOf(p), NEW judged,
         NEW live \in BOOLEAN, NEW received \in Nat,
         JudgedInOrder(batch, judged, live, received), NEW i \in batch
  PROVE  /\ judged[i] = "awaiting_receipt" => received = 0
         /\ judged[i] = "matched" =>
              \A S \in SUBSET (Holders(i, batch, judged) \cup {i}) : Fits(p, S, received)
  <1> DEFINE others == Holders(i, batch, judged)
  <1>1. i \in Invoice /\ InvoiceDoc[i].po = p
    BY DEF InvoicesOf
  <1>2. others \in SUBSET Invoice /\ i \notin others
    BY DEF Holders, InvoicesOf
  <1>3. judged[i] = MatchAgainstPo(i, live, received, ValueOf(others))
    BY DEF JudgedInOrder
  <1> HIDE DEF others
  <1>4. judged[i] = "awaiting_receipt" => received = 0
    BY <1>3 DEF MatchAgainstPo
  <1>5. ASSUME judged[i] = "matched", NEW S \in SUBSET (others \cup {i})
        PROVE  Fits(p, S, received)
    <2>1. Fits(p, others \cup {i}, received)
      BY <1>1, <1>2, <1>3, <1>5, MatchedFits
    <2>2. others \cup {i} \in SUBSET Invoice
      BY <1>1, <1>2
    <2> QED
      BY <2>1, <2>2, FewerFit
  <1> QED
    BY <1>4, <1>5 DEF others

\* The status that a stored outcome stands for.
LEMMA StoredStatus ==
  ASSUME NEW batch \in SUBSET Invoice, NEW judged \in [batch -> MatchOutcomes],
         StoreMatches(batch, judged)
  PROVE  /\ \A i \in Invoice \ batch : invStatus'[i] = invStatus[i]
         /\ \A i \in batch : /\ invStatus'[i] \in {"matched", "received", "exception"}
                             /\ invStatus'[i] = "matched" => judged[i] = "matched"
                             /\ invStatus'[i] = "received" => judged[i] = "awaiting_receipt"
  <1>1. \A i \in batch : invStatus'[i] = StatusFor(judged[i])
    BY DEF StoreMatches
  <1> QED
    BY <1>1 DEF StoreMatches, StatusFor

\* A step about one order leaves the invariants of the other orders alone.
LEMMA OtherOrders ==
  ASSUME NEW p \in PO, \A q \in PO : Covered(q) /\ NoneWaits(q),
         \A i \in Invoice \ InvoicesOf(p) : invStatus'[i] = invStatus[i],
         \A c \in Receipt : ReceiptDoc[c].po # p => receiptStatus'[c] = receiptStatus[c],
         Fits(p, Reserved(p)', ValueReceived(p, Recorded(p)')),
         \A i \in InvoicesOf(p) : invStatus'[i] = "received" => ValueReceived(p, Recorded(p)') = 0
  PROVE  \A q \in PO : Covered(q)' /\ NoneWaits(q)'
  <1>1. Covered(p)' /\ NoneWaits(p)'
    BY DEF Covered, NoneWaits
  <1>2. ASSUME NEW q \in PO \ {p}
        PROVE  Covered(q)' /\ NoneWaits(q)'
    <2>1. \A i \in InvoicesOf(q) : invStatus'[i] = invStatus[i]
      BY DEF InvoicesOf
    <2>2. Reserved(q)' = Reserved(q)
      BY <2>1 DEF Reserved
    <2>3. Recorded(q)' = Recorded(q)
      BY DEF Recorded
    <2>4. Covered(q)'
      BY <2>2, <2>3 DEF Covered
    <2>5. NoneWaits(q)'
      BY <2>1, <2>3 DEF NoneWaits
    <2> QED
      BY <2>4, <2>5
  <1> QED
    BY <1>1, <1>2

MatchInv == \A p \in PO : Covered(p) /\ NoneWaits(p)

LEMMA RegisterKeepsCover ==
  ASSUME TypeOK, MatchInv, NEW i \in Invoice, RegisterInvoice(i)
  PROVE  MatchInv'
  <1> DEFINE p     == InvoiceDoc[i].po
             value == ValueReceived(p, Recorded(p))
             live  == IsLive(p)
  <1>1. PICK judged \in [{i} -> MatchOutcomes] :
          JudgedInOrder({i}, judged, live, value) /\ StoreMatches({i}, judged)
    BY DEF RegisterInvoice
  <1>2. /\ p \in PO /\ {i} \in SUBSET InvoicesOf(p) /\ {i} \in SUBSET Invoice
        /\ live \in BOOLEAN /\ value \in Nat
    BY InvoiceDocAssumption, ReceivedFacts DEF InvoicesOf, IsLive, Recorded
  <1>3. receiptStatus' = receiptStatus /\ invStatus[i] = "none"
    BY DEF RegisterInvoice, receiptVars
  <1>4. Recorded(p)' = Recorded(p)
    BY <1>3 DEF Recorded
  <1> HIDE DEF p, value, live
  <1>5. /\ judged[i] = "awaiting_receipt" => value = 0
        /\ judged[i] = "matched" =>
             \A S \in SUBSET (Holders(i, {i}, judged) \cup {i}) : Fits(p, S, value)
    BY <1>1, <1>2, JudgedFits
  <1>6. /\ \A j \in Invoice \ {i} : invStatus'[j] = invStatus[j]
        /\ invStatus'[i] \in {"matched", "received", "exception"}
        /\ invStatus'[i] = "matched" => judged[i] = "matched"
        /\ invStatus'[i] = "received" => judged[i] = "awaiting_receipt"
    BY <1>1, <1>2, StoredStatus
  <1>7. Holders(i, {i}, judged) = Reserved(p)
    BY <1>3 DEF Holders, Reserved, InvoicesOf, p
  <1>8. Fits(p, Reserved(p)', value)
    <2>1. CASE invStatus'[i] = "matched"
      <3>1. Reserved(p)' \in SUBSET (Reserved(p) \cup {i})
        BY <1>2, <1>6 DEF Reserved, InvoicesOf
      <3> QED
        BY <1>5, <1>6, <1>7, <2>1, <3>1
    <2>2. CASE invStatus'[i] # "matched"
      <3>1. Reserved(p)' = Reserved(p)
        BY <1>2, <1>3, <1>6, <2>2 DEF Reserved, InvoicesOf
      <3>2. Fits(p, Reserved(p), value)
        BY <1>2 DEF MatchInv, Covered, value
      <3> QED
        BY <3>1, <3>2
    <2> QED
      BY <2>1, <2>2
  <1>9. ASSUME NEW j \in InvoicesOf(p), invStatus'[j] = "received"
        PROVE  value = 0
    <2>1. CASE j = i
      BY <1>5, <1>6, <1>9, <2>1
    <2>2. CASE j # i
      BY <1>2, <1>6, <1>9, <2>2 DEF MatchInv, NoneWaits, InvoicesOf, value
    <2> QED
      BY <2>1, <2>2
  <1>10. ValueReceived(p, Recorded(p)') = value
    BY <1>4 DEF value
  <1>11. \A j \in Invoice \ InvoicesOf(p) : invStatus'[j] = invStatus[j]
    BY <1>2, <1>6
  <1> QED
    BY <1>2, <1>3, <1>8, <1>9, <1>10, <1>11, OtherOrders DEF MatchInv

LEMMA RecordKeepsCover ==
  ASSUME TypeOK, MatchInv, NEW c \in Receipt, RecordReceipt(c)
  PROVE  MatchInv'
  <1> DEFINE p     == ReceiptDoc[c].po
             now   == Recorded(p) \cup {c}
             value == ValueReceived(p, now)
             batch == OpenForRematch(p)
  <1>1. PICK judged \in [batch -> MatchOutcomes] :
          JudgedInOrder(batch, judged, TRUE, value) /\ StoreMatches(batch, judged)
    BY DEF RecordReceipt
  <1>2. receiptStatus' = [receiptStatus EXCEPT ![c] = "recorded"]
    BY DEF RecordReceipt
  <1>3. p \in PO /\ now \in SUBSET Receipt /\ Recorded(p)' = now
    BY <1>2, ReceiptDocAssumption DEF Recorded, TypeOK
  <1>4. value \in Nat /\ ValueReceived(p, Recorded(p)) <= value
    <2>1. Recorded(p) \in SUBSET now
      OBVIOUS
    <2> HIDE DEF now, p
    <2> QED
      BY <1>3, <2>1, ReceivedFacts
  <1>5. batch \in SUBSET InvoicesOf(p) /\ InvoicesOf(p) \in SUBSET Invoice
    BY DEF OpenForRematch, InvoicesOf
  <1>6. /\ \A j \in batch : invStatus[j] \in {"received", "exception"}
        /\ \A j \in InvoicesOf(p) : invStatus[j] = "received" => j \in batch
    BY DEF OpenForRematch
  <1>7. \A c2 \in Receipt : ReceiptDoc[c2].po # p => receiptStatus'[c2] = receiptStatus[c2]
    BY <1>2 DEF TypeOK
  <1> HIDE DEF p, now, value, batch
  <1>8. \A i \in batch :
          /\ judged[i] = "awaiting_receipt" => value = 0
          /\ judged[i] = "matched" =>
               \A S \in SUBSET (Holders(i, batch, judged) \cup {i}) : Fits(p, S, value)
    BY <1>1, <1>3, <1>4, <1>5, JudgedFits
  <1>9. /\ \A i \in Invoice \ batch : invStatus'[i] = invStatus[i]
        /\ \A i \in batch : /\ invStatus'[i] \in {"matched", "received", "exception"}
                            /\ invStatus'[i] = "matched" => judged[i] = "matched"
                            /\ invStatus'[i] = "received" => judged[i] = "awaiting_receipt"
    BY <1>1, <1>5, StoredStatus
  <1> DEFINE new == {i \in batch : invStatus'[i] = "matched"}
  <1>10. Reserved(p)' = Reserved(p) \cup new
    BY <1>5, <1>6, <1>9 DEF Reserved
  <1>11. Fits(p, Reserved(p)', value)
    <2>1. CASE new = {}
      <3>1. Reserved(p)' = Reserved(p)
        BY <1>10, <2>1
      <3>2. Fits(p, Reserved(p), ValueReceived(p, Recorded(p)))
        BY <1>3 DEF MatchInv, Covered
      <3>3. Reserved(p) \in SUBSET Invoice /\ ValueReceived(p, Recorded(p)) \in Nat
        BY <1>3, ReceivedFacts DEF Reserved, InvoicesOf, Recorded
      <3>4. Fits(p, Reserved(p), value)
        BY <1>3, <1>4, <3>2, <3>3, FewerFit
      <3> QED
        BY <3>1, <3>4
    <2>2. CASE new # {}
      <3>1. PICK m \in new : \A x \in new : InvoiceDoc[x].receivedAt <= InvoiceDoc[m].receivedAt
        <4>1. new \in SUBSET Invoice
          BY <1>5
        <4> HIDE DEF new
        <4> QED
          BY <2>2, <4>1, LatestInvoice
      <3>2. ASSUME NEW x \in new \ {m}
            PROVE  x \in Holders(m, batch, judged)
        <4>1. x \in Invoice /\ m \in Invoice /\ x \in batch /\ m \in batch
              /\ x \in InvoicesOf(p) /\ InvoiceDoc[m].po = p /\ judged[x] = "matched"
          BY <1>5, <1>9, <3>2 DEF InvoicesOf
        <4>2. InvoiceDoc[x].receivedAt < InvoiceDoc[m].receivedAt
          BY <3>1, <3>2, <4>1, ArrivalAssumption, InvoiceDocAssumption
        <4> QED
          BY <3>2, <4>1, <4>2 DEF Holders
      <3>3. ASSUME NEW x \in Reserved(p)
            PROVE  x \in Holders(m, batch, judged)
        <4>1. x \notin batch /\ InvoiceDoc[m].po = p /\ m \in batch
          BY <1>5, <1>6, <3>3 DEF Reserved, InvoicesOf
        <4> QED
          BY <3>3, <4>1 DEF Holders, Reserved
      <3>4. Reserved(p)' \in SUBSET (Holders(m, batch, judged) \cup {m})
        BY <1>10, <3>2, <3>3
      <3> QED
        BY <1>8, <1>9, <3>1, <3>4
    <2> QED
      BY <2>1, <2>2
  <1>12. ASSUME NEW j \in InvoicesOf(p), invStatus'[j] = "received"
         PROVE  value = 0
    <2>1. j \in batch
      BY <1>5, <1>6, <1>9, <1>12
    <2> QED
      BY <1>8, <1>9, <1>12, <2>1
  <1>13. ValueReceived(p, Recorded(p)') = value
    BY <1>3 DEF value
  <1>14. \A j \in Invoice \ InvoicesOf(p) : invStatus'[j] = invStatus[j]
    BY <1>5, <1>9
  <1> QED
    BY <1>3, <1>7, <1>11, <1>12, <1>13, <1>14, OtherOrders DEF MatchInv

\* Matched invoices that are judged again hold no more than before, and what the
\* correction allows has none that is paid.
LEMMA CorrectionKeepsCover ==
  ASSUME TypeOK, MatchInv, NEW p \in PO, NEW now \in SUBSET Recorded(p), NEW live \in BOOLEAN,
         CorrectionAllowed(p), NEW judged \in [MatchedOf(p) -> MatchOutcomes],
         JudgedInOrder(MatchedOf(p), judged, live, ValueReceived(p, now)),
         StoreMatches(MatchedOf(p), judged),
         Recorded(p)' = now,
         \A c \in Receipt : ReceiptDoc[c].po # p => receiptStatus'[c] = receiptStatus[c]
  PROVE  MatchInv'
  <1> DEFINE value == ValueReceived(p, now)
             batch == MatchedOf(p)
  <1>1. value \in Nat /\ value <= ValueReceived(p, Recorded(p))
    <2>1. Recorded(p) \in SUBSET Receipt
      BY DEF Recorded
    <2>2. now \in SUBSET Receipt
      BY <2>1
    <2> QED
      BY <2>1, <2>2, ReceivedFacts
  <1>2. /\ batch \in SUBSET InvoicesOf(p) /\ InvoicesOf(p) \in SUBSET Invoice
        /\ \A j \in batch : invStatus[j] = "matched"
        /\ \A j \in InvoicesOf(p) \ batch : invStatus[j] \notin {"matched", "paid"}
    BY DEF MatchedOf, InvoicesOf, CorrectionAllowed
  <1>3. JudgedInOrder(batch, judged, live, value)
    OBVIOUS
  <1>4. /\ \A i \in Invoice \ batch : invStatus'[i] = invStatus[i]
        /\ \A i \in batch : /\ invStatus'[i] \in {"matched", "received", "exception"}
                            /\ invStatus'[i] = "matched" => judged[i] = "matched"
                            /\ invStatus'[i] = "received" => judged[i] = "awaiting_receipt"
    BY <1>2, StoredStatus
  <1> HIDE DEF value, batch
  <1>5. \A i \in batch :
          /\ judged[i] = "awaiting_receipt" => value = 0
          /\ judged[i] = "matched" =>
               \A S \in SUBSET (Holders(i, batch, judged) \cup {i}) : Fits(p, S, value)
    BY <1>1, <1>2, <1>3, JudgedFits
  <1>6. Reserved(p)' = {i \in batch : invStatus'[i] = "matched"}
    BY <1>2, <1>4 DEF Reserved
  <1>7. Fits(p, Reserved(p)', value)
    <2>1. CASE Reserved(p)' = {}
      BY <1>1, <2>1, NothingFits
    <2>2. CASE Reserved(p)' # {}
      <3>1. PICK m \in batch : invStatus'[m] = "matched"
        BY <1>6, <2>2
      <3>2. ASSUME NEW x \in Reserved(p)' \ {m}
            PROVE  x \in Holders(m, batch, judged)
        <4>1. /\ x \in InvoicesOf(InvoiceDoc[m].po) \ {m} /\ invStatus[x] = "matched"
              /\ judged[x] = "matched"
          BY <1>2, <1>4, <1>6, <3>2 DEF InvoicesOf
        <4> QED
          BY <4>1 DEF Holders
      <3>3. Reserved(p)' \in SUBSET (Holders(m, batch, judged) \cup {m})
        BY <3>2
      <3> QED
        BY <1>4, <1>5, <3>1, <3>3
    <2> QED
      BY <2>1, <2>2
  <1>8. ASSUME NEW j \in InvoicesOf(p), invStatus'[j] = "received"
        PROVE  value = 0
    <2>1. CASE j \in batch
      BY <1>4, <1>5, <1>8, <2>1
    <2>2. CASE j \notin batch
      <3>1. ValueReceived(p, Recorded(p)) = 0
        BY <1>2, <1>4, <1>8, <2>2 DEF MatchInv, NoneWaits
      <3> QED
        BY <1>1, <3>1
    <2> QED
      BY <2>1, <2>2
  <1>9. ValueReceived(p, Recorded(p)') = value
    BY DEF value
  <1>10. \A j \in Invoice \ InvoicesOf(p) : invStatus'[j] = invStatus[j]
    BY <1>2, <1>4
  <1> QED
    BY <1>7, <1>8, <1>9, <1>10, OtherOrders DEF MatchInv

LEMMA CancelKeepsCover ==
  ASSUME TypeOK, MatchInv, NEW c \in Receipt, CancelReceipt(c)
  PROVE  MatchInv'
  <1> DEFINE p   == ReceiptDoc[c].po
             now == Recorded(p) \ {c}
  <1>1. PICK judged \in [MatchedOf(p) -> MatchOutcomes] :
          /\ JudgedInOrder(MatchedOf(p), judged, IsLive(p), ValueReceived(p, now))
          /\ StoreMatches(MatchedOf(p), judged)
    BY DEF CancelReceipt
  <1>2. CorrectionAllowed(p) /\ receiptStatus' = [receiptStatus EXCEPT ![c] = "cancelled"]
    BY DEF CancelReceipt
  <1>3. p \in PO /\ now \in SUBSET Recorded(p) /\ Recorded(p)' = now /\ IsLive(p) \in BOOLEAN
    BY <1>2, ReceiptDocAssumption DEF Recorded, TypeOK, IsLive
  <1>4. \A c2 \in Receipt : ReceiptDoc[c2].po # p => receiptStatus'[c2] = receiptStatus[c2]
    BY <1>2 DEF TypeOK
  <1> HIDE DEF p, now
  <1> QED
    BY <1>1, <1>2, <1>3, <1>4, CorrectionKeepsCover

LEMMA ApproveCancellationKeepsCover ==
  ASSUME TypeOK, MatchInv, NEW p \in PO, NEW u \in User, ApproveCancellation(u, p)
  PROVE  MatchInv'
  <1>1. PICK judged \in [MatchedOf(p) -> MatchOutcomes] :
          /\ JudgedInOrder(MatchedOf(p), judged, FALSE, ValueReceived(p, {}))
          /\ StoreMatches(MatchedOf(p), judged)
    BY DEF ApproveCancellation
  <1>2. CorrectionAllowed(p) /\ Recorded(p) = {} /\ receiptStatus' = receiptStatus
    BY DEF ApproveCancellation, receiptVars
  <1>3. Recorded(p)' = {} /\ {} \in SUBSET Recorded(p)
    BY <1>2 DEF Recorded
  <1> QED
    BY <1>1, <1>2, <1>3, CorrectionKeepsCover

\* Steps that change no receipt and neither the holders of a value nor who waits.
LEMMA QuietMatch ==
  ASSUME MatchInv, receiptStatus' = receiptStatus,
         \A i \in Invoice : /\ invStatus'[i] \in {"matched", "paid"} <=> invStatus[i] \in {"matched", "paid"}
                            /\ invStatus'[i] = "received" => invStatus[i] = "received"
  PROVE  MatchInv'
  <1> SUFFICES ASSUME NEW p \in PO
               PROVE  Covered(p)' /\ NoneWaits(p)'
    BY DEF MatchInv
  <1>1. Reserved(p)' = Reserved(p) /\ Recorded(p)' = Recorded(p)
    BY DEF Reserved, Recorded, InvoicesOf
  <1>2. Covered(p)'
    BY <1>1 DEF MatchInv, Covered
  <1>3. NoneWaits(p)'
    BY <1>1 DEF MatchInv, NoneWaits, InvoicesOf
  <1> QED
    BY <1>2, <1>3

LEMMA NextMatchInv == IInv /\ MatchInv /\ [Next]_vars => MatchInv'
  <1> SUFFICES ASSUME IInv, MatchInv, [Next]_vars
               PROVE  MatchInv'
    OBVIOUS
  <1>1. CASE ReceiptStep \/ InvoiceStep
    BY <1>1, RegisterKeepsCover, RecordKeepsCover, CancelKeepsCover
       DEF ReceiptStep, InvoiceStep, IInv
  <1>2. CASE OrderStep
    <2>1. CASE \E p \in PO, u \in User : ApproveCancellation(u, p)
      BY <2>1, ApproveCancellationKeepsCover DEF IInv
    <2>2. CASE ~ \E p \in PO, u \in User : ApproveCancellation(u, p)
      <3>1. UNCHANGED <<receiptStatus, invStatus>>
        BY <1>2, <2>2 DEF OrderStep, IssuePo, ConfirmPo, RequestCancellation,
                          RejectCancellation, receiptVars, invoiceVars
      <3> QED
        BY <3>1, QuietMatch
    <2> QED
      BY <2>1, <2>2
  <1>3. CASE \E r \in Run, i \in Invoice, verdict \in {"paid", "dishonored", "rejected"} :
               Reconcile(r, i, verdict)
    <2>1. PICK r \in Run, i \in Invoice, verdict \in {"paid", "dishonored", "rejected"} :
            Reconcile(r, i, verdict)
      BY <1>3
    <2>2. invStatus[i] = "matched" /\ receiptStatus' = receiptStatus
      BY <2>1 DEF Reconcile, Reconcilable, LiveClaim, IInv, PaymentInv, ClaimBacked, receiptVars
    <2>3. invStatus' = invStatus \/ invStatus' = [invStatus EXCEPT ![i] = "paid"]
      BY <2>1 DEF Reconcile, SettlePaidInvoice
    <2>4. invStatus \in [Invoice -> {"none", "received", "matched", "exception", "paid"}]
      BY DEF IInv, TypeOK
    <2> QED
      BY <2>2, <2>3, <2>4, QuietMatch
  <1>4. CASE UNCHANGED vars
    <2>1. UNCHANGED <<receiptStatus, invStatus>>
      BY <1>4 DEF vars, receiptVars, invoiceVars
    <2> QED
      BY <2>1, QuietMatch
  <1>5. CASE RunStep /\ ~ \E r \in Run, i \in Invoice, verdict \in {"paid", "dishonored", "rejected"} :
                            Reconcile(r, i, verdict)
    <2>1. UNCHANGED <<receiptStatus, invStatus>>
      BY <1>5 DEF RunStep, CommitVoid, ExecuteRun, ApproveRun, BeginVoid, CreateRun, receiptVars,
                  invoiceVars
    <2> QED
      BY <2>1, QuietMatch
  <1> QED
    BY <1>1, <1>2, <1>3, <1>4, <1>5 DEF Next

LEMMA InitMatchInv == Init => MatchInv
  <1> SUFFICES ASSUME Init, NEW p \in PO
               PROVE  Covered(p) /\ NoneWaits(p)
    BY DEF MatchInv
  <1>1. Reserved(p) = {} /\ Recorded(p) \in SUBSET Receipt
    BY DEF Init, Reserved, InvoicesOf, Recorded
  <1>2. Covered(p)
    BY <1>1, ReceivedFacts, NothingFits DEF Covered
  <1>3. NoneWaits(p)
    BY DEF Init, NoneWaits, InvoicesOf
  <1> QED
    BY <1>2, <1>3

LEMMA MatchInvariant == Spec => []MatchInv
  BY InitMatchInv, NextMatchInv, InductiveInvariant, PTL DEF Spec

\* What the matched and paid invoices of an order bill together stays within one tolerance
\* of its total and of the goods received, however receipts, invoices, corrections and
\* payments interleave (allocatedValueForPo, reevaluateMatchedForPo).
THEOREM ReservedWithinCoverAlways == Spec => []ReservedWithinCover
  <1>1. MatchInv => ReservedWithinCover
    BY MatchInvByOrder DEF MatchInv
  <1> QED
    BY <1>1, MatchInvariant, PTL

\* No invoice waits for goods that are booked (rematchOpenForPo).
THEOREM WaitingMeansNoGoodsAlways == Spec => []WaitingMeansNoGoods
  <1>1. MatchInv => WaitingMeansNoGoods
    BY MatchInvByOrder DEF MatchInv
  <1> QED
    BY <1>1, MatchInvariant, PTL
-----------------------------------------------------------------------------
(* Budgets. *)

Totals == [p \in PO |-> PoTotal(p)]

PaidIn(status) == [p \in PO |-> ValueOf({i \in InvoicesOf(p) : status[i] = "paid"})]

OverpaidIn(status) ==
  [p \in PO |-> IF PaidIn(status)[p] > Totals[p] THEN PaidIn(status)[p] - Totals[p] ELSE 0]

\* What a budget has committed and spent is what its live orders cost, up to what was paid
\* beyond their totals: a commitment that is floored at zero can keep no more than that.
Accounted(b) ==
  LET live == LiveOrders(b)
      cost == Sum(Totals, live)
  IN  /\ spent[b] = Sum(PaidIn(invStatus), live)
      /\ cost <= BudgetLimit[b]
      /\ cost <= committed[b] + spent[b]
      /\ committed[b] + spent[b] <= cost + Sum(OverpaidIn(invStatus), live)

BudgetInv == \A b \in Budget : Accounted(b)

LEMMA OrdersFinite ==
  ASSUME NEW S \in SUBSET PO
  PROVE  /\ IsFiniteSet(S)
         /\ \A f \in [PO -> Nat] : (\A p \in S : f[p] \in Nat) /\ Sum(f, S) \in Nat
  <1>1. IsFiniteSet(S)
    BY FinitenessAssumption, FS_Subset
  <1>2. ASSUME NEW f \in [PO -> Nat]
        PROVE  (\A p \in S : f[p] \in Nat) /\ Sum(f, S) \in Nat
    <2>1. \A p \in S : f[p] \in Nat
      OBVIOUS
    <2> QED
      BY <1>1, <2>1, SumNat
  <1> QED
    BY <1>1, <1>2

LEMMA BudgetFunctions ==
  /\ Totals \in [PO -> Nat] /\ \A p \in PO : Totals[p] = PoTotal(p)
  /\ \A status :
       /\ PaidIn(status) \in [PO -> Nat]
       /\ OverpaidIn(status) \in [PO -> Nat]
       /\ \A p \in PO : PaidIn(status)[p] <= Totals[p] + OverpaidIn(status)[p]
  <1>1. Totals \in [PO -> Nat] /\ \A p \in PO : Totals[p] = PoTotal(p)
    BY PoTotalNat DEF Totals
  <1>2. ASSUME NEW status
        PROVE  PaidIn(status) \in [PO -> Nat]
    <2> SUFFICES ASSUME NEW p \in PO
                 PROVE  ValueOf({i \in InvoicesOf(p) : status[i] = "paid"}) \in Nat
      BY DEF PaidIn
    <2>1. {i \in InvoicesOf(p) : status[i] = "paid"} \in SUBSET Invoice
      BY DEF InvoicesOf
    <2> QED
      BY <2>1, ValueFacts
  <1>3. ASSUME NEW status
        PROVE  /\ OverpaidIn(status) \in [PO -> Nat]
               /\ \A p \in PO : PaidIn(status)[p] <= Totals[p] + OverpaidIn(status)[p]
    <2>1. PaidIn(status) \in [PO -> Nat]
      BY <1>2
    <2> QED
      BY <1>1, <2>1 DEF OverpaidIn
  <1> QED
    BY <1>1, <1>2, <1>3

\* As long as no invoice becomes paid, nothing is paid for an order that was not before.
LEMMA NothingPaid ==
  ASSUME NEW before, NEW after, \A i \in Invoice : after[i] = "paid" <=> before[i] = "paid"
  PROVE  PaidIn(after) = PaidIn(before) /\ OverpaidIn(after) = OverpaidIn(before)
  <1>1. \A p \in PO : {i \in InvoicesOf(p) : after[i] = "paid"}
                     = {i \in InvoicesOf(p) : before[i] = "paid"}
    BY DEF InvoicesOf
  <1>2. PaidIn(after) = PaidIn(before)
    BY <1>1 DEF PaidIn
  <1> QED
    BY <1>2 DEF OverpaidIn

\* Nothing is paid for an order without paid invoices.
LEMMA UnpaidOrder ==
  ASSUME NEW status, NEW p \in PO, \A i \in InvoicesOf(p) : status[i] # "paid"
  PROVE  PaidIn(status)[p] = 0 /\ OverpaidIn(status)[p] = 0
  <1>1. {i \in InvoicesOf(p) : status[i] = "paid"} = {}
    OBVIOUS
  <1>2. ValueOf({}) = 0
    BY ValueFacts
  <1>3. PaidIn(status)[p] = 0
    BY <1>1, <1>2 DEF PaidIn
  <1> QED
    BY <1>3, BudgetFunctions DEF OverpaidIn

\* Steps that move no money and leave the same orders live.
LEMMA QuietBudget ==
  ASSUME BudgetInv, UNCHANGED budgetVars,
         \A p \in PO : IsLive(p)' <=> IsLive(p),
         \A i \in Invoice : invStatus'[i] = "paid" <=> invStatus[i] = "paid"
  PROVE  BudgetInv'
  <1>1. /\ PaidIn(invStatus') = PaidIn(invStatus)
        /\ OverpaidIn(invStatus') = OverpaidIn(invStatus)
    BY NothingPaid
  <1>2. \A b \in Budget : LiveOrders(b)' = LiveOrders(b)
    BY DEF LiveOrders
  <1> SUFFICES ASSUME NEW b \in Budget
               PROVE  Accounted(b)'
    BY DEF BudgetInv
  <1>3. LiveOrders(b)' = LiveOrders(b) /\ committed' = committed /\ spent' = spent
    BY <1>2 DEF budgetVars
  <1> QED
    BY <1>1, <1>3 DEF BudgetInv, Accounted

LEMMA IssueKeepsBudget ==
  ASSUME IInv, BudgetInv, NEW p \in PO, IssuePo(p)
  PROVE  BudgetInv'
  <1> DEFINE b == BudgetOf(p)
             S == LiveOrders(b)
  <1>1. b \in Budget /\ S \in SUBSET PO /\ p \notin S
    BY BudgetAssumption DEF BudgetOf, LiveOrders, IsLive, IssuePo
  <1>2. /\ committed[b] \in Nat /\ spent[b] \in Nat /\ BudgetLimit[b] \in Nat
        /\ committed[b] + spent[b] + PoTotal(p) <= BudgetLimit[b]
        /\ committed' = [committed EXCEPT ![b] = @ + PoTotal(p)]
        /\ committed'[b] = committed[b] + PoTotal(p)
        /\ spent' = spent /\ invStatus' = invStatus
    BY <1>1, BudgetAssumption DEF IssuePo, HasRoom, IInv, TypeOK, invoiceVars
  <1>3. \A q \in PO : IsLive(q)' <=> IsLive(q) \/ q = p
    BY DEF IssuePo, IsLive, IInv, TypeOK
  <1>4. LiveOrders(b)' = S \cup {p} /\ \A c \in Budget \ {b} : LiveOrders(c)' = LiveOrders(c)
    BY <1>3 DEF LiveOrders
  <1>5. \A i \in InvoicesOf(p) : invStatus[i] # "paid"
    <2>1. ~IsLive(p)
      BY DEF IssuePo, IsLive
    <2> QED
      BY <2>1 DEF InvoicesOf, IInv, PaymentInv, NoPaymentOfCancelledOrder
  <1> HIDE DEF b, S
  <1>6. ASSUME NEW c \in Budget \ {b}
        PROVE  Accounted(c)'
    <2>1. committed'[c] = committed[c] /\ spent'[c] = spent[c] /\ LiveOrders(c)' = LiveOrders(c)
      BY <1>1, <1>2, <1>4 DEF IInv, TypeOK
    <2> QED
      BY <1>2, <2>1 DEF BudgetInv, Accounted
  <1>7. Accounted(b)'
    <2> DEFINE paid == PaidIn(invStatus)
               over == OverpaidIn(invStatus)
    <2>1. /\ Totals \in [PO -> Nat] /\ paid \in [PO -> Nat] /\ over \in [PO -> Nat]
          /\ Totals[p] = PoTotal(p) /\ paid[p] = 0 /\ over[p] = 0
      BY <1>5, BudgetFunctions, UnpaidOrder
    <2>2. /\ spent[b] = Sum(paid, S)
          /\ Sum(Totals, S) <= committed[b] + spent[b]
          /\ committed[b] + spent[b] <= Sum(Totals, S) + Sum(over, S)
      BY <1>1 DEF BudgetInv, Accounted, S
    <2> HIDE DEF paid, over
    <2>3. /\ IsFiniteSet(S)
          /\ \A f \in [PO -> Nat] : (\A q \in S : f[q] \in Nat) /\ Sum(f, S) \in Nat
      BY <1>1, OrdersFinite
    <2>4. \A f \in [PO -> Nat] : Sum(f, S \cup {p}) = f[p] + Sum(f, S)
      BY <1>1, <2>3, SumAdd
    <2>5. /\ Sum(Totals, S \cup {p}) = PoTotal(p) + Sum(Totals, S)
          /\ Sum(paid, S \cup {p}) = 0 + Sum(paid, S)
          /\ Sum(over, S \cup {p}) = 0 + Sum(over, S)
      BY <2>1, <2>4
    <2>6. Sum(Totals, S) \in Nat /\ Sum(paid, S) \in Nat /\ Sum(over, S) \in Nat
      BY <2>1, <2>3
    <2>7. PoTotal(p) \in Nat
      BY PoTotalNat
    <2>8. /\ spent'[b] = Sum(paid, S \cup {p})
          /\ Sum(Totals, S \cup {p}) <= BudgetLimit[b]
          /\ Sum(Totals, S \cup {p}) <= committed'[b] + spent'[b]
          /\ committed'[b] + spent'[b] <= Sum(Totals, S \cup {p}) + Sum(over, S \cup {p})
      BY <1>2, <2>2, <2>5, <2>6, <2>7
    <2> QED
      BY <1>2, <1>4, <2>8 DEF Accounted, paid, over
  <1> QED
    BY <1>6, <1>7 DEF BudgetInv

LEMMA ApproveCancellationKeepsBudget ==
  ASSUME IInv, BudgetInv, NEW p \in PO, NEW u \in User, ApproveCancellation(u, p)
  PROVE  BudgetInv'
  <1> DEFINE b == BudgetOf(p)
             S == LiveOrders(b)
  <1>1. b \in Budget /\ S \in SUBSET PO /\ p \in S
    BY BudgetAssumption DEF BudgetOf, LiveOrders, ApproveCancellation
  <1>2. /\ committed[b] \in Nat /\ spent[b] \in Nat /\ BudgetLimit[b] \in Nat
        /\ PoTotal(p) <= committed[b] /\ PoTotal(p) \in Nat
        /\ committed' = [committed EXCEPT ![b] = @ - PoTotal(p)]
        /\ committed'[b] = committed[b] - PoTotal(p)
        /\ spent' = spent
    BY <1>1, BudgetAssumption, PoTotalNat DEF ApproveCancellation, IInv, TypeOK
  <1>3. \A q \in PO : IsLive(q)' <=> IsLive(q) /\ q # p
    BY DEF ApproveCancellation, IsLive, IInv, TypeOK
  <1>4. LiveOrders(b)' = S \ {p} /\ \A c \in Budget \ {b} : LiveOrders(c)' = LiveOrders(c)
    BY <1>3 DEF LiveOrders
  <1>5. \A i \in InvoicesOf(p) : invStatus[i] # "paid"
    BY DEF ApproveCancellation, CorrectionAllowed
  <1>6. /\ PaidIn(invStatus') = PaidIn(invStatus)
        /\ OverpaidIn(invStatus') = OverpaidIn(invStatus)
    <2>1. PICK judged \in [MatchedOf(p) -> MatchOutcomes] : StoreMatches(MatchedOf(p), judged)
      BY DEF ApproveCancellation
    <2>2. MatchedOf(p) \in SUBSET Invoice /\ \A i \in MatchedOf(p) : invStatus[i] = "matched"
      BY DEF MatchedOf, InvoicesOf
    <2>3. \A i \in Invoice : invStatus'[i] = "paid" <=> invStatus[i] = "paid"
      BY <2>1, <2>2, StoredStatus
    <2> QED
      BY <2>3, NothingPaid
  <1> HIDE DEF b, S
  <1>7. ASSUME NEW c \in Budget \ {b}
        PROVE  Accounted(c)'
    <2>1. committed'[c] = committed[c] /\ spent'[c] = spent[c] /\ LiveOrders(c)' = LiveOrders(c)
      BY <1>1, <1>2, <1>4 DEF IInv, TypeOK
    <2> QED
      BY <1>6, <2>1 DEF BudgetInv, Accounted
  <1>8. Accounted(b)'
    <2> DEFINE paid == PaidIn(invStatus)
               over == OverpaidIn(invStatus)
               rest == S \ {p}
    <2>1. /\ Totals \in [PO -> Nat] /\ paid \in [PO -> Nat] /\ over \in [PO -> Nat]
          /\ Totals[p] = PoTotal(p) /\ paid[p] = 0 /\ over[p] = 0
      BY <1>5, BudgetFunctions, UnpaidOrder
    <2>2. /\ spent[b] = Sum(paid, S)
          /\ Sum(Totals, S) <= BudgetLimit[b]
          /\ Sum(Totals, S) <= committed[b] + spent[b]
          /\ committed[b] + spent[b] <= Sum(Totals, S) + Sum(over, S)
      BY <1>1 DEF BudgetInv, Accounted, S
    <2> HIDE DEF paid, over
    <2>3. \A f \in [PO -> Nat] : Sum(f, S) = f[p] + Sum(f, rest)
      BY <1>1, OrdersFinite, SumRemove
    <2>4. \A f \in [PO -> Nat] : Sum(f, rest) \in Nat
      <3>1. rest \in SUBSET PO
        BY <1>1
      <3> QED
        BY <3>1, OrdersFinite
    <2> HIDE DEF rest
    <2>5. /\ Sum(Totals, S) = PoTotal(p) + Sum(Totals, rest)
          /\ Sum(paid, S) = 0 + Sum(paid, rest)
          /\ Sum(over, S) = 0 + Sum(over, rest)
      BY <2>1, <2>3
    <2>6. Sum(Totals, rest) \in Nat /\ Sum(paid, rest) \in Nat /\ Sum(over, rest) \in Nat
      BY <2>1, <2>4
    <2>7. /\ spent'[b] = Sum(paid, rest)
          /\ Sum(Totals, rest) <= BudgetLimit[b]
          /\ Sum(Totals, rest) <= committed'[b] + spent'[b]
          /\ committed'[b] + spent'[b] <= Sum(Totals, rest) + Sum(over, rest)
      BY <1>2, <2>2, <2>5, <2>6
    <2> QED
      BY <1>4, <1>6, <2>7 DEF Accounted, paid, over, rest
  <1> QED
    BY <1>7, <1>8 DEF BudgetInv

\* Paying an invoice of a live order.
LEMMA SettleKeepsBudget ==
  ASSUME IInv, BudgetInv, NEW i \in Invoice, invStatus[i] = "matched",
         IsLive(InvoiceDoc[i].po), SettlePaidInvoice(i), poStatus' = poStatus
  PROVE  BudgetInv'
  <1> DEFINE q == InvoiceDoc[i].po
             b == BudgetOf(q)
             S == LiveOrders(b)
             a == AmountOf(i)
             paid  == PaidIn(invStatus)
             paid2 == PaidIn(invStatus')
             over  == OverpaidIn(invStatus)
             over2 == OverpaidIn(invStatus')
  <1>1. q \in PO /\ b \in Budget /\ S \in SUBSET PO /\ q \in S /\ a \in Nat
    BY BudgetAssumption, InvoiceDocAssumption DEF BudgetOf, LiveOrders, AmountOf
  <1>2. /\ committed[b] \in Nat /\ spent[b] \in Nat /\ BudgetLimit[b] \in Nat
        /\ invStatus' = [invStatus EXCEPT ![i] = "paid"]
        /\ committed'[b] = IF committed[b] > a THEN committed[b] - a ELSE 0
        /\ spent'[b] = spent[b] + a
        /\ \A c \in Budget \ {b} : committed'[c] = committed[c] /\ spent'[c] = spent[c]
    BY <1>1, BudgetAssumption DEF SettlePaidInvoice, CommitmentLeft, IInv, TypeOK
  <1>3. \A c \in Budget : LiveOrders(c)' = LiveOrders(c)
    BY DEF LiveOrders, IsLive
  <1>4. /\ paid2[q] = paid[q] + a
        /\ \A p \in PO \ {q} : paid2[p] = paid[p]
    <2> DEFINE P(p)  == {j \in InvoicesOf(p) : invStatus[j] = "paid"}
               P2(p) == {j \in InvoicesOf(p) : invStatus'[j] = "paid"}
    <2>1. P2(q) = P(q) \cup {i} /\ i \notin P(q) /\ P(q) \in SUBSET Invoice
      BY <1>2 DEF InvoicesOf, IInv, TypeOK
    <2>2. \A p \in PO \ {q} : P2(p) = P(p)
      BY <1>2 DEF InvoicesOf, IInv, TypeOK
    <2>3. ValueOf(P(q) \cup {i}) = a + ValueOf(P(q)) /\ ValueOf(P(q)) \in Nat
      BY <2>1, ValueFacts
    <2>4. paid2[q] = ValueOf(P2(q)) /\ paid[q] = ValueOf(P(q))
      BY <1>1 DEF PaidIn
    <2>5. \A p \in PO : paid2[p] = ValueOf(P2(p)) /\ paid[p] = ValueOf(P(p))
      BY DEF PaidIn
    <2> HIDE DEF P, P2, paid, paid2, q, a
    <2>6. ValueOf(P2(q)) = ValueOf(P(q)) + a
      BY <1>1, <2>1, <2>3
    <2>7. \A p \in PO \ {q} : ValueOf(P2(p)) = ValueOf(P(p))
      BY <2>2
    <2> QED
      BY <2>4, <2>5, <2>6, <2>7
  <1>5. /\ Totals \in [PO -> Nat] /\ paid \in [PO -> Nat] /\ paid2 \in [PO -> Nat]
        /\ over \in [PO -> Nat] /\ over2 \in [PO -> Nat]
        /\ \A p \in PO : paid2[p] <= Totals[p] + over2[p]
    BY BudgetFunctions
  <1>6. /\ \A p \in PO : over[p] <= over2[p]
        /\ \A p \in PO \ {q} : over2[p] = over[p]
    <2>1. \A p \in PO : /\ over[p] = IF paid[p] > Totals[p] THEN paid[p] - Totals[p] ELSE 0
                        /\ over2[p] = IF paid2[p] > Totals[p] THEN paid2[p] - Totals[p] ELSE 0
      BY DEF OverpaidIn
    <2> HIDE DEF paid, paid2, over, over2, q, a
    <2>2. \A p \in PO : paid[p] \in Nat /\ paid2[p] \in Nat /\ Totals[p] \in Nat /\ paid[p] <= paid2[p]
      BY <1>1, <1>4, <1>5
    <2> QED
      BY <1>4, <2>1, <2>2
  <1>7. ASSUME NEW c \in Budget \ {b}
        PROVE  Accounted(c)'
    <2> DEFINE R == LiveOrders(c)
    <2>1. R \in SUBSET PO /\ q \notin R
      BY DEF LiveOrders
    <2> HIDE DEF R, q, b, paid, paid2, over, over2
    <2>2. /\ IsFiniteSet(R)
          /\ \A p \in R : paid[p] \in Nat /\ paid2[p] = paid[p] /\ over[p] \in Nat /\ over2[p] = over[p]
      BY <1>4, <1>5, <1>6, <2>1, OrdersFinite
    <2>3. Sum(paid, R) = Sum(paid2, R) /\ Sum(over, R) = Sum(over2, R)
      BY <2>2, SumSame
    <2>4. committed'[c] = committed[c] /\ spent'[c] = spent[c] /\ LiveOrders(c)' = R
      BY <1>2, <1>3 DEF R
    <2>5. /\ spent[c] = Sum(paid, R)
          /\ Sum(Totals, R) <= BudgetLimit[c]
          /\ Sum(Totals, R) <= committed[c] + spent[c]
          /\ committed[c] + spent[c] <= Sum(Totals, R) + Sum(over, R)
      BY DEF BudgetInv, Accounted, R, paid, over
    <2>6. /\ spent'[c] = Sum(paid2, R)
          /\ Sum(Totals, R) <= committed'[c] + spent'[c]
          /\ committed'[c] + spent'[c] <= Sum(Totals, R) + Sum(over2, R)
      BY <2>3, <2>4, <2>5
    <2> QED
      BY <2>4, <2>5, <2>6 DEF Accounted, paid2, over2
  <1>8. Accounted(b)'
    <2>1. /\ spent[b] = Sum(paid, S)
          /\ Sum(Totals, S) <= BudgetLimit[b]
          /\ Sum(Totals, S) <= committed[b] + spent[b]
          /\ committed[b] + spent[b] <= Sum(Totals, S) + Sum(over, S)
      BY <1>1 DEF BudgetInv, Accounted
    <2> HIDE DEF q, b, S, a, paid, paid2, over, over2
    <2>2. /\ IsFiniteSet(S)
          /\ \A f \in [PO -> Nat] : (\A p \in S : f[p] \in Nat) /\ Sum(f, S) \in Nat
      BY <1>1, OrdersFinite
    <2>3. \A p \in S : /\ Totals[p] \in Nat /\ paid[p] \in Nat /\ paid2[p] \in Nat
                       /\ over[p] \in Nat /\ over2[p] \in Nat /\ p \in PO
      BY <1>1, <1>5
    <2>4. Sum(paid2, S) = Sum(paid, S) + a
      <3>1. /\ q \in S /\ a \in Nat /\ \A x \in S : paid[x] \in Nat
            /\ \A x \in S \ {q} : paid2[x] = paid[x]
            /\ paid2[q] = paid[q] + a
        BY <1>1, <1>4, <2>3
      <3> QED
        BY <2>2, <3>1, SumChanges
    <2>5. Sum(over, S) <= Sum(over2, S)
      BY <1>6, <2>2, <2>3, SumUpTo
    <2>6. Sum(paid2, S) <= Sum(Totals, S) + Sum(over2, S)
      <3> DEFINE cost == [p \in PO |-> Totals[p] + over2[p]]
      <3>1. \A p \in S : cost[p] = Totals[p] + over2[p] /\ cost[p] \in Nat /\ paid2[p] <= cost[p]
        BY <1>5, <2>3
      <3> HIDE DEF cost
      <3>2. Sum(cost, S) = Sum(Totals, S) + Sum(over2, S)
        BY <2>2, <2>3, <3>1, SumOfSums
      <3>3. Sum(paid2, S) <= Sum(cost, S)
        BY <2>2, <2>3, <3>1, SumUpTo
      <3> QED
        BY <3>2, <3>3
    <2>7. /\ Sum(Totals, S) \in Nat /\ Sum(paid, S) \in Nat /\ Sum(paid2, S) \in Nat
          /\ Sum(over, S) \in Nat /\ Sum(over2, S) \in Nat
      BY <1>5, <2>2
    <2>8. /\ spent'[b] = Sum(paid2, S)
          /\ Sum(Totals, S) <= BudgetLimit[b]
          /\ Sum(Totals, S) <= committed'[b] + spent'[b]
          /\ committed'[b] + spent'[b] <= Sum(Totals, S) + Sum(over2, S)
      BY <1>1, <1>2, <2>1, <2>4, <2>5, <2>6, <2>7
    <2>9. LiveOrders(b)' = S
      BY <1>1, <1>3 DEF S
    <2> QED
      BY <2>8, <2>9 DEF Accounted, paid2, over2
  <1> QED
    BY <1>7, <1>8 DEF BudgetInv

LEMMA NextBudgetInv == IInv /\ BudgetInv /\ [Next]_vars => BudgetInv'
  <1> SUFFICES ASSUME IInv, BudgetInv, [Next]_vars
               PROVE  BudgetInv'
    OBVIOUS
  <1>1. ASSUME UNCHANGED budgetVars, poStatus' = poStatus,
               \A i \in Invoice : invStatus'[i] = "paid" <=> invStatus[i] = "paid"
        PROVE  BudgetInv'
    BY <1>1, QuietBudget DEF IsLive
  <1>2. ASSUME NEW batch \in SUBSET Invoice, NEW judged \in [batch -> MatchOutcomes],
               StoreMatches(batch, judged), \A i \in batch : invStatus[i] # "paid"
        PROVE  \A i \in Invoice : invStatus'[i] = "paid" <=> invStatus[i] = "paid"
    BY <1>2, StoredStatus
  <1>3. CASE ReceiptStep \/ InvoiceStep
    <2>1. UNCHANGED budgetVars /\ poStatus' = poStatus
      BY <1>3 DEF ReceiptStep, InvoiceStep, RecordReceipt, CancelReceipt, RegisterInvoice, orderVars
    <2>2. \E batch \in SUBSET Invoice : \E judged \in [batch -> MatchOutcomes] :
            StoreMatches(batch, judged) /\ \A i \in batch : invStatus[i] # "paid"
      <3>1. ASSUME NEW i \in Invoice, RegisterInvoice(i)
            PROVE  invStatus[i] = "none" /\ \E judged \in [{i} -> MatchOutcomes] : StoreMatches({i}, judged)
        BY <3>1 DEF RegisterInvoice
      <3>2. \A p \in PO : /\ OpenForRematch(p) \in SUBSET Invoice /\ MatchedOf(p) \in SUBSET Invoice
                          /\ \A i \in OpenForRematch(p) : invStatus[i] # "paid"
                          /\ \A j \in MatchedOf(p) : invStatus[j] # "paid"
        BY DEF OpenForRematch, MatchedOf, InvoicesOf
      <3>3. CASE \E c \in Receipt : RecordReceipt(c)
        <4>1. PICK c \in Receipt : RecordReceipt(c)
          BY <3>3
        <4> DEFINE p     == ReceiptDoc[c].po
                   batch == OpenForRematch(p)
        <4>2. batch \in SUBSET Invoice /\ \A j \in batch : invStatus[j] # "paid"
          <5>1. p \in PO
            BY ReceiptDocAssumption
          <5> HIDE DEF p
          <5> QED
            BY <3>2, <5>1
        <4>3. \E judged \in [batch -> MatchOutcomes] : StoreMatches(batch, judged)
          BY <4>1 DEF RecordReceipt
        <4> HIDE DEF batch
        <4> QED
          BY <4>2, <4>3
      <3>4. CASE \E c \in Receipt : CancelReceipt(c)
        <4>1. PICK c \in Receipt : CancelReceipt(c)
          BY <3>4
        <4> DEFINE p     == ReceiptDoc[c].po
                   batch == MatchedOf(p)
        <4>2. batch \in SUBSET Invoice /\ \A j \in batch : invStatus[j] # "paid"
          <5>1. p \in PO
            BY ReceiptDocAssumption
          <5> HIDE DEF p
          <5> QED
            BY <3>2, <5>1
        <4>3. \E judged \in [batch -> MatchOutcomes] : StoreMatches(batch, judged)
          BY <4>1 DEF CancelReceipt
        <4> HIDE DEF batch
        <4> QED
          BY <4>2, <4>3
      <3>5. CASE \E i \in Invoice : RegisterInvoice(i)
        <4>1. PICK i \in Invoice : RegisterInvoice(i)
          BY <3>5
        <4> DEFINE batch == {i}
        <4>2. batch \in SUBSET Invoice /\ \A j \in batch : invStatus[j] # "paid"
          BY <3>1, <4>1
        <4>3. \E judged \in [batch -> MatchOutcomes] : StoreMatches(batch, judged)
          BY <3>1, <4>1
        <4> HIDE DEF batch
        <4> QED
          BY <4>2, <4>3
      <3> QED
        BY <1>3, <3>3, <3>4, <3>5 DEF ReceiptStep, InvoiceStep
    <2> QED
      BY <1>1, <1>2, <2>1, <2>2
  <1>4. CASE OrderStep
    <2>1. CASE \E p \in PO, u \in User : ApproveCancellation(u, p)
      BY <2>1, ApproveCancellationKeepsBudget
    <2>2. CASE \E p \in PO : IssuePo(p)
      BY <2>2, IssueKeepsBudget
    <2>3. CASE \E p \in PO : \/ ConfirmPo(p)
                             \/ \E u \in User : RequestCancellation(u, p) \/ RejectCancellation(u, p)
      <3>1. UNCHANGED <<budgetVars, invStatus>> /\ \A p \in PO : IsLive(p)' <=> IsLive(p)
        BY <2>3 DEF ConfirmPo, RequestCancellation, RejectCancellation, IsLive, invoiceVars, IInv, TypeOK
      <3> QED
        BY <3>1, QuietBudget
    <2> QED
      BY <1>4, <2>1, <2>2, <2>3 DEF OrderStep
  <1>5. ASSUME NEW r \in Run, NEW i \in Invoice, NEW verdict \in {"paid", "dishonored", "rejected"},
               Reconcile(r, i, verdict)
        PROVE  BudgetInv'
    <2>1. invStatus[i] = "matched" /\ IsLive(InvoiceDoc[i].po) /\ poStatus' = poStatus
      BY <1>5 DEF Reconcile, Reconcilable, LiveClaim, IInv, PaymentInv, ClaimBacked, orderVars
    <2>2. CASE verdict = "paid"
      BY <1>5, <2>1, <2>2, SettleKeepsBudget DEF Reconcile
    <2>3. CASE verdict # "paid"
      BY <1>1, <1>5, <2>1, <2>3 DEF Reconcile
    <2> QED
      BY <2>2, <2>3
  <1>6. CASE RunStep /\ ~ \E r \in Run, i \in Invoice, verdict \in {"paid", "dishonored", "rejected"} :
                            Reconcile(r, i, verdict)
    <2>1. UNCHANGED <<budgetVars, poStatus, invStatus>>
      BY <1>6 DEF RunStep, CommitVoid, ExecuteRun, ApproveRun, BeginVoid, CreateRun, orderVars,
                  invoiceVars
    <2> QED
      BY <1>1, <2>1
  <1>7. CASE UNCHANGED vars
    <2>1. UNCHANGED <<budgetVars, poStatus, invStatus>>
      BY <1>7 DEF vars, orderVars, invoiceVars
    <2> QED
      BY <1>1, <2>1
  <1> QED
    BY <1>3, <1>4, <1>5, <1>6, <1>7 DEF Next

LEMMA InitBudgetInv == Init => BudgetInv
  <1> SUFFICES ASSUME Init, NEW b \in Budget
               PROVE  Accounted(b)
    BY DEF BudgetInv
  <1>1. LiveOrders(b) = {} /\ committed[b] = 0 /\ spent[b] = 0 /\ BudgetLimit[b] \in Nat
    BY BudgetAssumption DEF Init, LiveOrders, IsLive
  <1>2. \A f : Sum(f, {}) = 0
    BY FS_EmptySet, SumUnfold
  <1> QED
    BY <1>1, <1>2 DEF Accounted

LEMMA BudgetInvariant == Spec => []BudgetInv
  BY InitBudgetInv, NextBudgetInv, InductiveInvariant, PTL DEF Spec

\* The model's operators are these sums.
LEMMA BudgetOperators ==
  /\ Overpaid = OverpaidIn(invStatus)
  /\ \A p \in PO : PaidValue(p) = PaidIn(invStatus)[p]
  /\ \A f, S : SumFunctionOnSet(f, S) = Sum(f, S)
  <1>1. \A p \in PO : PaidValue(p) = PaidIn(invStatus)[p]
    BY DEF PaidValue, PaidIn
  <1>2. \A p \in PO : Totals[p] = PoTotal(p)
    BY DEF Totals
  <1>3. Overpaid = OverpaidIn(invStatus)
    BY <1>1, <1>2 DEF Overpaid, OverpaidIn
  <1> QED
    BY <1>1, <1>3 DEF Sum

\* A budget is exceeded by no more than what was paid beyond the totals of its live orders,
\* whatever was issued, cancelled and paid before (issue, settlePaidInvoice,
\* releaseCommittedBudget).
THEOREM BudgetWithinToleranceAlways == Spec => []BudgetWithinTolerance
  <1>1. TypeOK /\ BudgetInv => BudgetWithinTolerance
    <2> SUFFICES ASSUME TypeOK, BudgetInv, NEW b \in Budget
                 PROVE  committed[b] + spent[b]
                          <= BudgetLimit[b] + SumFunctionOnSet(Overpaid, LiveOrders(b))
      BY DEF BudgetWithinTolerance
    <2> DEFINE S == LiveOrders(b)
               e == Sum(OverpaidIn(invStatus), S)
               c == Sum(Totals, S)
    <2>1. S \in SUBSET PO
      BY DEF LiveOrders
    <2>2. /\ c <= BudgetLimit[b] /\ committed[b] + spent[b] <= c + e
          /\ committed[b] \in Nat /\ spent[b] \in Nat /\ BudgetLimit[b] \in Nat
      BY BudgetAssumption DEF BudgetInv, Accounted, TypeOK
    <2>3. c \in Nat /\ e \in Nat
      BY <2>1, OrdersFinite, BudgetFunctions
    <2>4. SumFunctionOnSet(Overpaid, LiveOrders(b)) = e
      BY BudgetOperators
    <2> QED
      BY <2>2, <2>3, <2>4
  <1> QED
    BY <1>1, BudgetInvariant, TypeCorrect, PTL

\* No invoices that may be paid bill an order above its total and yet within tolerance:
\* what the match lets through is never more than was ordered.
BilledExactly ==
  \A p \in PO : \A S \in SUBSET {i \in InvoicesOf(p) : InvoiceDoc[i].vendor \in VerifiedVendors} :
    ~ExceedsCapacity(ValueOf(S), PoTotal(p)) => ValueOf(S) <= PoTotal(p)

\* Only invoices of verified vendors have lines.
LineVerified ==
  \A r \in Run, i \in Invoice : line[r][i] # "none" => InvoiceDoc[i].vendor \in VerifiedVendors

LEMMA LineVerifiedAlways == Spec => []LineVerified
  <1>1. Init => LineVerified
    BY DEF Init, LineVerified
  <1>2. TypeOK /\ LineVerified /\ [Next]_vars => LineVerified'
    <2> SUFFICES ASSUME TypeOK, LineVerified, [Next]_vars
                 PROVE  LineVerified'
      OBVIOUS
    <2>1. CASE UNCHANGED line
      BY <2>1 DEF LineVerified
    <2>2. ASSUME NEW u \in User, NEW r \in Run, NEW S \in SUBSET Invoice, CreateRun(u, r, S)
          PROVE  LineVerified'
      <3>1. \A q \in Run, i \in Invoice :
              line'[q][i] = IF q = r THEN (IF i \in S THEN "planned" ELSE "none") ELSE line[q][i]
        BY <2>2 DEF CreateRun, TypeOK
      <3>2. \A i \in S : InvoiceDoc[i].vendor \in VerifiedVendors
        BY <2>2 DEF CreateRun, Payable
      <3> QED
        BY <3>1, <3>2 DEF LineVerified
    <2>3. ASSUME NEW r \in Run, NEW i \in Invoice, NEW verdict \in {"paid", "dishonored", "rejected"},
                 Reconcile(r, i, verdict)
          PROVE  LineVerified'
      <3>1. line[r][i] = "planned" /\ line' = [line EXCEPT ![r][i] = verdict]
        BY <2>3 DEF Reconcile, Reconcilable
      <3>2. line \in [Run -> [Invoice -> {"none", "planned", "paid", "dishonored", "rejected"}]]
        BY DEF TypeOK
      <3>3. \A q \in Run, j \in Invoice : line'[q][j] # "none" => line[q][j] # "none"
        BY <3>1, <3>2
      <3> QED
        BY <3>3 DEF LineVerified
    <2>4. CASE OrderStep \/ ReceiptStep \/ InvoiceStep \/ UNCHANGED vars
      <3>1. UNCHANGED line
        BY <2>4 DEF OrderStep, ReceiptStep, InvoiceStep, IssuePo, ConfirmPo, RequestCancellation,
                    RejectCancellation, ApproveCancellation, RecordReceipt, CancelReceipt,
                    RegisterInvoice, vars, runVars
      <3> QED
        BY <2>1, <3>1
    <2>5. CASE RunStep
      <3>1. ASSUME NEW u \in User, NEW r \in Run,
                   CommitVoid(u) \/ ExecuteRun(r) \/ ApproveRun(u, r) \/ BeginVoid(u, r)
            PROVE  UNCHANGED line
        BY <3>1 DEF CommitVoid, ExecuteRun, ApproveRun, BeginVoid, runVars
      <3>2. ASSUME NEW u \in User, CommitVoid(u)
            PROVE  UNCHANGED line
        BY <3>2 DEF CommitVoid
      <3>3. ASSUME NEW r \in Run, ExecuteRun(r)
            PROVE  UNCHANGED line
        BY <3>3 DEF ExecuteRun
      <3> QED
        BY <2>1, <2>2, <2>3, <2>5, <3>1, <3>2, <3>3 DEF RunStep
    <2> QED
      BY <2>4, <2>5 DEF Next
  <1> QED
    BY <1>1, <1>2, TypeCorrect, PTL DEF Spec

\* Without bills within the tolerance, no order is paid beyond its total, ...
LEMMA NothingOverpaid ==
  ASSUME BilledExactly, IInv, MatchInv, LineVerified, NEW p \in PO
  PROVE  PaidIn(invStatus)[p] <= Totals[p] /\ OverpaidIn(invStatus)[p] = 0
  <1> DEFINE S == {i \in InvoicesOf(p) : invStatus[i] = "paid"}
  <1>1. S \in SUBSET {i \in InvoicesOf(p) : InvoiceDoc[i].vendor \in VerifiedVendors}
    <2> SUFFICES ASSUME NEW i \in S
                 PROVE  InvoiceDoc[i].vendor \in VerifiedVendors
      OBVIOUS
    <2>1. i \in Invoice /\ \E r \in Run : line[r][i] = "paid"
      BY DEF InvoicesOf, IInv, PaymentInv, PaidByOneLine
    <2> QED
      BY <2>1 DEF LineVerified
  <1>2. S \in SUBSET Reserved(p) /\ Reserved(p) \in SUBSET Invoice
    BY DEF Reserved, InvoicesOf
  <1>3. Fits(p, Reserved(p), ValueReceived(p, Recorded(p))) /\ ValueReceived(p, Recorded(p)) \in Nat
    <2>1. Recorded(p) \in SUBSET Receipt
      BY DEF Recorded
    <2> QED
      BY <2>1, ReceivedFacts DEF MatchInv, Covered
  <1> HIDE DEF S
  <1>4. Fits(p, S, ValueReceived(p, Recorded(p)))
    BY <1>2, <1>3, FewerFit
  <1>5. ValueOf(S) <= PoTotal(p)
    BY <1>1, <1>4 DEF Fits, BilledExactly
  <1>6. PaidIn(invStatus)[p] = ValueOf(S) /\ Totals[p] = PoTotal(p)
    BY DEF PaidIn, Totals, S
  <1>7. PaidIn(invStatus)[p] \in Nat /\ Totals[p] \in Nat
    BY BudgetFunctions
  <1>8. PaidIn(invStatus)[p] <= Totals[p]
    BY <1>5, <1>6
  <1> QED
    BY <1>7, <1>8 DEF OverpaidIn

\* ... the commitment of a budget is exactly what its live orders have left to pay, and the
\* limit is kept.
LEMMA ExactBudget ==
  ASSUME BilledExactly, IInv, MatchInv, LineVerified, BudgetInv, NEW b \in Budget
  PROVE  /\ committed[b] = SumFunctionOnSet([p \in PO |-> PoTotal(p) - PaidValue(p)], LiveOrders(b))
         /\ committed[b] + spent[b] <= BudgetLimit[b]
  <1> DEFINE S    == LiveOrders(b)
             paid == PaidIn(invStatus)
             over == OverpaidIn(invStatus)
             left == [p \in PO |-> PoTotal(p) - PaidValue(p)]
  <1>1. S \in SUBSET PO /\ committed[b] \in Nat /\ spent[b] \in Nat /\ BudgetLimit[b] \in Nat
    BY BudgetAssumption DEF LiveOrders, IInv, TypeOK
  <1>2. /\ spent[b] = Sum(paid, S)
        /\ Sum(Totals, S) <= BudgetLimit[b]
        /\ Sum(Totals, S) <= committed[b] + spent[b]
        /\ committed[b] + spent[b] <= Sum(Totals, S) + Sum(over, S)
    BY DEF BudgetInv, Accounted
  <1>3. \A p \in PO : paid[p] <= Totals[p] /\ over[p] = 0
    BY NothingOverpaid
  <1>4. Totals \in [PO -> Nat] /\ paid \in [PO -> Nat] /\ IsFiniteSet(S)
    BY <1>1, BudgetFunctions, OrdersFinite
  <1>5. \A p \in PO : left[p] = Totals[p] - paid[p]
    BY BudgetOperators DEF Totals
  <1>6. SumFunctionOnSet(left, S) = Sum(left, S)
    BY DEF Sum
  <1> HIDE DEF S, paid, over, left
  <1>7. Sum(over, S) = 0
    BY <1>1, <1>3, <1>4, SumZero
  <1>8. \A p \in S : left[p] \in Nat /\ paid[p] \in Nat /\ Totals[p] = left[p] + paid[p]
    BY <1>1, <1>3, <1>4, <1>5
  <1>9. Sum(Totals, S) = Sum(left, S) + Sum(paid, S)
    BY <1>4, <1>8, SumOfSums
  <1>10. Sum(left, S) \in Nat /\ Sum(paid, S) \in Nat /\ Sum(Totals, S) \in Nat
    BY <1>1, <1>4, <1>8, SumNat, OrdersFinite
  <1>11. committed[b] = Sum(left, S) /\ committed[b] + spent[b] <= BudgetLimit[b]
    BY <1>1, <1>2, <1>7, <1>9, <1>10
  <1> QED
    BY <1>6, <1>11 DEF S, left

\* Where invoices bill no more than was ordered, a budget's commitment is exactly what its
\* live orders have left to pay (issue, settlePaidInvoice, releaseCommittedBudget).
THEOREM CommitmentIsOpenOrdersAlways ==
  ASSUME BilledExactly
  PROVE  Spec => []CommitmentIsOpenOrders
  <1>1. IInv /\ MatchInv /\ LineVerified /\ BudgetInv => CommitmentIsOpenOrders
    BY ExactBudget DEF CommitmentIsOpenOrders
  <1> QED
    BY <1>1, InductiveInvariant, MatchInvariant, LineVerifiedAlways, BudgetInvariant, PTL

\* Where invoices bill no more than was ordered, no budget exceeds its limit.
THEOREM BudgetWithinLimitAlways ==
  ASSUME BilledExactly
  PROVE  Spec => []BudgetWithinLimit
  <1>1. IInv /\ MatchInv /\ LineVerified /\ BudgetInv => BudgetWithinLimit
    BY ExactBudget DEF BudgetWithinLimit
  <1> QED
    BY <1>1, InductiveInvariant, MatchInvariant, LineVerifiedAlways, BudgetInvariant, PTL
-----------------------------------------------------------------------------
(* Refinement of PaymentClaims. *)

\* The abstract holder and payer of an invoice are the run that has the live claim
\* and the run that has the paid line.
LEMMA HolderIs ==
  ASSUME IInv, NEW i \in Invoice
  PROVE  /\ \A r \in Run : Holder[i] = r <=> LiveClaim(r, i)
         /\ Holder[i] = NoRun <=> \A r \in Run : ~LiveClaim(r, i)
  <1>1. CASE \E r \in Run : LiveClaim(r, i)
    <2>1. Holder[i] \in Run /\ LiveClaim(Holder[i], i)
      BY <1>1 DEF Holder
    <2> QED
      BY <2>1, RunAssumption DEF IInv, PaymentInv, SingleLiveClaim
  <1>2. CASE ~\E r \in Run : LiveClaim(r, i)
    BY <1>2, RunAssumption DEF Holder
  <1> QED
    BY <1>1, <1>2

LEMMA PaidByIs ==
  ASSUME IInv, NEW i \in Invoice
  PROVE  /\ \A r \in Run : PaidBy[i] = r <=> line[r][i] = "paid"
         /\ PaidBy[i] = NoRun <=> invStatus[i] # "paid"
  <1>1. CASE \E r \in Run : line[r][i] = "paid"
    <2>1. PaidBy[i] \in Run /\ line[PaidBy[i]][i] = "paid"
      BY <1>1 DEF PaidBy
    <2> QED
      BY <2>1, RunAssumption DEF IInv, PaymentInv, PaidByOneLine
  <1>2. CASE ~\E r \in Run : line[r][i] = "paid"
    BY <1>2, RunAssumption DEF PaidBy, IInv, PaymentInv, PaidByOneLine
  <1> QED
    BY <1>1, <1>2

\* A step under which no run is minted and no claim and no payment appears or
\* disappears is invisible.
LEMMA InvisibleStep ==
  ASSUME UNCHANGED line, Minted' = Minted,
         \A r \in Run, i \in Invoice : LiveClaim(r, i)' = LiveClaim(r, i)
  PROVE  UNCHANGED Claims!vars
  <1>1. Holder' = Holder
    BY DEF Holder
  <1>2. PaidBy' = PaidBy
    BY DEF PaidBy
  <1> QED
    BY <1>1, <1>2 DEF Claims!vars

LEMMA InitRefines == Init => Claims!Init
  <1> SUFFICES ASSUME Init
               PROVE  Claims!Init
    OBVIOUS
  <1>1. Minted = {}
    BY DEF Init, Minted
  <1>2. \A r \in Run, i \in Invoice : line[r][i] = "none"
    BY DEF Init
  <1>3. Holder = [i \in Invoice |-> NoRun] /\ PaidBy = [i \in Invoice |-> NoRun]
    BY <1>2 DEF Holder, PaidBy, LiveClaim
  <1> QED
    BY <1>1, <1>3 DEF Claims!Init

\* The functions that the mapping builds, compared point by point.
LEMMA MappedFunctions ==
  /\ Holder = [i \in Invoice |-> Holder[i]] /\ Holder' = [i \in Invoice |-> Holder'[i]]
  /\ PaidBy = [i \in Invoice |-> PaidBy[i]] /\ PaidBy' = [i \in Invoice |-> PaidBy'[i]]
  BY DEF Holder, PaidBy

LEMMA CreateRefines ==
  ASSUME IInv, IInv', NEW u \in User, NEW r \in Run, NEW S \in SUBSET Invoice,
         CreateRun(u, r, S)
  PROVE  Claims!Reserve(r, S)
  <1>1. /\ S # {} /\ runStatus[r] = "none"
        /\ runStatus' = [runStatus EXCEPT ![r] = "draft"]
        /\ line' = [line EXCEPT ![r] = [i \in Invoice |-> IF i \in S THEN "planned" ELSE "none"]]
        /\ UNCHANGED invStatus
        /\ \A i \in S : /\ invStatus[i] = "matched"
                        /\ \A q \in Run : ~LiveClaim(q, i)
    BY DEF CreateRun, Payable, invoiceVars
  <1>2. r \notin Minted /\ Minted' = Minted \cup {r}
    BY <1>1 DEF Minted, IInv, TypeOK
  <1>3. \A i \in S : Holder[i] = NoRun /\ PaidBy[i] = NoRun
    BY <1>1, HolderIs, PaidByIs
  <1>4. \A q \in Run, i \in Invoice :
          LiveClaim(q, i)' <=> LiveClaim(q, i) \/ (q = r /\ i \in S)
    BY <1>1 DEF LiveClaim, IInv, TypeOK, PaymentInv, NoLineBeforeRun
  <1>5. ASSUME NEW i \in Invoice
        PROVE  Holder'[i] = IF i \in S THEN r ELSE Holder[i]
    <2>1. CASE i \in S
      <3>1. LiveClaim(r, i)'
        BY <1>4, <2>1
      <3>2. \A q \in Run : LiveClaim(q, i)' => q = r
        BY <1>1, <1>4, <2>1
      <3> QED
        BY <2>1, <3>1, <3>2 DEF Holder
    <2>2. CASE i \notin S
      <3>1. \A q \in Run : LiveClaim(q, i)' = LiveClaim(q, i)
        BY <1>4, <2>2 DEF LiveClaim
      <3> QED
        BY <2>2, <3>1 DEF Holder
    <2> QED
      BY <2>1, <2>2
  <1>6. \A i \in Invoice : PaidBy'[i] = PaidBy[i]
    <2>1. \A q \in Run, i \in Invoice : (line'[q][i] = "paid") = (line[q][i] = "paid")
      BY <1>1 DEF IInv, TypeOK, PaymentInv, NoLineBeforeRun
    <2> QED
      BY <2>1 DEF PaidBy
  <1>7. Holder' = [i \in Invoice |-> IF i \in S THEN r ELSE Holder[i]]
    BY <1>5, MappedFunctions
  <1>8. PaidBy' = PaidBy
    BY <1>6, MappedFunctions
  <1> QED
    BY <1>1, <1>2, <1>3, <1>7, <1>8 DEF Claims!Reserve

LEMMA ReconcileRefines ==
  ASSUME IInv, IInv', NEW r \in Run, NEW i \in Invoice,
         NEW verdict \in {"paid", "dishonored", "rejected"}, Reconcile(r, i, verdict)
  PROVE  IF verdict = "paid" THEN Claims!Pay(r, i) ELSE Claims!Release(r, {i})
  <1>1. /\ runStatus[r] = "executed" /\ line[r][i] = "planned"
        /\ \A q \in Run, j \in Invoice :
             line'[q][j] = IF q = r /\ j = i THEN verdict ELSE line[q][j]
    BY DEF Reconcile, Reconcilable, IsLastLine, IInv, TypeOK
  <1>2. \A q \in Run : \/ runStatus'[q] = runStatus[q]
                       \/ q = r /\ runStatus'[q] = "reconciled"
    BY DEF Reconcile, Reconcilable, IsLastLine, IInv, TypeOK
  <1>3. LiveClaim(r, i) /\ Holder[i] = r
    BY <1>1, HolderIs DEF LiveClaim
  <1>4. \A q \in Run, j \in Invoice : LiveClaim(q, j)' <=> LiveClaim(q, j) /\ j # i
    <2>1. \A q \in Run : LiveClaim(q, i) => q = r
      BY <1>3 DEF IInv, PaymentInv, SingleLiveClaim
    <2> QED
      BY <1>1, <1>2, <2>1 DEF LiveClaim
  <1>5. Holder' = [j \in Invoice |-> IF j = i THEN NoRun ELSE Holder[j]]
    <2>1. ASSUME NEW j \in Invoice
          PROVE  Holder'[j] = IF j = i THEN NoRun ELSE Holder[j]
      <3>1. CASE j = i
        BY <1>4, <3>1 DEF Holder
      <3>2. CASE j # i
        <4>1. \A q \in Run : LiveClaim(q, j)' = LiveClaim(q, j)
          BY <1>4, <3>2 DEF LiveClaim
        <4> QED
          BY <3>2, <4>1 DEF Holder
      <3> QED
        BY <3>1, <3>2
    <2> QED
      BY <2>1, MappedFunctions
  <1>6. Minted' = Minted
    BY <1>1, <1>2 DEF Minted
  <1>7. CASE verdict = "paid"
    <2>1. \A j \in Invoice : PaidBy'[j] = IF j = i THEN r ELSE PaidBy[j]
      <3> SUFFICES ASSUME NEW j \in Invoice
                   PROVE  PaidBy'[j] = IF j = i THEN r ELSE PaidBy[j]
        OBVIOUS
      <3>1. CASE j = i
        <4>1. line'[r][i] = "paid" /\ \A q \in Run : line'[q][i] = "paid" => q = r
          BY <1>1, <1>7 DEF IInv, PaymentInv, PaidByOneLine
        <4> QED
          BY <3>1, <4>1 DEF PaidBy
      <3>2. CASE j # i
        <4>1. \A q \in Run : (line'[q][j] = "paid") = (line[q][j] = "paid")
          BY <1>1, <3>2
        <4> QED
          BY <3>2, <4>1 DEF PaidBy
      <3> QED
        BY <3>1, <3>2
    <2>2. PaidBy' = [PaidBy EXCEPT ![i] = r] /\ Holder' = [Holder EXCEPT ![i] = NoRun]
      BY <2>1, <1>5, MappedFunctions
    <2> QED
      BY <1>3, <1>6, <1>7, <2>2 DEF Claims!Pay
  <1>8. CASE verdict # "paid"
    <2>1. \A q \in Run, j \in Invoice : (line'[q][j] = "paid") = (line[q][j] = "paid")
      BY <1>1, <1>8
    <2>2. PaidBy' = PaidBy
      BY <2>1 DEF PaidBy
    <2>3. Holder' = [j \in Invoice |-> IF j \in {i} THEN NoRun ELSE Holder[j]]
      BY <1>5
    <2> QED
      BY <1>3, <1>6, <1>8, <2>2, <2>3 DEF Claims!Release
  <1> QED
    BY <1>7, <1>8

LEMMA CommitVoidRefines ==
  ASSUME IInv, NEW u \in User, CommitVoid(u)
  PROVE  \/ UNCHANGED Claims!vars
         \/ \E S \in SUBSET Invoice : Claims!Release(voiding[u], S)
  <1> DEFINE r == voiding[u]
             S == {i \in Invoice : LiveClaim(r, i)}
  <1>1. r \in Run /\ UNCHANGED line
    BY DEF CommitVoid, StillVoidable, IInv, TypeOK
  <1>2. \A q \in Run : runStatus'[q] = "none" <=> runStatus[q] = "none"
    BY <1>1 DEF CommitVoid, StillVoidable, IInv, TypeOK
  <1>3. Minted' = Minted /\ PaidBy' = PaidBy
    BY <1>1, <1>2 DEF Minted, PaidBy
  <1>4. CASE runStatus' = runStatus
    <2>1. \A q \in Run, i \in Invoice : LiveClaim(q, i)' = LiveClaim(q, i)
      BY <1>1, <1>4 DEF LiveClaim
    <2> QED
      BY <1>1, <1>3, <2>1, InvisibleStep
  <1>5. CASE runStatus' # runStatus
    <2>1. /\ runStatus' = [runStatus EXCEPT ![r] = "voided"]
      BY <1>5 DEF CommitVoid, StillVoidable
    <2>2. \A q \in Run, i \in Invoice : LiveClaim(q, i)' <=> LiveClaim(q, i) /\ q # r
      BY <1>1, <2>1 DEF LiveClaim, IInv, TypeOK
    <2>3. ASSUME NEW i \in Invoice
          PROVE  Holder'[i] = IF i \in S THEN NoRun ELSE Holder[i]
      <3>1. CASE i \in S
        <4>1. \A q \in Run : ~LiveClaim(q, i)'
          BY <1>1, <2>2, <3>1 DEF IInv, PaymentInv, SingleLiveClaim
        <4> QED
          BY <3>1, <4>1 DEF Holder
      <3>2. CASE i \notin S
        <4>1. \A q \in Run : LiveClaim(q, i)' = LiveClaim(q, i)
          BY <1>1, <2>2, <3>2 DEF LiveClaim
        <4> QED
          BY <3>2, <4>1 DEF Holder
      <3> QED
        BY <3>1, <3>2
    <2> HIDE DEF S
    <2>4. Holder' = [i \in Invoice |-> IF i \in S THEN NoRun ELSE Holder[i]]
      BY <2>3, MappedFunctions
    <2>5. S \in SUBSET Invoice /\ \A i \in S : Holder[i] = r
      BY <1>1, HolderIs DEF S
    <2>6. CASE S = {}
      <3>1. Holder' = Holder
        BY <2>4, <2>6, MappedFunctions
      <3> QED
        BY <1>3, <3>1 DEF Claims!vars
    <2>7. CASE S # {}
      BY <1>3, <2>4, <2>5, <2>7 DEF Claims!Release
    <2> QED
      BY <2>6, <2>7
  <1> QED
    BY <1>4, <1>5

LEMMA NextRefines ==
  ASSUME IInv, IInv', [Next]_vars
  PROVE  [Claims!Next]_(Claims!vars)
  <1>1. CASE OrderStep \/ ReceiptStep \/ InvoiceStep \/ UNCHANGED vars
    <2>1. UNCHANGED runVars
      BY <1>1 DEF OrderStep, ReceiptStep, InvoiceStep, vars, IssuePo, ConfirmPo,
                  RequestCancellation, RejectCancellation, ApproveCancellation,
                  RecordReceipt, CancelReceipt, RegisterInvoice
    <2>2. UNCHANGED line /\ UNCHANGED runStatus
      BY <2>1 DEF runVars
    <2>3. Minted' = Minted /\ \A r \in Run, i \in Invoice : LiveClaim(r, i)' = LiveClaim(r, i)
      BY <2>2 DEF Minted, LiveClaim
    <2> QED
      BY <2>2, <2>3, InvisibleStep
  <1>2. CASE RunStep
    <2>1. ASSUME NEW u \in User, CommitVoid(u)
          PROVE  [Claims!Next]_(Claims!vars)
      <3>1. voiding[u] \in Run
        BY <2>1 DEF CommitVoid, StillVoidable, IInv, TypeOK
      <3> QED
        BY <2>1, <3>1, CommitVoidRefines DEF Claims!Next
    <2>2. ASSUME NEW r \in Run, ExecuteRun(r) \/ \E u \in User : ApproveRun(u, r) \/ BeginVoid(u, r)
          PROVE  UNCHANGED Claims!vars
      <3>1. UNCHANGED line
        BY <2>2 DEF ExecuteRun, ApproveRun, MayApprove, BeginVoid, runVars
      <3>2. \A q \in Run : /\ (runStatus'[q] = "none") = (runStatus[q] = "none")
                           /\ (runStatus'[q] = "voided") = (runStatus[q] = "voided")
        BY <2>2 DEF ExecuteRun, ApproveRun, MayApprove, BeginVoid, runVars, IInv, TypeOK
      <3>3. Minted' = Minted /\ \A q \in Run, i \in Invoice : LiveClaim(q, i)' = LiveClaim(q, i)
        BY <3>1, <3>2 DEF Minted, LiveClaim
      <3> QED
        BY <3>1, <3>3, InvisibleStep
    <2>3. ASSUME NEW r \in Run, NEW u \in User, NEW S \in SUBSET Invoice, CreateRun(u, r, S)
          PROVE  Claims!Next
      BY <2>3, CreateRefines DEF Claims!Next
    <2>4. ASSUME NEW r \in Run, NEW i \in Invoice,
                 NEW verdict \in {"paid", "dishonored", "rejected"}, Reconcile(r, i, verdict)
          PROVE  Claims!Next
      <3>1. {i} \in SUBSET Invoice
        OBVIOUS
      <3> QED
        BY <2>4, <3>1, ReconcileRefines DEF Claims!Next
    <2> QED
      BY <1>2, <2>1, <2>2, <2>3, <2>4 DEF RunStep
  <1> QED
    BY <1>1, <1>2 DEF Next

\* The payables of the system implement the abstract life of payment claims:
\* reservations are exclusive, end in payment or release, and payment is final.
THEOREM PayablesImplementClaims == Spec => ImplementsPaymentClaims
  <1>1. IInv /\ IInv' /\ [Next]_vars => [Claims!Next]_(Claims!vars)
    BY NextRefines
  <1> QED
    BY <1>1, InitRefines, InductiveInvariant, PTL
       DEF Spec, Claims!Spec, ImplementsPaymentClaims
=============================================================================
