---------------------------- MODULE ShipmentsProofs ----------------------------
(***************************************************************************)
(* What the shelves of the warehouses and the shipments keep, for any      *)
(* number of warehouses, orders and requests, and the facts about sums     *)
(* over finite sets that this rests on.                                    *)
(***************************************************************************)
EXTENDS Shipments, FiniteSetTheorems, WellFoundedInduction, TLAPS

-----------------------------------------------------------------------------
\* Among sets of subsets of a finite set there are smallest ones: what the inductions
\* over finite sets below are made from.
LEMMA SmallestSubset ==
    ASSUME NEW S, IsFiniteSet(S), NEW C, C \subseteq SUBSET S, C # {}
    PROVE  \E M \in C : \A T \in C : T \subseteq M => T = M
<1>1. C \subseteq FiniteSubsetsOf(S)
  BY FS_Subset DEF FiniteSubsetsOf
<1>2. PICK M \in C : \A T \in C : ~ (<<T, M>> \in StrictSubsetOrdering(S))
  BY <1>1, FS_StrictSubsetOrderingWellFounded, WFMin
<1>3. ASSUME NEW T \in C, T \subseteq M, T # M PROVE FALSE
  BY <1>1, <1>2, <1>3 DEF StrictSubsetOrdering, FiniteSubsetsOf
<1> QED
  BY <1>2, <1>3

-----------------------------------------------------------------------------
\* Sums over finite sets.  MapThenSumSet adds up one element after another, in an order
\* that is fixed and unknown; that there is such a function, and that the order does not
\* matter, are inductions over the subsets of a finite set.

SumOver(f, S) == MapThenSumSet(LAMBDA x : f[x], S)

First(s) == CHOOSE x \in s : TRUE

\* What the sums of all subsets of S are, given those of smaller ones.
Added(f, S, g) ==
    [s \in SUBSET S |-> IF s = {} THEN 0 ELSE f[First(s)] + g[s \ {First(s)}]]

LEMMA FirstIsIn == \A s : s # {} => First(s) \in s
BY DEF First

LEMMA SumOverIs ==
    ASSUME NEW f, NEW S
    PROVE  SumOver(f, S) = (CHOOSE g : g = Added(f, S, g))[S]
BY DEF SumOver, MapThenSumSet, MapThenFoldSet, Added, First

\* Sums over two sets agree where both have them.
LEMMA SumsAgree ==
    ASSUME NEW f, NEW S, NEW T, IsFiniteSet(S), NEW g, NEW h, g = Added(f, S, g), h = Added(f, T, h)
    PROVE  \A s \in SUBSET (S \cap T) : g[s] = h[s]
<1> DEFINE Apart == {s \in SUBSET S : s \subseteq T /\ g[s] # h[s]}
<1>1. SUFFICES ASSUME Apart # {} PROVE FALSE
  OBVIOUS
<1>2. PICK M \in Apart : \A s \in Apart : s \subseteq M => s = M
  <2>1. Apart \subseteq SUBSET S
    OBVIOUS
  <2> HIDE DEF Apart
  <2> QED
    BY <1>1, <2>1, SmallestSubset
<1>3. M \in SUBSET S /\ M \in SUBSET T /\ g[M] # h[M]
  BY <1>2
<1>4. g[M] = IF M = {} THEN 0 ELSE f[First(M)] + g[M \ {First(M)}]
  BY <1>3 DEF Added
<1>5. h[M] = IF M = {} THEN 0 ELSE f[First(M)] + h[M \ {First(M)}]
  BY <1>3 DEF Added
<1>6. M # {}
  BY <1>3, <1>4, <1>5
<1>7. M \ {First(M)} # M
  BY <1>6, FirstIsIn
<1>8. g[M \ {First(M)}] = h[M \ {First(M)}]
  BY <1>2, <1>3, <1>7
<1> QED
  BY <1>3, <1>4, <1>5, <1>8

LEMMA SumsExist ==
    ASSUME NEW f, NEW S, IsFiniteSet(S)
    PROVE  \E g : g = Added(f, S, g)
<1> DEFINE Without == {T \in SUBSET S : ~ \E g : g = Added(f, T, g)}
<1>1. SUFFICES ASSUME Without # {} PROVE FALSE
  OBVIOUS
<1>2. PICK M \in Without : \A T \in Without : T \subseteq M => T = M
  <2>1. Without \subseteq SUBSET S
    OBVIOUS
  <2> HIDE DEF Without
  <2> QED
    BY <1>1, <2>1, SmallestSubset
<1> DEFINE sums(T) == CHOOSE g : g = Added(f, T, g)
           h == [s \in SUBSET M |-> IF s = {} THEN 0
                   ELSE f[First(s)] + sums(s \ {First(s)})[s \ {First(s)}]]
<1>3. \A T \in SUBSET M : T # M => sums(T) = Added(f, T, sums(T))
  BY <1>2
<1>4. \A T \in SUBSET M : IsFiniteSet(T)
  BY <1>2, FS_Subset
<1> HIDE DEF sums
<1>5. ASSUME NEW T \in SUBSET M, T # M
      PROVE  h[T] = sums(T)[T]
  <2>1. sums(T) = Added(f, T, sums(T))
    BY <1>3, <1>5
  <2>2. sums(T)[T] = IF T = {} THEN 0 ELSE f[First(T)] + sums(T)[T \ {First(T)}]
    BY <2>1 DEF Added
  <2>3. CASE T = {}
    BY <2>2, <2>3
  <2>4. CASE T # {}
    <3> DEFINE U == T \ {First(T)}
    <3>1. U \in SUBSET M /\ U # M /\ U \subseteq T
      BY <1>5, <2>4, FirstIsIn
    <3>2. sums(U) = Added(f, U, sums(U))
      BY <1>3, <3>1
    <3>3. U \in SUBSET (T \cap U)
      BY <3>1
    <3> HIDE DEF U
    <3>4. sums(T)[U] = sums(U)[U]
      BY <1>4, <2>1, <3>2, <3>3, SumsAgree
    <3>5. h[T] = f[First(T)] + sums(U)[U]
      BY <2>4 DEF U
    <3> QED
      BY <2>2, <2>4, <3>4, <3>5 DEF U
  <2> QED
    BY <2>3, <2>4
<1>6. ASSUME NEW s \in SUBSET M, s # {}
      PROVE  h[s \ {First(s)}] = sums(s \ {First(s)})[s \ {First(s)}]
  <2>1. s \ {First(s)} \in SUBSET M /\ s \ {First(s)} # M
    BY <1>6, FirstIsIn
  <2> HIDE DEF h
  <2> QED
    BY <1>5, <2>1
<1>7. h = Added(f, M, h)
  <2>1. \A s \in SUBSET M : (IF s = {} THEN 0 ELSE f[First(s)] + sums(s \ {First(s)})[s \ {First(s)}])
                            = (IF s = {} THEN 0 ELSE f[First(s)] + h[s \ {First(s)}])
    BY <1>6
  <2> QED
    BY <2>1 DEF Added
<1> QED
  BY <1>2, <1>7

\* Whatever adds up S as Added says is its sum.
LEMMA SumIs ==
    ASSUME NEW f, NEW S, IsFiniteSet(S), NEW g, g = Added(f, S, g)
    PROVE  g[S] = SumOver(f, S)
<1> DEFINE h == CHOOSE x : x = Added(f, S, x)
<1>1. h = Added(f, S, h)
  BY SumsExist
<1>2. SumOver(f, S) = h[S]
  BY SumOverIs
<1> HIDE DEF h
<1> QED
  BY <1>1, <1>2, SumsAgree

LEMMA SumByFirst ==
    ASSUME NEW f, NEW S, IsFiniteSet(S)
    PROVE  SumOver(f, S) = IF S = {} THEN 0 ELSE f[First(S)] + SumOver(f, S \ {First(S)})
<1>1. PICK g : g = Added(f, S, g)
  BY SumsExist
<1>2. SumOver(f, S) = g[S]
  BY <1>1, SumIs
<1>3. g[S] = IF S = {} THEN 0 ELSE f[First(S)] + g[S \ {First(S)}]
  BY <1>1 DEF Added
<1>4. CASE S # {}
  <2> DEFINE T == S \ {First(S)}
  <2>1. IsFiniteSet(T) /\ T \in SUBSET (S \cap T)
    BY FS_Subset
  <2> HIDE DEF T
  <2>2. PICK h : h = Added(f, T, h)
    BY <2>1, SumsExist
  <2>3. h[T] = SumOver(f, T)
    BY <2>1, <2>2, SumIs
  <2>4. g[T] = h[T]
    BY <1>1, <2>1, <2>2, SumsAgree
  <2> QED
    BY <1>2, <1>3, <1>4, <2>3, <2>4 DEF T
<1> QED
  BY <1>2, <1>3, <1>4

LEMMA SumOfNone == \A f : SumOver(f, {}) = 0
BY FS_EmptySet, SumByFirst

LEMMA SumType ==
    ASSUME NEW S, IsFiniteSet(S), NEW f, \A x \in S : f[x] \in Nat
    PROVE  SumOver(f, S) \in Nat
<1> DEFINE Without == {T \in SUBSET S : SumOver(f, T) \notin Nat}
<1>1. SUFFICES ASSUME Without # {} PROVE FALSE
  OBVIOUS
<1>2. PICK M \in Without : \A T \in Without : T \subseteq M => T = M
  <2>1. Without \subseteq SUBSET S
    OBVIOUS
  <2> HIDE DEF Without
  <2> QED
    BY <1>1, <2>1, SmallestSubset
<1>3. M \in SUBSET S /\ SumOver(f, M) \notin Nat /\ IsFiniteSet(M)
  BY <1>2, FS_Subset
<1>4. SumOver(f, M) = IF M = {} THEN 0 ELSE f[First(M)] + SumOver(f, M \ {First(M)})
  BY <1>3, SumByFirst
<1>5. M # {}
  BY <1>3, <1>4
<1>6. First(M) \in M
  BY <1>5, FirstIsIn
<1>7. SumOver(f, M \ {First(M)}) \in Nat
  BY <1>2, <1>3, <1>6
<1> QED
  BY <1>3, <1>4, <1>5, <1>6, <1>7

\* One more.
LEMMA SumOfOneMore ==
    ASSUME NEW U, IsFiniteSet(U), NEW f, \A x \in U : f[x] \in Nat,
           NEW S \in SUBSET U, NEW x \in U \ S
    PROVE  SumOver(f, S \cup {x}) = f[x] + SumOver(f, S)
<1> DEFINE Apart == {T \in SUBSET U : \E y \in U \ T : SumOver(f, T \cup {y}) # f[y] + SumOver(f, T)}
<1>1. SUFFICES ASSUME Apart # {} PROVE FALSE
  OBVIOUS
<1>2. PICK M \in Apart : \A T \in Apart : T \subseteq M => T = M
  <2>1. Apart \subseteq SUBSET U
    OBVIOUS
  <2> HIDE DEF Apart
  <2> QED
    BY <1>1, <2>1, SmallestSubset
<1>3. M \in SUBSET U
  BY <1>2
<1>4. PICK y \in U \ M : SumOver(f, M \cup {y}) # f[y] + SumOver(f, M)
  BY <1>2
<1> DEFINE z == First(M \cup {y})
<1>5. z \in M \cup {y}
  BY FirstIsIn
<1>6. \A T \in SUBSET U : IsFiniteSet(T) /\ SumOver(f, T) \in Nat
  BY FS_Subset, SumType
<1>7. SumOver(f, M \cup {y}) = f[z] + SumOver(f, (M \cup {y}) \ {z})
  <2>1. M \cup {y} \in SUBSET U /\ M \cup {y} # {}
    BY <1>3, <1>4
  <2> QED
    BY <1>6, <2>1, SumByFirst
<1> HIDE DEF z
<1>8. CASE z = y
  <2>1. (M \cup {y}) \ {z} = M
    BY <1>4, <1>8
  <2> QED
    BY <1>4, <1>7, <1>8, <2>1
<1>9. CASE z # y
  <2>1. z \in M /\ z \in U
    BY <1>3, <1>5, <1>9
  <2>2. (M \cup {y}) \ {z} = (M \ {z}) \cup {y}
    BY <1>4, <1>9
  <2>3. M \ {z} \notin Apart /\ M \ {z} \in SUBSET U
    BY <1>2, <1>3, <2>1
  <2>4. SumOver(f, (M \ {z}) \cup {y}) = f[y] + SumOver(f, M \ {z})
    BY <1>4, <2>3
  <2>5. SumOver(f, (M \ {z}) \cup {z}) = f[z] + SumOver(f, M \ {z})
    BY <2>1, <2>3
  <2>6. (M \ {z}) \cup {z} = M
    BY <2>1
  <2>7. SumOver(f, M \ {z}) \in Nat /\ f[y] \in Nat /\ f[z] \in Nat
    BY <1>4, <1>6, <2>1, <2>3
  <2> QED
    BY <1>4, <1>7, <2>2, <2>4, <2>5, <2>6, <2>7
<1> QED
  BY <1>8, <1>9

LEMMA SumWithout ==
    ASSUME NEW U, IsFiniteSet(U), NEW f, \A x \in U : f[x] \in Nat,
           NEW S \in SUBSET U, NEW x \in S
    PROVE  SumOver(f, S) = f[x] + SumOver(f, S \ {x})
<1> DEFINE R == S \ {x}
<1>1. R \cup {x} = S /\ R \in SUBSET U /\ x \in U \ R
  OBVIOUS
<1> HIDE DEF R
<1>2. SumOver(f, R \cup {x}) = f[x] + SumOver(f, R)
  BY <1>1, SumOfOneMore
<1> QED
  BY <1>1, <1>2 DEF R

\* Two summands that agree have one sum.
LEMMA SumSame ==
    ASSUME NEW U, IsFiniteSet(U), NEW f, NEW h, \A x \in U : f[x] = h[x]
    PROVE  SumOver(f, U) = SumOver(h, U)
<1> DEFINE Apart == {T \in SUBSET U : SumOver(f, T) # SumOver(h, T)}
<1>1. SUFFICES ASSUME Apart # {} PROVE FALSE
  OBVIOUS
<1>2. PICK M \in Apart : \A T \in Apart : T \subseteq M => T = M
  <2>1. Apart \subseteq SUBSET U
    OBVIOUS
  <2> HIDE DEF Apart
  <2> QED
    BY <1>1, <2>1, SmallestSubset
<1>3. M \in SUBSET U /\ SumOver(f, M) # SumOver(h, M) /\ IsFiniteSet(M)
  BY <1>2, FS_Subset
<1>4. M # {}
  BY <1>3, SumOfNone
<1>5. First(M) \in M
  BY <1>4, FirstIsIn
<1>6. SumOver(f, M \ {First(M)}) = SumOver(h, M \ {First(M)})
  BY <1>2, <1>3, <1>5
<1>7. /\ SumOver(f, M) = f[First(M)] + SumOver(f, M \ {First(M)})
      /\ SumOver(h, M) = h[First(M)] + SumOver(h, M \ {First(M)})
  BY <1>3, <1>4, SumByFirst
<1> QED
  BY <1>3, <1>5, <1>6, <1>7

\* One summand changes.
LEMMA SumChanged ==
    ASSUME NEW U, IsFiniteSet(U), NEW f, NEW h, \A y \in U : f[y] \in Nat /\ h[y] \in Nat,
           NEW x \in U, \A y \in U \ {x} : f[y] = h[y]
    PROVE  SumOver(h, U) + f[x] = SumOver(f, U) + h[x]
<1>1. U \in SUBSET U /\ U \ {x} \in SUBSET U /\ IsFiniteSet(U \ {x})
  BY FS_Subset
<1>2. SumOver(f, U) = f[x] + SumOver(f, U \ {x}) /\ SumOver(h, U) = h[x] + SumOver(h, U \ {x})
  BY <1>1, SumWithout
<1>3. SumOver(f, U \ {x}) = SumOver(h, U \ {x})
  BY <1>1, SumSame
<1>4. SumOver(f, U \ {x}) \in Nat /\ SumOver(h, U \ {x}) \in Nat
  BY <1>1, SumType
<1>5. f[x] \in Nat /\ h[x] \in Nat
  OBVIOUS
<1> QED
  BY <1>2, <1>3, <1>4, <1>5

\* What is zero outside S adds nothing to it.
LEMMA SumWithin ==
    ASSUME NEW U, IsFiniteSet(U), NEW f, \A x \in U : f[x] \in Nat,
           NEW S \in SUBSET U, \A x \in U \ S : f[x] = 0
    PROVE  SumOver(f, U) = SumOver(f, S)
<1> DEFINE Apart == {T \in SUBSET U : S \subseteq T /\ SumOver(f, T) # SumOver(f, S)}
<1>1. SUFFICES ASSUME Apart # {} PROVE FALSE
  OBVIOUS
<1>2. PICK M \in Apart : \A T \in Apart : T \subseteq M => T = M
  <2>1. Apart \subseteq SUBSET U
    OBVIOUS
  <2> HIDE DEF Apart
  <2> QED
    BY <1>1, <2>1, SmallestSubset
<1>3. M \in SUBSET U /\ S \subseteq M /\ SumOver(f, M) # SumOver(f, S)
  BY <1>2
<1>4. PICK x \in M : x \notin S
  BY <1>3
<1>5. SumOver(f, M) = f[x] + SumOver(f, M \ {x})
  BY <1>3, SumWithout
<1>6. f[x] = 0
  BY <1>3, <1>4
<1>7. SumOver(f, M \ {x}) = SumOver(f, S)
  BY <1>2, <1>3, <1>4
<1>8. SumOver(f, S) \in Nat
  BY FS_Subset, SumType
<1> QED
  BY <1>3, <1>5, <1>6, <1>7, <1>8

\* More elements, and greater summands, have a greater sum.
LEMMA SumOfSubset ==
    ASSUME NEW U, IsFiniteSet(U), NEW f, \A x \in U : f[x] \in Nat,
           NEW T \in SUBSET U, NEW S \in SUBSET T
    PROVE  SumOver(f, S) <= SumOver(f, T)
<1> DEFINE Apart == {R \in SUBSET U : S \subseteq R /\ ~(SumOver(f, S) <= SumOver(f, R))}
<1>1. SUFFICES ASSUME Apart # {} PROVE FALSE
  OBVIOUS
<1>2. PICK M \in Apart : \A R \in Apart : R \subseteq M => R = M
  <2>1. Apart \subseteq SUBSET U
    OBVIOUS
  <2> HIDE DEF Apart
  <2> QED
    BY <1>1, <2>1, SmallestSubset
<1>3. M \in SUBSET U /\ S \subseteq M /\ ~(SumOver(f, S) <= SumOver(f, M))
  BY <1>2
<1>4. SumOver(f, S) \in Nat
  BY FS_Subset, SumType
<1>5. PICK x \in M : x \notin S
  BY <1>3, <1>4
<1>6. SumOver(f, M) = f[x] + SumOver(f, M \ {x})
  BY <1>3, SumWithout
<1>7. SumOver(f, S) <= SumOver(f, M \ {x})
  BY <1>2, <1>3, <1>5
<1>8. SumOver(f, M \ {x}) \in Nat /\ f[x] \in Nat
  <2>1. M \ {x} \in SUBSET U /\ \A y \in M \ {x} : f[y] \in Nat
    BY <1>3
  <2> QED
    BY <1>3, <2>1, FS_Subset, SumType
<1> QED
  BY <1>3, <1>4, <1>6, <1>7, <1>8

\* Two sets that have nothing in common.
LEMMA SumOfBoth ==
    ASSUME NEW U, IsFiniteSet(U), NEW f, \A x \in U : f[x] \in Nat,
           NEW S \in SUBSET U, NEW T \in SUBSET U, S \cap T = {}
    PROVE  SumOver(f, S \cup T) = SumOver(f, S) + SumOver(f, T)
<1> DEFINE Apart == {R \in SUBSET U : R \subseteq T /\ SumOver(f, S \cup R) # SumOver(f, S) + SumOver(f, R)}
<1>1. SUFFICES ASSUME Apart # {} PROVE FALSE
  OBVIOUS
<1>2. PICK M \in Apart : \A R \in Apart : R \subseteq M => R = M
  <2>1. Apart \subseteq SUBSET U
    OBVIOUS
  <2> HIDE DEF Apart
  <2> QED
    BY <1>1, <2>1, SmallestSubset
<1>3. M \in SUBSET U /\ M \subseteq T /\ SumOver(f, S \cup M) # SumOver(f, S) + SumOver(f, M)
  BY <1>2
<1>4. \A R \in SUBSET U : SumOver(f, R) \in Nat
  BY FS_Subset, SumType
<1>5. PICK x : x \in M
  <2>1. S \cup {} = S
    OBVIOUS
  <2>2. M # {}
    BY <1>3, <1>4, <2>1, SumOfNone
  <2> QED
    BY <2>2
<1>6. SumOver(f, M) = f[x] + SumOver(f, M \ {x})
  BY <1>3, <1>5, SumWithout
<1>7. SumOver(f, S \cup M) = f[x] + SumOver(f, S \cup (M \ {x}))
  <2>1. (S \cup M) \ {x} = S \cup (M \ {x}) /\ x \in S \cup M /\ S \cup M \in SUBSET U
    BY <1>3, <1>5
  <2> QED
    BY <2>1, SumWithout
<1>8. SumOver(f, S \cup (M \ {x})) = SumOver(f, S) + SumOver(f, M \ {x})
  <2>1. M \ {x} \notin Apart /\ M \ {x} \in SUBSET U /\ M \ {x} \subseteq T
    BY <1>2, <1>3, <1>5
  <2> QED
    BY <2>1
<1>9. SumOver(f, M \ {x}) \in Nat /\ f[x] \in Nat /\ SumOver(f, S) \in Nat
  BY <1>3, <1>4, <1>5
<1> QED
  BY <1>3, <1>6, <1>7, <1>8, <1>9

\* Each element counted at another place, no two at one.
LEMMA SumMoved ==
    ASSUME NEW U, IsFiniteSet(U), NEW V, IsFiniteSet(V), NEW f, \A y \in V : f[y] \in Nat,
           NEW g \in [U -> V], \A x, y \in U : g[x] = g[y] => x = y
    PROVE  SumOver([x \in U |-> f[g[x]]], U) = SumOver(f, {g[x] : x \in U})
<1> DEFINE m == [x \in U |-> f[g[x]]]
           At(T) == {g[x] : x \in T}
           Apart == {T \in SUBSET U : SumOver(m, T) # SumOver(f, At(T))}
<1>1. SUFFICES ASSUME Apart # {} PROVE FALSE
  OBVIOUS
<1>2. PICK M \in Apart : \A T \in Apart : T \subseteq M => T = M
  <2>1. Apart \subseteq SUBSET U
    OBVIOUS
  <2> HIDE DEF Apart
  <2> QED
    BY <1>1, <2>1, SmallestSubset
<1>3. M \in SUBSET U /\ SumOver(m, M) # SumOver(f, At(M))
  BY <1>2
<1>4. \A x \in U : m[x] = f[g[x]] /\ m[x] \in Nat
  OBVIOUS
<1>5. PICK x : x \in M
  <2>1. At({}) = {}
    OBVIOUS
  <2> HIDE DEF At, m
  <2>2. M # {}
    BY <1>3, <2>1, SumOfNone
  <2> QED
    BY <2>2
<1>6. At(M) \ {g[x]} = At(M \ {x}) /\ g[x] \in At(M) /\ At(M) \in SUBSET V
  BY <1>3, <1>5
<1>7. M \ {x} \notin Apart /\ M \ {x} \in SUBSET U
  BY <1>2, <1>3, <1>5
<1>8. SumOver(m, M \ {x}) = SumOver(f, At(M \ {x}))
  BY <1>7
<1> HIDE DEF m, At, Apart
<1>9. SumOver(m, M) = m[x] + SumOver(m, M \ {x})
  BY <1>3, <1>4, <1>5, SumWithout
<1>10. SumOver(f, At(M)) = f[g[x]] + SumOver(f, At(M) \ {g[x]})
  BY <1>6, SumWithout
<1> QED
  BY <1>3, <1>4, <1>5, <1>6, <1>8, <1>9, <1>10

-----------------------------------------------------------------------------
\* Rows are numbered as they are made.

InARow(rows, n) == \A j \in DOMAIN rows : j <= n <=> rows[j] # Missing

LEMMA NextRowIs ==
    ASSUME NEW N \in Nat, NEW rows, DOMAIN rows = 1..N, NEW n \in 0..N, InARow(rows, n)
    PROVE  NextRow(rows) = n + 1
<1>1. Cardinality(DOMAIN rows) = N
  BY FS_Interval
<1>2. \A i \in 1..(N + 1) : (\A j \in 1..N : j < i <=> rows[j] # Missing) <=> i = n + 1
  <2> SUFFICES ASSUME NEW i \in 1..(N + 1)
               PROVE  (\A j \in 1..N : j < i <=> rows[j] # Missing) <=> i = n + 1
    OBVIOUS
  <2>1. \A j \in 1..N : j <= n <=> rows[j] # Missing
    BY DEF InARow
  <2>2. ASSUME i = n + 1 PROVE \A j \in 1..N : j < i <=> rows[j] # Missing
    BY <2>1, <2>2
  <2>3. ASSUME \A j \in 1..N : j < i <=> rows[j] # Missing, i < n + 1 PROVE FALSE
    <3>1. i \in 1..N /\ i <= n /\ ~(i < i)
      BY <2>3
    <3> QED
      BY <2>1, <2>3, <3>1
  <2>4. ASSUME \A j \in 1..N : j < i <=> rows[j] # Missing, i > n + 1 PROVE FALSE
    <3>1. n + 1 \in 1..N /\ n + 1 < i /\ ~(n + 1 <= n)
      BY <2>4
    <3> QED
      BY <2>1, <2>4, <3>1
  <2>5. i < n + 1 \/ i = n + 1 \/ i > n + 1
    OBVIOUS
  <2> QED
    BY <2>2, <2>3, <2>4, <2>5
<1>3. n + 1 \in 1..(N + 1)
  OBVIOUS
<1> QED
  BY <1>1, <1>2, <1>3 DEF NextRow

\* The place of a warehouse among those that a plan uses.
PlaceIn(used, w) == Cardinality({x \in used : x < w})

LEMMA PlacesAreDistinct ==
    ASSUME NEW used \in SUBSET Nat, IsFiniteSet(used)
    PROVE  /\ \A w \in used : PlaceIn(used, w) \in 0..(Cardinality(used) - 1)
           /\ \A w, x \in used : PlaceIn(used, w) = PlaceIn(used, x) => w = x
<1>1. \A w \in used : {x \in used : x < w} \in SUBSET used /\ {x \in used : x < w} # used
  OBVIOUS
<1>2. \A w \in used : PlaceIn(used, w) \in Nat /\ PlaceIn(used, w) < Cardinality(used)
  <2> SUFFICES ASSUME NEW w \in used
               PROVE  PlaceIn(used, w) \in Nat /\ PlaceIn(used, w) < Cardinality(used)
    OBVIOUS
  <2> DEFINE below == {x \in used : x < w}
  <2>1. below \in SUBSET used /\ below # used
    BY <1>1
  <2>2. PlaceIn(used, w) = Cardinality(below)
    BY DEF PlaceIn
  <2> HIDE DEF below
  <2>3. /\ Cardinality(below) \in Nat /\ Cardinality(used) \in Nat
        /\ Cardinality(below) <= Cardinality(used) /\ Cardinality(used) # Cardinality(below)
    BY <2>1, FS_Subset, FS_CardinalityType
  <2> QED
    BY <2>2, <2>3
<1>3. ASSUME NEW w \in used, NEW x \in used, w < x
      PROVE  PlaceIn(used, w) # PlaceIn(used, x)
  <2> DEFINE below(y) == {z \in used : z < y}
  <2>1. below(w) \in SUBSET below(x) /\ w \in below(x) /\ w \notin below(w) /\ below(x) \in SUBSET used
    <3>1. \A z \in used : z < w => z < x
      BY <1>3
    <3>2. w < x /\ ~(w < w)
      BY <1>3
    <3> QED
      BY <1>3, <3>1, <3>2
  <2>2. PlaceIn(used, w) = Cardinality(below(w)) /\ PlaceIn(used, x) = Cardinality(below(x))
    BY DEF PlaceIn
  <2> HIDE DEF below
  <2>3. IsFiniteSet(below(x))
    BY <2>1, FS_Subset
  <2> QED
    BY <2>1, <2>2, <2>3, FS_Subset
<1>4. ASSUME NEW w \in used, NEW x \in used, PlaceIn(used, w) = PlaceIn(used, x)
      PROVE  w = x
  <2>1. w < x \/ x < w \/ w = x
    OBVIOUS
  <2> QED
    BY <1>3, <1>4, <2>1
<1>5. Cardinality(used) \in Nat
  BY FS_CardinalityType
<1> QED
  BY <1>2, <1>4, <1>5

LEMMA PlacesAreAll ==
    ASSUME NEW used \in SUBSET Nat, IsFiniteSet(used)
    PROVE  \A i \in 0..(Cardinality(used) - 1) : \E w \in used : PlaceIn(used, w) = i
<1> DEFINE T == 0..(Cardinality(used) - 1)
           g == [w \in used |-> PlaceIn(used, w)]
<1>1. Cardinality(used) \in Nat
  BY FS_CardinalityType
<1>2. IsFiniteSet(T) /\ Cardinality(T) = Cardinality(used)
  <2>1. PICK c \in Nat : c = Cardinality(used)
    BY <1>1
  <2>2. IsFiniteSet(0..(c - 1)) /\ Cardinality(0..(c - 1)) = IF 0 > c - 1 THEN 0 ELSE (c - 1) - 0 + 1
    BY FS_Interval
  <2> QED
    BY <2>1, <2>2
<1>3. g \in Injection(used, T)
  BY PlacesAreDistinct DEF Injection, IsInjective
<1> HIDE DEF g, T
<1>4. g \in Surjection(used, T)
  BY <1>2, <1>3, FS_Injection
<1>5. \A i \in T : \E w \in used : g[w] = i
  BY <1>4 DEF Surjection
<1> QED
  BY <1>5 DEF g, T

-----------------------------------------------------------------------------
\* The sums of the model, as sums of functions.

LEMMA SettledAreSum ==
    ASSUME NEW S, IsFiniteSet(S), NEW v
    PROVE  SettledIn(S, v) = SumOver([s \in S |-> settled[s] * shipment[s].items[v]], S)
<1> DEFINE f == [s \in S |-> settled[s] * shipment[s].items[v]]
           A(g) == [s \in SUBSET S |-> IF s = {} THEN 0
                      ELSE settled[First(s)] * shipment[First(s)].items[v] + g[s \ {First(s)}]]
<1>1. ASSUME NEW g PROVE A(g) = Added(f, S, g)
  <2>1. \A s \in SUBSET S : s # {} => f[First(s)] = settled[First(s)] * shipment[First(s)].items[v]
    BY FirstIsIn
  <2> HIDE DEF f
  <2> QED
    BY <2>1 DEF Added
<1>2. SettledIn(S, v) = (CHOOSE g : g = A(g))[S]
  BY DEF SettledIn, MapThenSumSet, MapThenFoldSet, First
<1> HIDE DEF A, f
<1>3. \E g : g = A(g)
  BY <1>1, SumsExist
<1>4. PICK g : g = A(g) /\ SettledIn(S, v) = g[S]
  BY <1>2, <1>3
<1>5. g[S] = SumOver(f, S)
  BY <1>1, <1>4, SumIs
<1> QED
  BY <1>4, <1>5 DEF f

LEMMA UnitsAreSum ==
    ASSUME NEW S, IsFiniteSet(S), NEW v
    PROVE  UnitsIn(S, v) = SumOver([s \in S |-> shipment[s].items[v]], S)
<1> DEFINE f == [s \in S |-> shipment[s].items[v]]
           A(g) == [s \in SUBSET S |-> IF s = {} THEN 0
                      ELSE shipment[First(s)].items[v] + g[s \ {First(s)}]]
<1>1. ASSUME NEW g PROVE A(g) = Added(f, S, g)
  <2>1. \A s \in SUBSET S : s # {} => f[First(s)] = shipment[First(s)].items[v]
    BY FirstIsIn
  <2> HIDE DEF f
  <2> QED
    BY <2>1 DEF Added
<1>2. UnitsIn(S, v) = (CHOOSE g : g = A(g))[S]
  BY DEF UnitsIn, MapThenSumSet, MapThenFoldSet, First
<1> HIDE DEF A, f
<1>3. \E g : g = A(g)
  BY <1>1, SumsExist
<1>4. PICK g : g = A(g) /\ UnitsIn(S, v) = g[S]
  BY <1>2, <1>3
<1>5. g[S] = SumOver(f, S)
  BY <1>1, <1>4, SumIs
<1> QED
  BY <1>4, <1>5 DEF f

-----------------------------------------------------------------------------
\* The inductive invariant.

OrderRecord == [status : {"CONFIRMED", "PROCESSING", "RETURN_REQUESTED"}, items : Units]
ShipmentRecord == [status : ShipmentStatus, o : OrderRows, w : Warehouses, items : Units]
Sums == UNION {[V -> [stock : Nat, reserved : Nat]] : V \in SUBSET Variants}

WorkTyped(c) ==
    \/ c = NoWork
    \/ /\ c.stage \in {"ready", "written", "summed"}
       /\ c.todo \subseteq Transaction
       /\ c.stage # "ready" => c.tx \in c.todo
       /\ c.stage = "summed" => c.sums \in Sums

RowsTyped ==
    /\ shelf \in [Warehouses -> [Variants -> Level]]
    /\ cached \in [Variants -> [stock : Nat, reserved : Nat]]
    /\ orderRow \in [OrderRows -> {Missing} \cup OrderRecord]
    /\ shipment \in [ShipmentRows -> {Missing} \cup ShipmentRecord]
    /\ settled \in [ShipmentRows -> Nat]
    /\ clerk = [k \in Clerks |-> clerk[k]]
    /\ \A k \in Clerks : WorkTyped(clerk[k])

\* Orders and shipments are numbered without gaps.
RowsInARow ==
    /\ \E n \in 1..MaxOrderRows : InARow(orderRow, n)
    /\ \E n \in 0..MaxShipments : InARow(shipment, n)

MayCommit(tx) == \A r \in Rows(tx) : Written(tx, r[1], r[2]) \in Level

HasWritten(k) == clerk[k].stage \in {"written", "summed"}

\* A transaction that has written its rows keeps them from the others, and may commit
\* them.
LocksHold ==
    /\ \A k \in Clerks : \A tx \in clerk[k].todo :
          HasWritten(k) /\ clerk[k].tx = tx => MayCommit(tx)
    /\ \A k, l \in Clerks : k # l => Locked(k) \cap Locked(l) = {}

\* The shipment has arrived, or is back.
Final(tx) == tx.kind \in {"DELIVERED", "RTO"}
Ships(tx) == tx.kind \in {"ship", "split"}
PlanOf(row) == [w \in Warehouses |-> IF w = row.w THEN row.items ELSE Nothing]

\* What is still to be done is about rows that exist.
WorkIsDue ==
    \A k \in Clerks : \A tx \in clerk[k].todo :
        /\ Ships(tx) => orderRow[tx.o] # Missing
        /\ Final(tx) => shipment[tx.s] # Missing /\ tx.plan = PlanOf(shipment[tx.s])

ShipmentsHaveOrders ==
    \A s \in ShipmentRows : shipment[s] # Missing => orderRow[shipment[s].o] # Missing

\* Units are reserved when a shipment is created and taken each time it is concluded.
StoredAt(s, w) == shipment[s] # Missing /\ shipment[s].w = w
UnitsAt(w, v) ==
    [s \in ShipmentRows |-> IF StoredAt(s, w) THEN shipment[s].items[v] ELSE 0]
SettledAt(w, v) ==
    [s \in ShipmentRows |-> IF StoredAt(s, w) THEN settled[s] * shipment[s].items[v] ELSE 0]

ShelvesBalanced ==
    \A w \in Warehouses, v \in Variants :
        shelf[w][v].reserved + SumOver(SettledAt(w, v), ShipmentRows)
            = SumOver(UnitsAt(w, v), ShipmentRows)

\* Nothing was concluded before it was there.
SettledExist == \A s \in ShipmentRows : shipment[s] = Missing => settled[s] = 0

\* The order that was there at first is routed once: its shipments, and those that are
\* still to be created, are one for each warehouse of a plan.
OneShip(P, w) == [kind |-> "ship", o |-> 1, plan |-> [x \in Warehouses |-> IF x = w THEN P[w] ELSE Nothing]]

Planned(P, v) == SumOver([w \in Warehouses |-> P[w][v]], Warehouses)

FollowsPlan(P) ==
    /\ \A v \in Variants : Planned(P, v) <= Bought[v]
    /\ \A s \in Shipped(1) : shipment[s].items = P[shipment[s].w]
    /\ \A s, t \in Shipped(1) : shipment[s].w = shipment[t].w => s = t
    /\ \A k \in Clerks : \A tx \in clerk[k].todo : tx.kind = "ship" =>
          /\ \E w \in Warehouses :
                /\ tx = OneShip(P, w) /\ P[w] # Nothing
                /\ \A s \in Shipped(1) : shipment[s].w # w
          /\ \A l \in Clerks : \A ux \in clerk[l].todo : ux.kind = "ship" => l = k

RoutedOnce ==
    /\ routings \in 0..MaxRoutings
    /\ orderRow[1] # Missing /\ orderRow[1].items = Bought
    /\ routings = 0 =>
          /\ \A o \in OrderRows : orderRow[o] # Missing => o = 1
          /\ Shipped(1) = {}
          /\ \A k \in Clerks : \A tx \in clerk[k].todo : ~Ships(tx)
    /\ routings = 1 => \E P \in [Warehouses -> Units] : FollowsPlan(P)

ShipmentsInv ==
    /\ RowsTyped /\ RowsInARow /\ LocksHold /\ WorkIsDue /\ ShipmentsHaveOrders
    /\ ShelvesBalanced /\ SettledExist /\ RoutedOnce

LEMMA WarehouseSumIs == \A f : WarehouseSum(f) = SumOver(f, Warehouses)
BY DEF WarehouseSum, SumOver

LEMMA WarehousesFinite == IsFiniteSet(Warehouses)
BY ShipmentsAssumption

LEMMA WarehouseSumType ==
    ASSUME NEW f, \A w \in Warehouses : f[w] \in Nat
    PROVE  WarehouseSum(f) \in Nat
BY WarehouseSumIs, SumType, ShipmentsAssumption

LEMMA RowsAreFinite == IsFiniteSet(ShipmentRows) /\ \A S \in SUBSET ShipmentRows : IsFiniteSet(S)
<1>1. IsFiniteSet(1..MaxShipments)
  BY FS_Interval, ShipmentsAssumption
<1> QED
  BY <1>1, FS_Subset DEF ShipmentRows

LEMMA NothingTyped == Nothing \in Units /\ \A v \in Variants : Nothing[v] = 0
BY ShipmentsAssumption DEF Nothing, Units

LEMMA ShipmentsInvStarts == ShipmentsInit => ShipmentsInv
<1> SUFFICES ASSUME ShipmentsInit PROVE ShipmentsInv
  OBVIOUS
<1>1. PICK first \in [Warehouses -> [Variants -> 0..MaxShelf]] :
          /\ shelf = [w \in Warehouses |-> [v \in Variants |-> [stock |-> first[w][v], reserved |-> 0]]]
          /\ cached = [v \in Variants |->
                [stock    |-> WarehouseSum([w \in Warehouses |-> shelf[w][v].stock]),
                 reserved |-> WarehouseSum([w \in Warehouses |-> shelf[w][v].reserved])]]
  BY DEF ShipmentsInit
<1>2. /\ orderRow = [o \in OrderRows |-> IF o = 1 THEN [status |-> "CONFIRMED", items |-> Bought] ELSE Missing]
      /\ shipment = [s \in ShipmentRows |-> Missing]
      /\ routings = 0
      /\ settled = [s \in ShipmentRows |-> 0]
      /\ clerk = [k \in Clerks |-> NoWork]
  BY DEF ShipmentsInit
<1>3. shelf \in [Warehouses -> [Variants -> Level]]
  <2>1. \A n \in 0..MaxShelf : [stock |-> n, reserved |-> 0] \in Level
    BY ShipmentsAssumption DEF Level
  <2> QED
    BY <1>1, <2>1
<1>4. cached \in [Variants -> [stock : Nat, reserved : Nat]]
  <2> SUFFICES ASSUME NEW v \in Variants
               PROVE  /\ WarehouseSum([w \in Warehouses |-> shelf[w][v].stock]) \in Nat
                      /\ WarehouseSum([w \in Warehouses |-> shelf[w][v].reserved]) \in Nat
    BY <1>1
  <2>1. \A w \in Warehouses : shelf[w][v].stock \in Nat /\ shelf[w][v].reserved \in Nat
    BY <1>3, ShipmentsAssumption DEF Level
  <2> DEFINE f == [w \in Warehouses |-> shelf[w][v].stock]
             g == [w \in Warehouses |-> shelf[w][v].reserved]
  <2>2. \A w \in Warehouses : f[w] \in Nat /\ g[w] \in Nat
    BY <2>1
  <2> HIDE DEF f, g
  <2>3. WarehouseSum(f) \in Nat /\ WarehouseSum(g) \in Nat
    BY <2>2, WarehouseSumType
  <2> QED
    BY <2>3 DEF f, g
<1>5. /\ orderRow \in [OrderRows -> {Missing} \cup OrderRecord]
      /\ shipment \in [ShipmentRows -> {Missing} \cup ShipmentRecord]
      /\ settled \in [ShipmentRows -> Nat]
  BY <1>2, ShipmentsAssumption DEF OrderRecord
<1>6. clerk = [k \in Clerks |-> clerk[k]] /\ \A k \in Clerks : clerk[k] = NoWork
  BY <1>2
<1>7. RowsTyped
  BY <1>3, <1>4, <1>5, <1>6 DEF RowsTyped, WorkTyped
<1>8. 1 \in OrderRows /\ orderRow[1] = [status |-> "CONFIRMED", items |-> Bought]
      /\ \A o \in OrderRows : o # 1 => orderRow[o] = Missing
  BY <1>2, ShipmentsAssumption DEF OrderRows
<1>9. orderRow[1] # Missing
  BY <1>8 DEF Missing
<1>10. RowsInARow
  <2>1. InARow(orderRow, 1)
    BY <1>2, <1>8, <1>9 DEF InARow, OrderRows
  <2>2. InARow(shipment, 0)
    BY <1>2 DEF InARow, ShipmentRows
  <2> QED
    BY <2>1, <2>2, ShipmentsAssumption DEF RowsInARow
<1>11. \A k \in Clerks : clerk[k].todo = {} /\ ~HasWritten(k)
  BY <1>6 DEF NoWork, HasWritten
<1>12. LocksHold
  BY <1>11 DEF LocksHold, Locked, HasWritten
<1>13. WorkIsDue
  BY <1>11 DEF WorkIsDue
<1>14. ShipmentsHaveOrders
  BY <1>2 DEF ShipmentsHaveOrders
<1>15. ShelvesBalanced /\ SettledExist
  <2>1. ASSUME NEW w \in Warehouses, NEW v \in Variants
        PROVE  shelf[w][v].reserved + SumOver(SettledAt(w, v), ShipmentRows)
                   = SumOver(UnitsAt(w, v), ShipmentRows)
    <3>1. \A s \in ShipmentRows : UnitsAt(w, v)[s] = 0 /\ SettledAt(w, v)[s] = 0
      BY <1>2 DEF UnitsAt, SettledAt, StoredAt
    <3>2. PICK f, g : f = UnitsAt(w, v) /\ g = SettledAt(w, v)
      OBVIOUS
    <3>3. {} \in SUBSET ShipmentRows
      OBVIOUS
    <3>4. \A s \in ShipmentRows : f[s] \in Nat /\ g[s] \in Nat /\ f[s] = 0 /\ g[s] = 0
      BY <3>1, <3>2
    <3>5. SumOver(f, ShipmentRows) = SumOver(f, {}) /\ SumOver(g, ShipmentRows) = SumOver(g, {})
      BY <3>3, <3>4, RowsAreFinite, SumWithin
    <3>6. shelf[w][v].reserved = 0
      BY <1>1
    <3> QED
      BY <3>2, <3>5, <3>6, SumOfNone
  <2>2. SettledExist
    BY <1>2 DEF SettledExist
  <2> QED
    BY <2>1, <2>2 DEF ShelvesBalanced
<1>16. RoutedOnce
  <2>1. Shipped(1) = {}
    BY <1>2 DEF Shipped
  <2>2. orderRow[1].items = Bought
    BY <1>8
  <2> QED
    BY <1>2, <1>8, <1>9, <1>11, <2>1, <2>2, ShipmentsAssumption DEF RoutedOnce
<1> QED
  BY <1>7, <1>10, <1>12, <1>13, <1>14, <1>15, <1>16 DEF ShipmentsInv

-----------------------------------------------------------------------------
\* A step that only its clerk sees.

\* What the clerk takes to be done is about orders that exist, and no shipment's last
\* transaction that was not there.
MayTake(c, k) ==
    /\ WorkTyped(c)
    /\ \A tx \in c.todo :
          /\ Ships(tx) => orderRow[tx.o] # Missing
          /\ Final(tx) => tx \in clerk[k].todo

\* What it has written may be committed, and nobody else has.
MayHold(c, k) ==
    c.stage \in {"written", "summed"} =>
        /\ MayCommit(c.tx)
        /\ \A l \in Clerks \ {k} : Locked(l) \cap Rows(c.tx) = {}

LEMMA ClerkTurns ==
    ASSUME ShipmentsInv, NEW k \in Clerks, NEW c, MayTake(c, k), MayHold(c, k),
           clerk' = [clerk EXCEPT ![k] = c], UNCHANGED <<shelf, cached, orderRow, shipment, settled>>
    PROVE  /\ RowsTyped' /\ RowsInARow' /\ LocksHold' /\ WorkIsDue' /\ ShipmentsHaveOrders'
           /\ ShelvesBalanced' /\ SettledExist'
<1>1. /\ RowsTyped /\ RowsInARow /\ LocksHold /\ WorkIsDue /\ ShipmentsHaveOrders
      /\ ShelvesBalanced /\ SettledExist
  BY DEF ShipmentsInv
<1>2. /\ clerk' = [l \in Clerks |-> clerk'[l]]
      /\ \A l \in Clerks : clerk'[l] = IF l = k THEN c ELSE clerk[l]
  BY <1>1 DEF RowsTyped
<1>3. RowsTyped'
  BY <1>1, <1>2 DEF RowsTyped, MayTake
<1>4. RowsInARow' /\ ShipmentsHaveOrders'
  BY <1>1 DEF RowsInARow, InARow, ShipmentsHaveOrders
<1>5. LocksHold'
  <2>1. ASSUME NEW tx PROVE Rows(tx)' = Rows(tx) /\ MayCommit(tx)' = MayCommit(tx)
    BY DEF Rows, Written, MayCommit
  <2>2. ASSUME NEW l \in Clerks, l # k PROVE Locked(l)' = Locked(l) /\ HasWritten(l)' = HasWritten(l)
    BY <1>2, <2>1, <2>2 DEF Locked, HasWritten
  <2>3. /\ HasWritten(k)' => c.stage \in {"written", "summed"}
        /\ Locked(k)' = IF c.stage \in {"written", "summed"} THEN Rows(c.tx) ELSE {}
    BY <1>2, <2>1 DEF Locked, HasWritten
  <2>4. ASSUME NEW l \in Clerks, NEW tx \in clerk'[l].todo, HasWritten(l)', clerk'[l].tx = tx
        PROVE  MayCommit(tx)'
    <3>1. CASE l = k
      BY <1>2, <2>1, <2>3, <2>4, <3>1 DEF MayHold
    <3>2. CASE l # k
      BY <1>1, <1>2, <2>1, <2>2, <2>4, <3>2 DEF LocksHold
    <3> QED
      BY <3>1, <3>2
  <2>5. ASSUME NEW l \in Clerks, NEW m \in Clerks, l # m
        PROVE  Locked(l)' \cap Locked(m)' = {}
    <3>1. CASE l # k /\ m # k
      BY <1>1, <2>2, <2>5, <3>1 DEF LocksHold
    <3>2. CASE l = k
      BY <2>2, <2>3, <2>5, <3>2 DEF MayHold
    <3>3. CASE m = k
      BY <2>2, <2>3, <2>5, <3>3 DEF MayHold
    <3> QED
      BY <3>1, <3>2, <3>3
  <2> QED
    BY <2>4, <2>5 DEF LocksHold
<1>6. \A l \in Clerks : \A tx \in clerk'[l].todo :
          /\ Ships(tx) => orderRow[tx.o] # Missing
          /\ Final(tx) => tx \in clerk[l].todo
  BY <1>1, <1>2 DEF MayTake, WorkIsDue
<1>7. WorkIsDue'
  <2> SUFFICES ASSUME NEW l \in Clerks, NEW tx \in clerk'[l].todo
               PROVE  /\ Ships(tx) => orderRow[tx.o] # Missing
                      /\ Final(tx) => shipment[tx.s] # Missing /\ tx.plan = PlanOf(shipment[tx.s])
    BY DEF WorkIsDue, Ships, Final, PlanOf, Nothing
  <2> QED
    BY <1>1, <1>6 DEF WorkIsDue
<1>8. ShelvesBalanced' /\ SettledExist'
  <2>1. \A w, v : UnitsAt(w, v)' = UnitsAt(w, v) /\ SettledAt(w, v)' = SettledAt(w, v)
    BY DEF UnitsAt, SettledAt, StoredAt
  <2> QED
    BY <1>1, <2>1 DEF ShelvesBalanced, SettledExist
<1> QED
  BY <1>3, <1>4, <1>5, <1>7, <1>8

\* No order is routed by it.
LEMMA RoutingStays ==
    ASSUME ShipmentsInv, NEW k \in Clerks, NEW c,
           \A tx \in c.todo : Ships(tx) => tx \in clerk[k].todo,
           clerk' = [clerk EXCEPT ![k] = c], UNCHANGED <<orderRow, shipment, routings>>
    PROVE  RoutedOnce'
<1>1. RowsTyped /\ RoutedOnce
  BY DEF ShipmentsInv
<1>2. \A l \in Clerks : clerk'[l] = IF l = k THEN c ELSE clerk[l]
  BY <1>1 DEF RowsTyped
<1>3. \A l \in Clerks : \A tx \in clerk'[l].todo : Ships(tx) => tx \in clerk[l].todo
  BY <1>2
<1>4. Shipped(1)' = Shipped(1)
  BY DEF Shipped
<1>5. ASSUME NEW P \in [Warehouses -> Units], FollowsPlan(P)
      PROVE  FollowsPlan(P)'
  <2>1. \A l \in Clerks : \A tx \in clerk'[l].todo : tx.kind = "ship" => tx \in clerk[l].todo
    BY <1>3 DEF Ships
  <2>2. \A l \in Clerks : \A tx \in clerk'[l].todo : tx.kind = "ship" =>
          /\ \E w \in Warehouses :
                /\ tx = OneShip(P, w) /\ P[w] # Nothing
                /\ \A s \in Shipped(1) : shipment[s].w # w
          /\ \A m \in Clerks : \A ux \in clerk'[m].todo : ux.kind = "ship" => m = l
    BY <1>5, <2>1 DEF FollowsPlan
  <2>3. /\ \A v \in Variants : Planned(P, v) <= Bought[v]
        /\ \A s \in Shipped(1) : shipment[s].items = P[shipment[s].w]
        /\ \A s, t \in Shipped(1) : shipment[s].w = shipment[t].w => s = t
    BY <1>5 DEF FollowsPlan
  <2>4. \A v \in Variants : Planned(P, v)' = Planned(P, v)
    BY DEF Planned
  <2> QED
    BY <1>4, <2>2, <2>3, <2>4 DEF FollowsPlan, OneShip, Nothing
<1>6. routings = 0 => \A l \in Clerks : \A tx \in clerk'[l].todo : ~Ships(tx)
  BY <1>1, <1>3 DEF RoutedOnce
<1> QED
  BY <1>1, <1>4, <1>5, <1>6 DEF RoutedOnce, Ships

LEMMA TurnKeeps ==
    ASSUME ShipmentsInv, NEW k \in Clerks, NEW c, MayTake(c, k), MayHold(c, k),
           \A tx \in c.todo : Ships(tx) => tx \in clerk[k].todo,
           clerk' = [clerk EXCEPT ![k] = c], UNCHANGED <<shelf, cached, orderRow, shipment, routings, settled>>
    PROVE  ShipmentsInv'
<1>1. RoutedOnce'
  BY RoutingStays
<1> QED
  BY <1>1, ClerkTurns DEF ShipmentsInv

\* Nobody holds what a request that ends or begins has to do.
LEMMA AnswerKeeps ==
    ASSUME ShipmentsInv, NEW k \in Clerks, Answer(k),
           UNCHANGED <<shelf, cached, orderRow, shipment, routings, settled>>
    PROVE  ShipmentsInv'
<1>1. NoWork.todo = {} /\ NoWork.stage = "idle"
  BY DEF NoWork
<1>2. MayTake(NoWork, k) /\ MayHold(NoWork, k)
  BY <1>1 DEF MayTake, MayHold, WorkTyped
<1>3. \A tx \in NoWork.todo : Ships(tx) => tx \in clerk[k].todo
  BY <1>1
<1>4. clerk' = [clerk EXCEPT ![k] = NoWork]
  BY DEF Answer
<1> QED
  BY <1>2, <1>3, <1>4, TurnKeeps

LEMMA CountKeeps ==
    ASSUME ShipmentsInv, NEW k \in Clerks, NEW w \in Warehouses, NEW v \in Variants, NEW n \in Counts,
           UpdateInventory(k, w, v, n)
    PROVE  ShipmentsInv'
<1> DEFINE tx == [kind |-> "count", w |-> w, v |-> v, stock |-> n]
           c == [stage |-> "ready", todo |-> {tx}]
<1>1. tx \in Transaction
  BY ShipmentsAssumption DEF Transaction
<1>2. ~Ships(tx) /\ ~Final(tx)
  BY DEF Ships, Final
<1>3. c.stage = "ready" /\ c.todo = {tx}
  OBVIOUS
<1>4. clerk' = [clerk EXCEPT ![k] = c]
  BY DEF UpdateInventory, Assign
<1> HIDE DEF tx, c
<1>5. MayTake(c, k) /\ MayHold(c, k)
  BY <1>1, <1>2, <1>3 DEF MayTake, MayHold, WorkTyped
<1> QED
  BY <1>2, <1>3, <1>4, <1>5, TurnKeeps DEF UpdateInventory

-----------------------------------------------------------------------------
\* The writes of a transaction.

LEMMA TransactionTyped ==
    ASSUME NEW tx \in Transaction
    PROVE  /\ Ships(tx) => tx.o \in OrderRows /\ tx.plan \in [Warehouses -> Units]
           /\ Final(tx) => tx.s \in ShipmentRows /\ tx.plan \in [Warehouses -> Units]
           /\ tx.kind = "count" => tx.w \in Warehouses /\ tx.v \in Variants /\ tx.stock \in 0..MaxShelf
           /\ tx.kind = "count" \/ Ships(tx) \/ Final(tx)
           /\ Rows(tx) \subseteq Warehouses \X Variants
<1>1. CASE tx \in [kind : {"ship", "split"}, o : OrderRows, plan : [Warehouses -> Units]]
  BY <1>1 DEF Ships, Final, Rows
<1>2. CASE tx \in [kind : {"DELIVERED", "RTO"}, s : ShipmentRows, plan : [Warehouses -> Units]]
  BY <1>2 DEF Ships, Final, Rows
<1>3. CASE tx \in [kind : {"count"}, w : Warehouses, v : Variants, stock : 0..MaxShelf]
  BY <1>3 DEF Ships, Final, Rows
<1> QED
  BY <1>1, <1>2, <1>3 DEF Transaction

\* What a transaction makes of a row that it may write.
LEMMA WrittenIs ==
    ASSUME RowsTyped, NEW tx \in Transaction, NEW w \in Warehouses, NEW v \in Variants
    PROVE  /\ tx.kind = "count" =>
                Written(tx, w, v) = [stock |-> tx.stock, reserved |-> shelf[w][v].reserved]
           /\ Ships(tx) =>
                Written(tx, w, v) = [stock |-> shelf[w][v].stock,
                                     reserved |-> shelf[w][v].reserved + tx.plan[w][v]]
           /\ Final(tx) =>
                /\ Written(tx, w, v).reserved = shelf[w][v].reserved - tx.plan[w][v]
                /\ Written(tx, w, v) \in [stock : Int, reserved : Int]
           /\ Written(tx, w, v) \in [stock : Int, reserved : Int]
<1>1. shelf[w][v] \in [stock : 0..MaxShelf, reserved : 0..MaxShelf]
  BY DEF RowsTyped, Level
<1>2. PICK a \in 0..MaxShelf, b \in 0..MaxShelf : shelf[w][v] = [stock |-> a, reserved |-> b]
  BY <1>1
<1>3. shelf[w][v].stock = a /\ shelf[w][v].reserved = b /\ a \in Int /\ b \in Int
  BY <1>2, ShipmentsAssumption
<1>4. CASE tx.kind = "count"
  <2>1. Written(tx, w, v) = [shelf[w][v] EXCEPT !.stock = tx.stock]
    BY <1>4 DEF Written
  <2>2. tx.stock \in Int
    BY <1>4, TransactionTyped, ShipmentsAssumption
  <2>3. Written(tx, w, v) = [stock |-> tx.stock, reserved |-> b]
    BY <1>2, <2>1
  <2> QED
    BY <1>3, <1>4, <2>2, <2>3 DEF Ships, Final
<1>5. CASE Ships(tx)
  <2>1. Written(tx, w, v) = [shelf[w][v] EXCEPT !.reserved = @ + tx.plan[w][v]]
    BY <1>5 DEF Written, Ships
  <2>2. tx.plan[w][v] \in Int
    BY <1>5, TransactionTyped, ShipmentsAssumption DEF Units
  <2>3. Written(tx, w, v) = [stock |-> a, reserved |-> b + tx.plan[w][v]]
    BY <1>2, <2>1
  <2> QED
    BY <1>3, <1>5, <2>2, <2>3 DEF Ships, Final
<1>6. CASE Final(tx)
  <2>1. tx.plan[w][v] \in Int
    BY <1>6, TransactionTyped, ShipmentsAssumption DEF Units
  <2>2. Written(tx, w, v) = IF tx.kind = "DELIVERED"
          THEN [stock |-> a - tx.plan[w][v], reserved |-> b - tx.plan[w][v]]
          ELSE [stock |-> a + tx.plan[w][v], reserved |-> b - tx.plan[w][v]]
    BY <1>3, <1>6 DEF Written, Final
  <2> QED
    BY <1>3, <1>6, <2>1, <2>2 DEF Ships, Final
<1> QED
  BY <1>4, <1>5, <1>6, TransactionTyped

LEMMA WriteKeeps ==
    ASSUME ShipmentsInv, NEW k \in Clerks, NEW tx \in clerk[k].todo, WriteRows(k, tx)
    PROVE  ShipmentsInv'
<1> DEFINE c == [stage |-> "written", todo |-> clerk[k].todo, tx |-> tx]
<1>1. RowsTyped /\ WorkIsDue
  BY DEF ShipmentsInv
<1>2. clerk[k].stage = "ready" /\ clerk[k].todo \subseteq Transaction /\ tx \in Transaction
  BY <1>1 DEF WriteRows, RowsTyped, WorkTyped, NoWork
<1>3. CASE Answer(k)
  BY <1>3, AnswerKeeps DEF WriteRows
<1>4. CASE ~Answer(k)
  <2>1. /\ clerk' = [clerk EXCEPT ![k] = c]
        /\ \A r \in Rows(tx) : Checks(Written(tx, r[1], r[2]))
        /\ \A r \in Rows(tx) : Written(tx, r[1], r[2]).stock <= MaxShelf
        /\ \A other \in Clerks \ {k} : Locked(other) \cap Rows(tx) = {}
    BY <1>4 DEF WriteRows
  <2>2. c.stage = "written" /\ c.todo = clerk[k].todo /\ c.tx = tx
    OBVIOUS
  <2> HIDE DEF c
  <2>3. MayCommit(tx)
    <3> SUFFICES ASSUME NEW r \in Rows(tx) PROVE Written(tx, r[1], r[2]) \in Level
      BY DEF MayCommit
    <3>1. r[1] \in Warehouses /\ r[2] \in Variants
      BY <1>2, TransactionTyped
    <3>2. Written(tx, r[1], r[2]) \in [stock : Int, reserved : Int]
      BY <1>1, <1>2, <3>1, WrittenIs
    <3> DEFINE l == Written(tx, r[1], r[2])
    <3>3. l.stock <= MaxShelf /\ 0 <= l.reserved /\ l.reserved <= l.stock
      BY <2>1 DEF Checks
    <3> HIDE DEF l
    <3>4. l \in [stock : Int, reserved : Int]
      BY <3>2 DEF l
    <3>5. l.stock \in 0..MaxShelf /\ l.reserved \in 0..MaxShelf
      BY <3>3, <3>4, ShipmentsAssumption
    <3>6. l \in Level
      BY <3>4, <3>5 DEF Level
    <3> QED
      BY <3>6 DEF l
  <2>4. MayTake(c, k)
    BY <1>1, <1>2, <2>2 DEF MayTake, WorkTyped, WorkIsDue
  <2>5. MayHold(c, k)
    BY <2>1, <2>2, <2>3 DEF MayHold
  <2>6. UNCHANGED <<shelf, cached, orderRow, shipment, routings, settled>>
    BY DEF WriteRows
  <2>7. PICK d : d = c
    OBVIOUS
  <2> QED
    BY <2>1, <2>2, <2>4, <2>5, <2>6, <2>7, TurnKeeps
<1> QED
  BY <1>3, <1>4

\* The rows that a transaction that has written sees.
LEMMA SeenTyped ==
    ASSUME RowsTyped, NEW tx, MayCommit(tx), NEW w \in Warehouses, NEW v \in Variants
    PROVE  Seen(tx, w, v) \in Level
<1>1. CASE <<w, v>> \in Rows(tx)
  <2>1. Written(tx, <<w, v>>[1], <<w, v>>[2]) \in Level
    BY <1>1 DEF MayCommit
  <2> QED
    BY <1>1, <2>1 DEF Seen
<1>2. CASE <<w, v>> \notin Rows(tx)
  BY <1>2 DEF Seen, RowsTyped
<1> QED
  BY <1>1, <1>2

LEMMA SumsTyped ==
    ASSUME RowsTyped, NEW tx \in Transaction, MayCommit(tx), NEW v \in Variants
    PROVE  /\ WarehouseSum([w \in Warehouses |-> Seen(tx, w, v).stock]) \in Nat
           /\ WarehouseSum([w \in Warehouses |-> Seen(tx, w, v).reserved]) \in Nat
<1> DEFINE f == [w \in Warehouses |-> Seen(tx, w, v).stock]
           g == [w \in Warehouses |-> Seen(tx, w, v).reserved]
<1>1. \A w \in Warehouses : f[w] \in Nat /\ g[w] \in Nat
  BY SeenTyped, ShipmentsAssumption DEF Level
<1> HIDE DEF f, g
<1>2. WarehouseSum(f) \in Nat /\ WarehouseSum(g) \in Nat
  BY <1>1, WarehouseSumType
<1> QED
  BY <1>2 DEF f, g

LEMMA SyncKeepsInv ==
    ASSUME ShipmentsInv, NEW k \in Clerks, SyncVariantCache(k)
    PROVE  ShipmentsInv'
<1>1. RowsTyped /\ WorkIsDue /\ LocksHold
  BY DEF ShipmentsInv
<1>2. PICK tx \in Transaction : tx = clerk[k].tx /\ tx \in clerk[k].todo
  BY <1>1 DEF SyncVariantCache, RowsTyped, WorkTyped, NoWork
<1>3. clerk[k].stage = "written" /\ clerk[k].todo \subseteq Transaction
  BY <1>1 DEF SyncVariantCache, RowsTyped, WorkTyped, NoWork
<1>4. MayCommit(tx) /\ \A l \in Clerks \ {k} : Locked(l) \cap Rows(tx) = {}
  BY <1>1, <1>2, <1>3 DEF LocksHold, HasWritten, Locked
<1> DEFINE V == {r[2] : r \in Rows(tx)}
           sums == [v \in V |->
                 [stock    |-> WarehouseSum([w \in Warehouses |-> Seen(tx, w, v).stock]),
                  reserved |-> WarehouseSum([w \in Warehouses |-> Seen(tx, w, v).reserved])]]
           c == [stage |-> "summed", todo |-> clerk[k].todo, tx |-> tx, sums |-> sums]
<1>5. V \in SUBSET Variants
  BY TransactionTyped
<1>6. sums \in Sums
  <2>1. \A v \in V : [stock    |-> WarehouseSum([w \in Warehouses |-> Seen(tx, w, v).stock]),
                      reserved |-> WarehouseSum([w \in Warehouses |-> Seen(tx, w, v).reserved])]
                      \in [stock : Nat, reserved : Nat]
    BY <1>1, <1>4, <1>5, SumsTyped
  <2> HIDE DEF V
  <2>2. sums \in [V -> [stock : Nat, reserved : Nat]]
    BY <2>1
  <2> HIDE DEF sums
  <2> QED
    BY <1>5, <2>2 DEF Sums
<1>7. clerk' = [clerk EXCEPT ![k] = c] /\ UNCHANGED <<shelf, cached, orderRow, shipment, routings, settled>>
  BY <1>2 DEF SyncVariantCache
<1> HIDE DEF sums
<1>8. c.stage = "summed" /\ c.todo = clerk[k].todo /\ c.tx = tx /\ c.sums = sums
  OBVIOUS
<1> HIDE DEF c
<1>9. MayTake(c, k)
  BY <1>1, <1>2, <1>3, <1>6, <1>8 DEF MayTake, WorkTyped, WorkIsDue
<1>10. MayHold(c, k)
  BY <1>4, <1>8 DEF MayHold
<1>11. PICK d : d = c
  OBVIOUS
<1> QED
  BY <1>7, <1>8, <1>9, <1>10, <1>11, TurnKeeps

-----------------------------------------------------------------------------
\* Splitting an order over the warehouses (warehouse.service.ts:125).

LEMMA LeastNumber ==
    ASSUME NEW C, C \subseteq Nat, C # {}
    PROVE  \E m \in C : \A n \in C : m <= n
<1>1. PICK n \in C : TRUE
  OBVIOUS
<1> DEFINE upto(m) == 0..m
           D == {upto(m) : m \in {x \in C : x <= n}}
<1>2. IsFiniteSet(0..n)
  BY <1>1, FS_Interval
<1>3. D \subseteq SUBSET (0..n) /\ D # {}
  BY <1>1
<1>4. PICK M \in D : \A T \in D : T \subseteq M => T = M
  <2> DEFINE R == 0..n
  <2>1. IsFiniteSet(R) /\ D \subseteq SUBSET R /\ D # {}
    BY <1>2, <1>3
  <2> HIDE DEF D, R
  <2> QED
    BY <2>1, SmallestSubset
<1>5. PICK m \in C : m <= n /\ M = upto(m)
  BY <1>4
<1>6. ASSUME NEW x \in C, ~(m <= x) PROVE FALSE
  <2>1. x <= n /\ upto(x) \subseteq upto(m) /\ m \in upto(m) /\ m \notin upto(x)
    BY <1>1, <1>5, <1>6
  <2>2. upto(x) \in D
    BY <1>6, <2>1
  <2> QED
    BY <1>4, <1>5, <2>1, <2>2
<1> QED
  BY <1>6

\* What each of the first warehouses and those before it give, as Greedy adds it up.
Gives(items, W, g) ==
    [w \in W |-> [v \in Variants |->
        IF w = 0 THEN 0
        ELSE g[w - 1][v] + Min({Max({Available(w, v), 0}), items[v] - g[w - 1][v]})]]

\* One more warehouse.
GivenUpTo(items, w, before) ==
    [v \in Variants |->
        IF w = 0 THEN 0 ELSE before[v] + Min({Max({Available(w, v), 0}), items[v] - before[v]})]

LEMMA GivesIs ==
    \A items, W, g, h, w : g = Gives(items, W, h) /\ w \in W => g[w] = GivenUpTo(items, w, h[w - 1])
BY DEF Gives, GivenUpTo

LEMMA GivenToNone == \A items, x, y : GivenUpTo(items, 0, x) = GivenUpTo(items, 0, y)
BY DEF GivenUpTo

LEMMA GivesAgree ==
    ASSUME NEW items, NEW m \in Nat, NEW n \in Nat, NEW g, NEW h,
           g = Gives(items, 0..m, g), h = Gives(items, 0..n, h)
    PROVE  \A w \in (0..m) \cap (0..n) : g[w] = h[w]
<1> DEFINE C == {w \in (0..m) \cap (0..n) : g[w] # h[w]}
<1>1. SUFFICES ASSUME C # {} PROVE FALSE
  OBVIOUS
<1>2. PICK w \in C : \A x \in C : w <= x
  <2>1. C \subseteq Nat
    OBVIOUS
  <2> HIDE DEF C
  <2> QED
    BY <1>1, <2>1, LeastNumber
<1>3. w \in 0..m /\ w \in 0..n /\ g[w] # h[w]
  BY <1>2
<1>4. g[w] = GivenUpTo(items, w, g[w - 1]) /\ h[w] = GivenUpTo(items, w, h[w - 1])
  BY <1>3, GivesIs
<1>5. w # 0
  BY <1>3, <1>4, GivenToNone
<1>6. w - 1 \in 0..m /\ w - 1 \in 0..n /\ ~(w <= w - 1)
  BY <1>3, <1>5
<1>7. g[w - 1] = h[w - 1]
  BY <1>2, <1>6
<1> QED
  BY <1>3, <1>4, <1>7

LEMMA GivesExistUpTo ==
    ASSUME NEW items, NEW n \in Nat
    PROVE  \E g : g = Gives(items, 0..n, g)
<1> DEFINE C == {m \in Nat : ~ \E g : g = Gives(items, 0..m, g)}
<1>1. SUFFICES ASSUME C # {} PROVE FALSE
  OBVIOUS
<1>2. PICK m \in C : \A x \in C : m <= x
  <2>1. C \subseteq Nat
    OBVIOUS
  <2> HIDE DEF C
  <2> QED
    BY <1>1, <2>1, LeastNumber
<1>3. m \in Nat /\ ~ \E g : g = Gives(items, 0..m, g)
  BY <1>2
<1>4. \A W, g, h : g = [w \in W |-> GivenUpTo(items, w, h[w - 1])] <=> g = Gives(items, W, h)
  BY DEF Gives, GivenUpTo
<1>5. CASE m = 0
  <2>1. PICK g : g = [w \in 0..0 |-> GivenUpTo(items, 0, 0)]
    OBVIOUS
  <2>2. \A w \in 0..0 : w = 0
    OBVIOUS
  <2>3. g = [w \in 0..0 |-> GivenUpTo(items, w, g[w - 1])]
    BY <2>1, <2>2, GivenToNone
  <2> QED
    BY <1>3, <1>4, <1>5, <2>3
<1>6. CASE m # 0
  <2>1. m - 1 \in Nat /\ m - 1 \notin C
    BY <1>2, <1>3, <1>6
  <2>2. PICK g : g = Gives(items, 0..(m - 1), g)
    BY <2>1
  <2>3. PICK h : h = [w \in 0..m |-> GivenUpTo(items, w, g[w - 1])]
    OBVIOUS
  <2>4. \A w \in 0..(m - 1) : h[w] = g[w]
    <3> SUFFICES ASSUME NEW w \in 0..(m - 1) PROVE h[w] = g[w]
      OBVIOUS
    <3>1. w \in 0..m
      BY <1>3
    <3>2. g[w] = GivenUpTo(items, w, g[w - 1])
      BY <2>2, GivesIs
    <3> QED
      BY <2>3, <3>1, <3>2
  <2>5. \A w \in 0..m : GivenUpTo(items, w, g[w - 1]) = GivenUpTo(items, w, h[w - 1])
    <3> SUFFICES ASSUME NEW w \in 0..m PROVE GivenUpTo(items, w, g[w - 1]) = GivenUpTo(items, w, h[w - 1])
      OBVIOUS
    <3>1. CASE w = 0
      BY <3>1, GivenToNone
    <3>2. CASE w # 0
      <4>1. w - 1 \in 0..(m - 1)
        BY <1>3, <3>2
      <4>2. h[w - 1] = g[w - 1]
        BY <2>4, <4>1
      <4> QED
        BY <4>2
    <3> QED
      BY <3>1, <3>2
  <2>6. h = [w \in 0..m |-> GivenUpTo(items, w, h[w - 1])]
    BY <2>3, <2>5
  <2>7. h = Gives(items, 0..m, h)
    BY <2>6 DEF Gives, GivenUpTo
  <2> QED
    BY <1>3, <2>7
<1> QED
  BY <1>5, <1>6

LEMMA GivesExist ==
    ASSUME NEW items
    PROVE  \E g : g = Gives(items, Nat, g)
<1> DEFINE upto(n) == CHOOSE g : g = Gives(items, 0..n, g)
<1>1. \A n \in Nat : upto(n) = Gives(items, 0..n, upto(n))
  BY GivesExistUpTo
<1> HIDE DEF upto
<1>2. PICK h : h = [w \in Nat |-> upto(w)[w]]
  OBVIOUS
<1>3. \A w \in Nat : upto(w)[w] = GivenUpTo(items, w, h[w - 1])
  <2> SUFFICES ASSUME NEW w \in Nat
               PROVE  upto(w)[w] = GivenUpTo(items, w, h[w - 1])
    OBVIOUS
  <2>1. w \in 0..w
    OBVIOUS
  <2>2. PICK g : g = upto(w) /\ g = Gives(items, 0..w, g)
    BY <1>1
  <2>3. g[w] = GivenUpTo(items, w, g[w - 1])
    BY <2>1, <2>2, GivesIs
  <2>4. CASE w = 0
    BY <2>2, <2>3, <2>4, GivenToNone
  <2>5. CASE w # 0
    <3>1. w - 1 \in Nat /\ w - 1 \in (0..w) \cap (0..(w - 1))
      BY <2>5
    <3>2. PICK e : e = upto(w - 1) /\ e = Gives(items, 0..(w - 1), e)
      BY <1>1, <3>1
    <3>3. g[w - 1] = e[w - 1]
      BY <2>2, <3>1, <3>2, GivesAgree
    <3>4. h[w - 1] = e[w - 1]
      BY <1>2, <3>1, <3>2
    <3> QED
      BY <2>2, <2>3, <3>3, <3>4
  <2> QED
    BY <2>4, <2>5
<1>4. h = [w \in Nat |-> GivenUpTo(items, w, h[w - 1])]
  BY <1>2, <1>3
<1> QED
  BY <1>4 DEF Gives, GivenUpTo

LEMMA MinOfTwo == \A a, b \in Int : Min({a, b}) = IF a <= b THEN a ELSE b
<1> SUFFICES ASSUME NEW a \in Int, NEW b \in Int
             PROVE  Min({a, b}) = IF a <= b THEN a ELSE b
  OBVIOUS
<1> DEFINE m == IF a <= b THEN a ELSE b
<1>1. m \in {a, b} /\ m <= a /\ m <= b
  OBVIOUS
<1>2. \A x \in {a, b} : (\A y \in {a, b} : x <= y) <=> x = m
  OBVIOUS
<1> HIDE DEF m
<1>3. Min({a, b}) = m
  BY <1>1, <1>2 DEF Min
<1> QED
  BY <1>3 DEF m

LEMMA MaxOfTwo == \A a, b \in Int : Max({a, b}) = IF a >= b THEN a ELSE b
<1> SUFFICES ASSUME NEW a \in Int, NEW b \in Int
             PROVE  Max({a, b}) = IF a >= b THEN a ELSE b
  OBVIOUS
<1> DEFINE m == IF a >= b THEN a ELSE b
<1>1. m \in {a, b} /\ m >= a /\ m >= b
  OBVIOUS
<1>2. \A x \in {a, b} : (\A y \in {a, b} : x >= y) <=> x = m
  OBVIOUS
<1> HIDE DEF m
<1>3. Max({a, b}) = m
  BY <1>1, <1>2 DEF Max
<1> QED
  BY <1>3 DEF m

\* What Greedy gives, by the sums that it keeps.
LEMMA GreedyIs ==
    ASSUME NEW items
    PROVE  \E g : /\ g = Gives(items, Nat, g)
                  /\ Greedy(items) = [w \in Warehouses |-> [v \in Variants |-> g[w][v] - g[w - 1][v]]]
<1> DEFINE g == CHOOSE h : h = Gives(items, Nat, h)
<1>1. g = Gives(items, Nat, g)
  BY GivesExist
<1>2. Greedy(items) = [w \in Warehouses |-> [v \in Variants |-> g[w][v] - g[w - 1][v]]]
  BY DEF Greedy, Gives
<1> HIDE DEF g
<1> QED
  BY <1>1, <1>2

\* No warehouse gives less than nothing, and together they give what is asked at most.
LEMMA GivenIsAsked ==
    ASSUME RowsTyped, NEW items \in Units, NEW g, g = Gives(items, Nat, g)
    PROVE  /\ \A v \in Variants : g[0][v] = 0
           /\ \A w \in 0..Cardinality(Warehouses), v \in Variants : g[w][v] \in 0..items[v]
           /\ \A w \in Warehouses, v \in Variants : g[w - 1][v] <= g[w][v]
<1> DEFINE n == Cardinality(Warehouses)
<1>1. n \in Nat /\ Warehouses = 1..n
  BY ShipmentsAssumption, FS_CardinalityType
<1> HIDE DEF n
<1>2. \A w \in Warehouses, v \in Variants : Available(w, v) \in Int
  BY ShipmentsAssumption DEF RowsTyped, Level, Available
<1>3. \A v \in Variants : items[v] \in Nat
  BY ShipmentsAssumption DEF Units
<1>4. \A v \in Variants : g[0][v] = 0
  <2>1. g[0] = GivenUpTo(items, 0, g[0 - 1])
    BY GivesIs
  <2> QED
    BY <2>1 DEF GivenUpTo
<1>5. ASSUME NEW w \in Warehouses, NEW v \in Variants, g[w - 1][v] \in 0..items[v]
      PROVE  g[w][v] \in 0..items[v] /\ g[w - 1][v] <= g[w][v]
  <2>1. w \in Nat /\ w # 0
    BY <1>1
  <2>2. g[w][v] = g[w - 1][v] + Min({Max({Available(w, v), 0}), items[v] - g[w - 1][v]})
    <3>1. g[w] = GivenUpTo(items, w, g[w - 1])
      BY <2>1, GivesIs
    <3> QED
      BY <2>1, <3>1 DEF GivenUpTo
  <2>3. Max({Available(w, v), 0}) \in Nat
    BY <1>2, MaxOfTwo
  <2>4. PICK a \in Nat, b \in Nat, c \in Nat :
            a = Max({Available(w, v), 0}) /\ b = items[v] - g[w - 1][v] /\ c = g[w - 1][v]
    BY <1>3, <1>5, <2>3
  <2>5. Min({a, b}) = IF a <= b THEN a ELSE b
    BY MinOfTwo
  <2>6. g[w][v] = c + Min({a, b}) /\ items[v] = b + c
    BY <1>3, <1>5, <2>2, <2>4
  <2> QED
    BY <2>4, <2>5, <2>6
<1>6. \A w \in 0..n, v \in Variants : g[w][v] \in 0..items[v]
  <2> SUFFICES ASSUME NEW v \in Variants PROVE \A w \in 0..n : g[w][v] \in 0..items[v]
    OBVIOUS
  <2> DEFINE C == {w \in 0..n : g[w][v] \notin 0..items[v]}
  <2>1. SUFFICES ASSUME C # {} PROVE FALSE
    OBVIOUS
  <2>2. PICK w \in C : \A x \in C : w <= x
    <3>1. C \subseteq Nat
      OBVIOUS
    <3> HIDE DEF C
    <3> QED
      BY <2>1, <3>1, LeastNumber
  <2>3. w \in 0..n /\ g[w][v] \notin 0..items[v]
    BY <2>2
  <2>4. w # 0
    BY <1>3, <1>4, <2>3
  <2>5. w \in Warehouses /\ w - 1 \in 0..n /\ ~(w <= w - 1)
    BY <1>1, <2>3, <2>4
  <2>6. g[w - 1][v] \in 0..items[v]
    BY <2>2, <2>5
  <2> QED
    BY <1>5, <2>3, <2>5, <2>6
<1>7. \A w \in Warehouses, v \in Variants : g[w - 1][v] <= g[w][v]
  <2>1. \A w \in Warehouses : w - 1 \in 0..n
    BY <1>1
  <2> QED
    BY <1>5, <1>6, <2>1
<1> QED
  BY <1>4, <1>6, <1>7 DEF n

\* warehouse.service.ts:125: what a split order takes from its warehouses is what was asked
\* for at most.
LEMMA GreedyIsAPlan ==
    ASSUME RowsTyped, NEW items \in Units
    PROVE  /\ Greedy(items) \in [Warehouses -> Units]
           /\ \A v \in Variants : Planned(Greedy(items), v) <= items[v]
<1>1. PICK g : /\ g = Gives(items, Nat, g)
               /\ Greedy(items) = [w \in Warehouses |-> [v \in Variants |-> g[w][v] - g[w - 1][v]]]
  BY GreedyIs
<1> DEFINE n == Cardinality(Warehouses)
<1>2. n \in Nat /\ Warehouses = 1..n /\ IsFiniteSet(Warehouses)
  BY ShipmentsAssumption, FS_CardinalityType
<1>3. /\ \A v \in Variants : g[0][v] = 0
      /\ \A w \in 0..n, v \in Variants : g[w][v] \in 0..items[v]
      /\ \A w \in Warehouses, v \in Variants : g[w - 1][v] <= g[w][v]
  BY <1>1, GivenIsAsked
<1> HIDE DEF n
<1>4. \A v \in Variants : items[v] \in 0..MaxShelf /\ items[v] \in Nat
  BY ShipmentsAssumption DEF Units
<1>5. ASSUME NEW w \in Warehouses, NEW v \in Variants
      PROVE  g[w][v] - g[w - 1][v] \in 0..MaxShelf
  <2>1. w \in 0..n /\ w - 1 \in 0..n
    BY <1>2
  <2>2. g[w][v] \in 0..items[v] /\ g[w - 1][v] \in 0..items[v] /\ g[w - 1][v] <= g[w][v]
    BY <1>3, <2>1
  <2> QED
    BY <1>4, <2>2, ShipmentsAssumption
<1>6. Greedy(items) \in [Warehouses -> Units]
  BY <1>1, <1>5 DEF Units
<1>7. ASSUME NEW v \in Variants
      PROVE  Planned(Greedy(items), v) <= items[v]
  <2> DEFINE f == [w \in Warehouses |-> Greedy(items)[w][v]]
             C == {m \in 0..n : SumOver(f, 1..m) # g[m][v]}
  <2>1. \A w \in Warehouses : f[w] = g[w][v] - g[w - 1][v] /\ f[w] \in Nat
    BY <1>1, <1>5, ShipmentsAssumption
  <2>2. Planned(Greedy(items), v) = SumOver(f, Warehouses)
    BY DEF Planned
  <2> HIDE DEF f
  <2>3. C = {}
    <3>1. SUFFICES ASSUME C # {} PROVE FALSE
      OBVIOUS
    <3>2. PICK m \in C : \A x \in C : m <= x
      <4>1. C \subseteq Nat
        OBVIOUS
      <4> HIDE DEF C
      <4> QED
        BY <3>1, <4>1, LeastNumber
    <3>3. m \in 0..n /\ SumOver(f, 1..m) # g[m][v]
      BY <3>2
    <3>4. m # 0
      <4>1. 1..0 = {}
        OBVIOUS
      <4> QED
        BY <1>3, <3>3, <4>1, SumOfNone
    <3>5. m - 1 \in 0..n /\ ~(m <= m - 1) /\ m \in Warehouses
      BY <1>2, <3>3, <3>4
    <3>6. SumOver(f, 1..(m - 1)) = g[m - 1][v]
      BY <3>2, <3>5
    <3> DEFINE S == 1..(m - 1)
    <3>7. S \cup {m} = 1..m
      BY <1>2, <3>3, <3>4
    <3>a. S \in SUBSET Warehouses /\ m \in Warehouses \ S
      BY <1>2, <3>3, <3>4
    <3>b. \A w \in Warehouses : f[w] \in Nat
      BY <2>1
    <3> HIDE DEF S, C
    <3>8. SumOver(f, S \cup {m}) = f[m] + SumOver(f, S)
      BY <3>a, <3>b, SumOfOneMore, WarehousesFinite
    <3>9. g[m][v] \in Int /\ g[m - 1][v] \in Int
      BY <1>3, <1>4, <3>3, <3>5
    <3>10. SumOver(f, 1..m) = (g[m][v] - g[m - 1][v]) + g[m - 1][v]
      BY <2>1, <3>5, <3>6, <3>7, <3>8 DEF S
    <3> QED
      BY <3>3, <3>9, <3>10
  <2>4. n \in 0..n
    BY <1>2
  <2>5. SumOver(f, Warehouses) = g[n][v] /\ g[n][v] \in 0..items[v]
    BY <1>2, <1>3, <2>3, <2>4
  <2> QED
    BY <1>4, <2>2, <2>5
<1> QED
  BY <1>6, <1>7

-----------------------------------------------------------------------------
\* Routing.

\* A request that has an order to route and nothing else to do.
LEMMA RoutingTyped ==
    ASSUME ShipmentsInv, NEW k \in Clerks, NEW o \in OrderRows, orderRow[o] # Missing,
           NEW T, \A tx \in T : tx \in Transaction /\ Ships(tx) /\ tx.o = o,
           Assign(k, T), UNCHANGED <<shelf, cached, orderRow, shipment, settled>>
    PROVE  /\ RowsTyped' /\ RowsInARow' /\ LocksHold' /\ WorkIsDue' /\ ShipmentsHaveOrders'
           /\ ShelvesBalanced' /\ SettledExist'
<1> DEFINE c == [stage |-> "ready", todo |-> T]
<1>1. clerk' = [clerk EXCEPT ![k] = c] /\ c.stage = "ready" /\ c.todo = T
  BY DEF Assign
<1> HIDE DEF c
<1>2. \A tx \in T : ~Final(tx)
  BY DEF Ships, Final
<1>3. MayTake(c, k) /\ MayHold(c, k)
  BY <1>1, <1>2 DEF MayTake, MayHold, WorkTyped
<1> QED
  BY <1>1, <1>3, ClerkTurns

\* The first routing is of the order that was there at first.
LEMMA FirstRouting ==
    ASSUME ShipmentsInv, NEW o \in OrderRows, orderRow[o] # Missing, routings = 0
    PROVE  o = 1 /\ orderRow[o].items = Bought /\ Shipped(1) = {}
BY DEF ShipmentsInv, RoutedOnce

LEMMA RoutedTyped ==
    ASSUME RowsTyped, NEW o \in OrderRows, orderRow[o] # Missing
    PROVE  orderRow[o].items \in Units
BY DEF RowsTyped, OrderRecord

LEMMA PlanAlone ==
    ASSUME NEW items \in Units, NEW x
    PROVE  /\ [w \in Warehouses |-> IF w = x THEN items ELSE Nothing] \in [Warehouses -> Units]
           /\ \A v \in Variants : Planned([w \in Warehouses |-> IF w = x THEN items ELSE Nothing], v) <= items[v]
<1> DEFINE P == [w \in Warehouses |-> IF w = x THEN items ELSE Nothing]
<1>1. P \in [Warehouses -> Units]
  BY NothingTyped
<1>2. ASSUME NEW v \in Variants
      PROVE  Planned(P, v) <= items[v]
  <2> DEFINE f == [w \in Warehouses |-> P[w][v]]
             S == Warehouses \cap {x}
  <2>1. \A w \in Warehouses : f[w] = IF w = x THEN items[v] ELSE 0
    BY NothingTyped
  <2>2. items[v] \in Nat
    BY ShipmentsAssumption DEF Units
  <2>3. S \in SUBSET Warehouses /\ \A w \in Warehouses \ S : f[w] = 0
    BY <2>1
  <2>4. Planned(P, v) = SumOver(f, Warehouses)
    BY DEF Planned
  <2> HIDE DEF f, P
  <2>5. \A w \in Warehouses : f[w] \in Nat
    BY <2>1, <2>2
  <2>6. SumOver(f, S) <= items[v]
    <3>1. CASE x \in Warehouses
      <4>1. S = {} \cup {x} /\ {} \in SUBSET Warehouses /\ x \in Warehouses \ {}
        BY <3>1
      <4> HIDE DEF S
      <4>2. SumOver(f, {} \cup {x}) = f[x] + SumOver(f, {})
        BY <2>5, <4>1, SumOfOneMore, WarehousesFinite
      <4> QED
        BY <2>1, <2>2, <3>1, <4>1, <4>2, SumOfNone
    <3>2. CASE x \notin Warehouses
      <4>1. S = {}
        BY <3>2
      <4> HIDE DEF S
      <4> QED
        BY <2>2, <4>1, SumOfNone
    <3> QED
      BY <3>1, <3>2
  <2> HIDE DEF S
  <2>7. SumOver(f, Warehouses) = SumOver(f, S)
    BY <2>3, <2>5, SumWithin, WarehousesFinite
  <2> QED
    BY <2>4, <2>6, <2>7
<1> QED
  BY <1>1, <1>2

LEMMA RouteKeeps ==
    ASSUME ShipmentsInv, NEW k \in Clerks, NEW o \in OrderRows, RouteOrder(k, o)
    PROVE  ShipmentsInv'
<1>1. RowsTyped /\ RoutedOnce /\ orderRow[o] # Missing
  BY DEF ShipmentsInv, RouteOrder
<1>2. PICK items \in Units : items = orderRow[o].items
  BY <1>1, RoutedTyped
<1> DEFINE able == {w \in Warehouses : CanFulfill(w, items)}
           alone == [w \in Warehouses |-> IF w = Min(able) THEN items ELSE Nothing]
<1>3. PICK P \in [Warehouses -> Units] :
          /\ P = IF able # {} THEN alone ELSE Greedy(items)
          /\ \A v \in Variants : Planned(P, v) <= items[v]
  <2>1. PICK least : least = Min(able)
    OBVIOUS
  <2>2. alone = [w \in Warehouses |-> IF w = least THEN items ELSE Nothing]
    BY <2>1
  <2> HIDE DEF alone
  <2>3. alone \in [Warehouses -> Units] /\ \A v \in Variants : Planned(alone, v) <= items[v]
    BY <2>2, PlanAlone
  <2>4. Greedy(items) \in [Warehouses -> Units] /\ \A v \in Variants : Planned(Greedy(items), v) <= items[v]
    BY <1>1, GreedyIsAPlan
  <2> QED
    BY <2>3, <2>4
<1> DEFINE one(w) == [kind |-> "ship", o |-> o,
                      plan |-> [x \in Warehouses |-> IF x = w THEN P[w] ELSE Nothing]]
           T == {one(w) : w \in {x \in Warehouses : P[x] # Nothing}}
<1>4. /\ clerk[k] = NoWork
      /\ routings < MaxRoutings /\ routings' = routings + 1
      /\ Assign(k, T)
      /\ UNCHANGED <<shelf, cached, orderRow, shipment, settled>>
  BY <1>2, <1>3 DEF RouteOrder
<1> HIDE DEF able, alone
<1>5. \A w \in Warehouses : one(w) \in Transaction /\ one(w).kind = "ship" /\ one(w).o = o
  <2>1. \A w \in Warehouses : [x \in Warehouses |-> IF x = w THEN P[w] ELSE Nothing] \in [Warehouses -> Units]
    BY NothingTyped
  <2> QED
    BY <2>1 DEF Transaction
<1>6. \A tx \in T : tx \in Transaction /\ Ships(tx) /\ tx.o = o
  BY <1>5 DEF Ships
<1>7. RowsTyped' /\ RowsInARow' /\ LocksHold' /\ WorkIsDue' /\ ShipmentsHaveOrders'
      /\ ShelvesBalanced' /\ SettledExist'
  <2> HIDE DEF T
  <2> QED
    BY <1>1, <1>4, <1>6, RoutingTyped
<1>8. \A l \in Clerks : clerk'[l].todo = IF l = k THEN T ELSE clerk[l].todo
  BY <1>1, <1>4 DEF Assign, RowsTyped
<1>9. ASSUME routings = 0 PROVE FollowsPlan(P)'
  <2>1. o = 1 /\ items = Bought /\ Shipped(1) = {}
    BY <1>1, <1>2, <1>9, FirstRouting
  <2>2. Shipped(1)' = {}
    BY <1>4, <2>1 DEF Shipped
  <2>3. \A l \in Clerks : \A tx \in clerk[l].todo : tx.kind # "ship"
    BY <1>1, <1>9 DEF RoutedOnce, Ships
  <2>4. \A l \in Clerks : \A tx \in clerk'[l].todo : tx.kind = "ship" => l = k /\ tx \in T
    BY <1>8, <2>3
  <2>5. \A tx \in T : \E w \in Warehouses : tx = OneShip(P, w) /\ P[w] # Nothing
    BY <2>1 DEF OneShip
  <2>6. \A v \in Variants : Planned(P, v)' = Planned(P, v) /\ Planned(P, v) <= Bought[v]
    BY <1>3, <2>1 DEF Planned
  <2> HIDE DEF T
  <2>7. \A l \in Clerks : \A tx \in clerk'[l].todo : tx.kind = "ship" =>
          /\ \E w \in Warehouses : tx = OneShip(P, w) /\ P[w] # Nothing
          /\ \A m \in Clerks : \A ux \in clerk'[m].todo : ux.kind = "ship" => m = l
    BY <2>4, <2>5
  <2> QED
    BY <2>2, <2>6, <2>7 DEF FollowsPlan, OneShip, Nothing
<1>10. RoutedOnce'
  <2>1. routings \in Nat /\ routings' \in 0..MaxRoutings /\ routings' # 0 /\ (routings' = 1 => routings = 0)
    BY <1>1, <1>4, ShipmentsAssumption DEF RoutedOnce
  <2> HIDE DEF T
  <2> QED
    BY <1>1, <1>4, <1>9, <2>1 DEF RoutedOnce
<1> QED
  BY <1>7, <1>10 DEF ShipmentsInv

LEMMA SplitKeeps ==
    ASSUME ShipmentsInv, NEW k \in Clerks, NEW o \in OrderRows, SplitOrderByWarehouse(k, o)
    PROVE  ShipmentsInv'
<1>1. RowsTyped /\ RoutedOnce /\ orderRow[o] # Missing
  BY DEF ShipmentsInv, SplitOrderByWarehouse
<1>2. PICK items \in Units : items = orderRow[o].items
  BY <1>1, RoutedTyped
<1> DEFINE wanted == {v \in Variants : items[v] > 0}
           having(v) == {w \in Warehouses : Available(w, v) >= items[v]}
           plan == [w \in Warehouses |-> [v \in Variants |->
                      IF v \in wanted /\ w = Min(having(v)) THEN items[v] ELSE 0]]
           tx == [kind |-> "split", o |-> o, plan |-> plan]
<1>3. /\ routings < MaxRoutings /\ routings' = routings + 1
      /\ Assign(k, {tx})
      /\ UNCHANGED <<shelf, cached, orderRow, shipment, settled>>
  BY <1>2 DEF SplitOrderByWarehouse
<1>4. plan \in [Warehouses -> Units]
  <2>1. \A v \in Variants : items[v] \in 0..MaxShelf /\ 0 \in 0..MaxShelf
    BY ShipmentsAssumption DEF Units
  <2> HIDE DEF wanted, having
  <2>2. \A w \in Warehouses, v \in Variants :
          (IF v \in wanted /\ w = Min(having(v)) THEN items[v] ELSE 0) \in 0..MaxShelf
    BY <2>1
  <2>3. \A w \in Warehouses :
          [v \in Variants |-> IF v \in wanted /\ w = Min(having(v)) THEN items[v] ELSE 0] \in Units
    BY <2>2 DEF Units
  <2> QED
    BY <2>3
<1> HIDE DEF plan
<1>5. tx \in Transaction /\ tx.kind = "split" /\ tx.o = o
  BY <1>4 DEF Transaction
<1> HIDE DEF tx
<1>6. \A ux \in {tx} : ux \in Transaction /\ Ships(ux) /\ ux.o = o
  BY <1>5 DEF Ships
<1>7. PICK T : T = {tx}
  OBVIOUS
<1>8. Assign(k, T) /\ \A ux \in T : ux \in Transaction /\ Ships(ux) /\ ux.o = o
  BY <1>3, <1>6, <1>7
<1>9. RowsTyped' /\ RowsInARow' /\ LocksHold' /\ WorkIsDue' /\ ShipmentsHaveOrders'
      /\ ShelvesBalanced' /\ SettledExist'
  BY <1>1, <1>3, <1>8, RoutingTyped
<1>10. \A l \in Clerks : clerk'[l].todo = IF l = k THEN {tx} ELSE clerk[l].todo
  BY <1>1, <1>3 DEF Assign, RowsTyped
<1> DEFINE P == [w \in Warehouses |-> Nothing]
<1>11. ASSUME routings = 0 PROVE P \in [Warehouses -> Units] /\ FollowsPlan(P)'
  <2>1. Shipped(1) = {}
    BY <1>1, <1>11, FirstRouting
  <2>2. Shipped(1)' = {}
    BY <1>3, <2>1 DEF Shipped
  <2>3. \A l \in Clerks : \A ux \in clerk[l].todo : ux.kind # "ship"
    BY <1>1, <1>11 DEF RoutedOnce, Ships
  <2>4. \A l \in Clerks : \A ux \in clerk'[l].todo : ux.kind # "ship"
    BY <1>5, <1>10, <2>3
  <2>5. P \in [Warehouses -> Units] /\ \A w \in Warehouses, v \in Variants : P[w][v] = 0
    BY NothingTyped
  <2>6. \A v \in Variants : Planned(P, v)' = Planned(P, v) /\ Planned(P, v) <= Bought[v]
    <3> SUFFICES ASSUME NEW v \in Variants PROVE Planned(P, v)' = Planned(P, v) /\ Planned(P, v) <= Bought[v]
      OBVIOUS
    <3> DEFINE f == [w \in Warehouses |-> P[w][v]]
    <3>1. \A w \in Warehouses : f[w] = 0 /\ f[w] \in Nat
      BY <2>5
    <3>2. {} \in SUBSET Warehouses /\ \A w \in Warehouses \ {} : f[w] = 0
      BY <3>1
    <3>3. Planned(P, v) = SumOver(f, Warehouses) /\ Planned(P, v)' = Planned(P, v)
      BY DEF Planned
    <3> HIDE DEF f, P
    <3>4. SumOver(f, Warehouses) = SumOver(f, {})
      BY <3>1, <3>2, SumWithin, WarehousesFinite
    <3>5. Bought[v] \in Nat
      BY ShipmentsAssumption DEF Units
    <3> QED
      BY <3>3, <3>4, <3>5, SumOfNone
  <2> HIDE DEF P
  <2> QED
    BY <2>2, <2>4, <2>5, <2>6 DEF FollowsPlan
<1>12. RoutedOnce'
  <2>1. routings \in Nat /\ routings' \in 0..MaxRoutings /\ routings' # 0 /\ (routings' = 1 => routings = 0)
    BY <1>1, <1>3, ShipmentsAssumption DEF RoutedOnce
  <2> HIDE DEF P
  <2> QED
    BY <1>1, <1>3, <1>11, <2>1 DEF RoutedOnce
<1> QED
  BY <1>9, <1>12 DEF ShipmentsInv

-----------------------------------------------------------------------------
\* The status of a shipment is written (warehouse.service.ts:199): no shelf changes before
\* the transaction that follows.

LEMMA StatusKeeps ==
    ASSUME ShipmentsInv, NEW k \in Clerks, NEW s \in ShipmentRows,
           NEW status \in ShipmentStatus, UpdateShipmentStatus(k, s, status)
    PROVE  ShipmentsInv'
<1>1. /\ RowsTyped /\ RowsInARow /\ LocksHold /\ WorkIsDue /\ ShipmentsHaveOrders
      /\ ShelvesBalanced /\ SettledExist /\ RoutedOnce
  BY DEF ShipmentsInv
<1>2. PICK row : row = shipment[s]
  OBVIOUS
<1> DEFINE done == status \in {"DELIVERED", "RTO"}
           tx == [kind |-> status, s |-> s, plan |-> PlanOf(row)]
<1>3. /\ clerk[k] = NoWork
      /\ row # Missing
      /\ shipment' = [shipment EXCEPT ![s].status = status]
      /\ done => Assign(k, {tx})
      /\ ~done => UNCHANGED clerk
      /\ UNCHANGED <<shelf, cached, orderRow, routings, settled>>
  BY <1>2 DEF UpdateShipmentStatus, PlanOf
<1>4. row \in ShipmentRecord /\ status \in ShipmentStatus
  BY <1>1, <1>2, <1>3 DEF RowsTyped
<1>5. row.items \in Units /\ row.w \in Warehouses
      /\ row.o \in OrderRows
  BY <1>3, <1>4 DEF ShipmentRecord, ShipmentStatus
<1> DEFINE new == [row EXCEPT !.status = status]
<1>6. /\ \A t \in ShipmentRows : shipment'[t] = IF t = s THEN new ELSE shipment[t]
      /\ shipment' = [t \in ShipmentRows |-> shipment'[t]]
  BY <1>1, <1>2, <1>3 DEF RowsTyped
<1>7. /\ new \in ShipmentRecord /\ new.status = status /\ new.items = row.items
      /\ new.w = row.w /\ new.o = row.o
  BY <1>4 DEF ShipmentRecord
<1>8. new # Missing
  BY <1>4, <1>7 DEF Missing, ShipmentStatus
<1> HIDE DEF new
<1>9. shipment' \in [ShipmentRows -> {Missing} \cup ShipmentRecord]
  BY <1>1, <1>6, <1>7 DEF RowsTyped
<1>10. \A t \in ShipmentRows : /\ shipment'[t] # Missing <=> shipment[t] # Missing
                               /\ shipment'[t].items = shipment[t].items
                               /\ shipment'[t].w = shipment[t].w
                               /\ shipment'[t].o = shipment[t].o
  BY <1>2, <1>3, <1>6, <1>7, <1>8
<1>11. done => tx \in Transaction /\ tx.kind = status /\ tx.s = s /\ tx.plan = PlanOf(row)
  <2>1. PlanOf(row) \in [Warehouses -> Units]
    BY <1>5, NothingTyped DEF PlanOf
  <2> QED
    BY <2>1 DEF Transaction
<1> HIDE DEF tx
<1>12. /\ clerk' = [l \in Clerks |-> clerk'[l]]
       /\ \A l \in Clerks : clerk'[l] = IF l = k /\ done THEN [stage |-> "ready", todo |-> {tx}] ELSE clerk[l]
  BY <1>1, <1>3 DEF RowsTyped, Assign
<1>13. \A l \in Clerks : /\ clerk'[l].todo = IF l = k /\ done THEN {tx} ELSE clerk[l].todo
                         /\ HasWritten(l)' <=> HasWritten(l)
                         /\ HasWritten(l) => clerk'[l] = clerk[l]
                         /\ HasWritten(k) = FALSE
  BY <1>3, <1>12 DEF HasWritten, NoWork
<1>14. RowsTyped'
  <2>1. done => WorkTyped([stage |-> "ready", todo |-> {tx}])
    BY <1>11 DEF WorkTyped
  <2>2. \A l \in Clerks : WorkTyped(clerk'[l])
    BY <1>1, <1>12, <2>1 DEF RowsTyped
  <2> QED
    BY <1>1, <1>3, <1>9, <1>12, <2>2 DEF RowsTyped, WorkTyped
<1>15. RowsInARow'
  BY <1>1, <1>3, <1>6, <1>10 DEF RowsInARow, InARow, RowsTyped
<1>16. LocksHold'
  <2>1. ASSUME NEW ux PROVE MayCommit(ux)' = MayCommit(ux)
    BY <1>3 DEF MayCommit, Written
  <2>2. \A l \in Clerks : Locked(l)' = Locked(l)
    BY <1>13 DEF Locked, HasWritten, Rows
  <2>3. ASSUME NEW l \in Clerks, NEW ux \in clerk'[l].todo, HasWritten(l)', clerk'[l].tx = ux
        PROVE  MayCommit(ux)'
    <3>1. HasWritten(l) /\ clerk'[l] = clerk[l]
      BY <1>13, <2>3
    <3>2. MayCommit(ux)
      BY <1>1, <2>3, <3>1 DEF LocksHold
    <3> QED
      BY <2>1, <3>2
  <2> QED
    BY <1>1, <2>2, <2>3 DEF LocksHold
<1>17. ShipmentsHaveOrders'
  BY <1>1, <1>3, <1>10 DEF ShipmentsHaveOrders
<1>18. \A l \in Clerks : \A ux \in clerk[l].todo : Final(ux) => ux.s \in ShipmentRows
  BY <1>1, TransactionTyped DEF RowsTyped, WorkTyped, NoWork
<1>19. \A t \in ShipmentRows : PlanOf(shipment'[t]) = PlanOf(shipment[t])
  BY <1>10 DEF PlanOf
<1>20. WorkIsDue'
  <2> SUFFICES ASSUME NEW l \in Clerks, NEW ux \in clerk'[l].todo
               PROVE  /\ Ships(ux) => orderRow'[ux.o] # Missing
                      /\ Final(ux) =>
                          shipment'[ux.s] # Missing /\ ux.plan = PlanOf(shipment'[ux.s])
    BY DEF WorkIsDue, Ships, Final, PlanOf, Nothing
  <2>1. CASE l = k /\ done
    <3>1. ux = tx /\ ux.s = s /\ ux.plan = PlanOf(shipment[s]) /\ ~Ships(ux)
      BY <1>2, <1>11, <1>13, <2>1 DEF Ships
    <3> QED
      BY <1>2, <1>3, <1>10, <1>19, <3>1
  <2>2. CASE ~(l = k /\ done)
    <3>1. ux \in clerk[l].todo
      BY <1>13, <2>2
    <3> QED
      BY <1>1, <1>3, <1>10, <1>18, <1>19, <3>1 DEF WorkIsDue
  <2> QED
    BY <2>1, <2>2
<1>21. ShelvesBalanced' /\ SettledExist'
  <2>1. \A w \in Warehouses, v \in Variants :
            UnitsAt(w, v)' = UnitsAt(w, v) /\ SettledAt(w, v)' = SettledAt(w, v)
    BY <1>3, <1>10 DEF UnitsAt, SettledAt, StoredAt
  <2> QED
    BY <1>1, <1>3, <1>10, <2>1 DEF ShelvesBalanced, SettledExist
<1>22. RoutedOnce'
  <2>1. Shipped(1)' = Shipped(1)
    BY <1>10 DEF Shipped
  <2>2. \A l \in Clerks : \A ux \in clerk'[l].todo : Ships(ux) => ux \in clerk[l].todo
    BY <1>11, <1>13 DEF Ships
  <2>3. ASSUME NEW P \in [Warehouses -> Units], FollowsPlan(P)
        PROVE  FollowsPlan(P)'
    <3>1. \A t \in Shipped(1) : t \in ShipmentRows /\ shipment'[t].w = shipment[t].w
                                  /\ shipment'[t].items = shipment[t].items
      BY <1>10 DEF Shipped
    <3>2. \A l \in Clerks : \A ux \in clerk'[l].todo : ux.kind = "ship" => ux \in clerk[l].todo
      BY <2>2 DEF Ships
    <3>3. \A l \in Clerks : \A ux \in clerk'[l].todo : ux.kind = "ship" =>
          /\ \E w \in Warehouses :
                /\ ux = OneShip(P, w) /\ P[w] # Nothing
                /\ \A t \in Shipped(1) : shipment'[t].w # w
          /\ \A m \in Clerks : \A yx \in clerk'[m].todo : yx.kind = "ship" => m = l
      BY <2>3, <3>1, <3>2 DEF FollowsPlan
    <3>4. /\ \A v \in Variants : Planned(P, v) <= Bought[v]
          /\ \A t \in Shipped(1) : shipment'[t].items = P[shipment'[t].w]
          /\ \A t, u \in Shipped(1) : shipment'[t].w = shipment'[u].w => t = u
      BY <2>3, <3>1 DEF FollowsPlan
    <3>5. \A v \in Variants : Planned(P, v)' = Planned(P, v)
      BY DEF Planned
    <3> QED
      BY <2>1, <3>3, <3>4, <3>5 DEF FollowsPlan, OneShip, Nothing
  <2>4. routings = 0 => \A l \in Clerks : \A ux \in clerk'[l].todo : ~Ships(ux)
    BY <1>1, <2>2 DEF RoutedOnce
  <2> QED
    BY <1>1, <1>3, <2>1, <2>3, <2>4 DEF RoutedOnce, Ships
<1> QED
  BY <1>14, <1>15, <1>16, <1>17, <1>20, <1>21, <1>22 DEF ShipmentsInv

-----------------------------------------------------------------------------
\* The rows that a transaction creates (warehouse.service.ts:147 and :175).

Used(tx) == {w \in Warehouses : tx.plan[w] # Nothing}
IdAfter(n, used, w) == n + 1 + PlaceIn(used, w)

LEMMA UsedIsFinite ==
    ASSUME NEW tx
    PROVE  Used(tx) \in SUBSET Nat /\ IsFiniteSet(Used(tx)) /\ Cardinality(Used(tx)) \in Nat
<1>1. Warehouses \subseteq Nat /\ IsFiniteSet(Warehouses)
  <2>1. PICK n \in Nat : n = Cardinality(Warehouses)
    BY ShipmentsAssumption, FS_CardinalityType
  <2>2. Warehouses = 1..n /\ IsFiniteSet(Warehouses)
    BY <2>1, ShipmentsAssumption
  <2> QED
    BY <2>2
<1>2. Used(tx) \in SUBSET Warehouses
  BY DEF Used
<1>3. IsFiniteSet(Used(tx))
  BY <1>1, <1>2, FS_Subset
<1> QED
  BY <1>1, <1>2, <1>3, FS_CardinalityType

\* New rows take the next ids.
LEMMA NewIds ==
    ASSUME NEW used \in SUBSET Nat, IsFiniteSet(used), NEW n \in Nat
    PROVE  /\ \A w \in used : IdAfter(n, used, w) \in Nat /\ IdAfter(n, used, w) > n
           /\ \A w, x \in used : IdAfter(n, used, w) = IdAfter(n, used, x) => w = x
           /\ \A i \in Nat : i > n /\ i <= n + Cardinality(used)
                 <=> \E w \in used : IdAfter(n, used, w) = i
<1>1. PICK c \in Nat : c = Cardinality(used)
  BY FS_CardinalityType
<1>2. /\ \A w \in used : PlaceIn(used, w) \in 0..(c - 1)
      /\ \A w, x \in used : PlaceIn(used, w) = PlaceIn(used, x) => w = x
  BY <1>1, PlacesAreDistinct
<1>3. \A i \in 0..(c - 1) : \E w \in used : PlaceIn(used, w) = i
  BY <1>1, PlacesAreAll
<1>4. ASSUME NEW i \in Nat, i > n, i <= n + c
      PROVE  \E w \in used : IdAfter(n, used, w) = i
  <2>1. i - n - 1 \in 0..(c - 1)
    BY <1>4
  <2>2. PICK w \in used : PlaceIn(used, w) = i - n - 1
    BY <1>3, <2>1
  <2> QED
    BY <2>2 DEF IdAfter
<1>5. ASSUME NEW w \in used
      PROVE  /\ IdAfter(n, used, w) \in Nat /\ IdAfter(n, used, w) > n
             /\ IdAfter(n, used, w) <= n + c
  BY <1>2 DEF IdAfter
<1>6. ASSUME NEW w \in used, NEW x \in used, IdAfter(n, used, w) = IdAfter(n, used, x)
      PROVE  w = x
  <2>1. PlaceIn(used, w) \in Int /\ PlaceIn(used, x) \in Int
    BY <1>2
  <2>2. PlaceIn(used, w) = PlaceIn(used, x)
    BY <1>6, <2>1 DEF IdAfter
  <2> QED
    BY <1>2, <2>2
<1> QED
  BY <1>1, <1>4, <1>5, <1>6

\* The last of them.
LEMMA LastId ==
    ASSUME NEW used \in SUBSET Nat, IsFiniteSet(used), NEW n \in Nat, NEW most \in Nat, n <= most,
           \A w \in used : IdAfter(n, used, w) <= most
    PROVE  n + Cardinality(used) <= most
<1>1. PICK c \in Nat : c = Cardinality(used)
  BY FS_CardinalityType
<1>2. CASE c = 0
  BY <1>1, <1>2
<1>3. CASE c # 0
  <2>1. n + c \in Nat /\ n + c > n /\ n + c <= n + c
    BY <1>3
  <2>2. \E w \in used : IdAfter(n, used, w) = n + c
    BY <1>1, <2>1, NewIds
  <2> QED
    BY <1>1, <2>2
<1> QED
  BY <1>2, <1>3

NewShipment(tx, o, w) == [status |-> "UNDER_WAY", o |-> o, w |-> w, items |-> tx.plan[w]]
NewOrder(tx, w) == [status |-> "CONFIRMED", items |-> tx.plan[w]]
OrderOf(tx, m, w) == IF tx.kind = "split" THEN IdAfter(m, Used(tx), w) ELSE tx.o

\* Create, with the next ids given.
CreateFrom(tx, nextShipment, nextOrder) ==
    LET for(w) == IF tx.kind = "split" THEN nextOrder + PlaceIn(Used(tx), w) ELSE tx.o
        rows == {[id |-> nextShipment + PlaceIn(Used(tx), w), o |-> for(w), w |-> w, items |-> tx.plan[w]] :
                    w \in Used(tx)}
    IN  /\ \A r \in rows : r.id \in ShipmentRows /\ r.o \in OrderRows
        /\ shipment' = [s \in ShipmentRows |->
              IF \E r \in rows : r.id = s
              THEN LET r == CHOOSE x \in rows : x.id = s
                   IN  [status |-> "UNDER_WAY", o |-> r.o, w |-> r.w, items |-> r.items]
              ELSE shipment[s]]
        /\ IF tx.kind = "ship" THEN UNCHANGED orderRow
           ELSE orderRow' = [o \in OrderRows |->
                  IF o = tx.o THEN [orderRow[o] EXCEPT !.status = "PROCESSING"]
                  ELSE IF \E r \in rows : r.o = o
                  THEN [status |-> "CONFIRMED", items |-> (CHOOSE r \in rows : r.o = o).items]
                  ELSE orderRow[o]]

LEMMA CreateIs ==
    ASSUME RowsTyped, NEW tx \in Transaction, Ships(tx), Create(tx),
           NEW n \in 0..MaxShipments, InARow(shipment, n),
           NEW m \in 1..MaxOrderRows, InARow(orderRow, m), orderRow[tx.o] # Missing
    PROVE  /\ \A w \in Used(tx) :
                /\ IdAfter(n, Used(tx), w) \in ShipmentRows
                /\ OrderOf(tx, m, w) \in OrderRows
                /\ shipment'[IdAfter(n, Used(tx), w)] = NewShipment(tx, OrderOf(tx, m, w), w)
                /\ tx.kind = "split" => orderRow'[OrderOf(tx, m, w)] = NewOrder(tx, w)
           /\ shipment' = [s \in ShipmentRows |-> shipment'[s]]
           /\ \A s \in ShipmentRows :
                (\A w \in Used(tx) : IdAfter(n, Used(tx), w) # s) => shipment'[s] = shipment[s]
           /\ tx.kind = "ship" => orderRow' = orderRow
           /\ tx.kind = "split" =>
                /\ orderRow' = [o \in OrderRows |-> orderRow'[o]]
                /\ orderRow'[tx.o] = [orderRow[tx.o] EXCEPT !.status = "PROCESSING"]
                /\ \A o \in OrderRows :
                     o # tx.o /\ (\A w \in Used(tx) : OrderOf(tx, m, w) # o) => orderRow'[o] = orderRow[o]
<1> DEFINE used == Used(tx)
           id(w) == IdAfter(n, used, w)
           for(w) == OrderOf(tx, m, w)
           row(w) == [id |-> id(w), o |-> for(w), w |-> w, items |-> tx.plan[w]]
           rows == {row(w) : w \in used}
<1>1. NextRow(shipment) = n + 1 /\ NextRow(orderRow) = m + 1
  <2>1. DOMAIN shipment = 1..MaxShipments /\ DOMAIN orderRow = 1..MaxOrderRows
    BY DEF RowsTyped, ShipmentRows, OrderRows
  <2> QED
    BY <2>1, NextRowIs, ShipmentsAssumption
<1>2. /\ \A r \in rows : r.id \in ShipmentRows /\ r.o \in OrderRows
      /\ shipment' = [s \in ShipmentRows |->
            IF \E r \in rows : r.id = s
            THEN LET r == CHOOSE x \in rows : x.id = s
                 IN  [status |-> "UNDER_WAY", o |-> r.o, w |-> r.w, items |-> r.items]
            ELSE shipment[s]]
      /\ IF tx.kind = "ship" THEN UNCHANGED orderRow
         ELSE orderRow' = [o \in OrderRows |->
                IF o = tx.o THEN [orderRow[o] EXCEPT !.status = "PROCESSING"]
                ELSE IF \E r \in rows : r.o = o
                THEN [status |-> "CONFIRMED", items |-> (CHOOSE r \in rows : r.o = o).items]
                ELSE orderRow[o]]
  <2>1. CreateFrom(tx, NextRow(shipment), NextRow(orderRow))
    BY DEF Create, CreateFrom, Used, PlaceIn
  <2>2. CreateFrom(tx, n + 1, m + 1)
    BY <1>1, <2>1
  <2> QED
    BY <2>2 DEF CreateFrom, IdAfter, OrderOf
<1>3. /\ \A w \in used : row(w) \in rows /\ row(w).id = id(w) /\ row(w).o = for(w)
                          /\ row(w).w = w /\ row(w).items = tx.plan[w]
      /\ \A r \in rows : \E w \in used : r = row(w)
  OBVIOUS
<1>4. used \in SUBSET Nat /\ IsFiniteSet(used)
  BY UsedIsFinite
<1>5. /\ \A w, x \in used : id(w) = id(x) => w = x
      /\ \A w, x \in used : IdAfter(m, used, w) = IdAfter(m, used, x) => w = x
      /\ \A w \in used : IdAfter(m, used, w) > m /\ IdAfter(m, used, w) \in Nat
  BY <1>4, NewIds
<1> HIDE DEF row, rows, id, for
<1>6. ASSUME NEW w \in used
      PROVE  /\ id(w) \in ShipmentRows /\ for(w) \in OrderRows
             /\ shipment'[id(w)] = NewShipment(tx, for(w), w)
  <2>1. id(w) \in ShipmentRows /\ for(w) \in OrderRows
    BY <1>2, <1>3, <1>6
  <2>2. \A r \in rows : r.id = id(w) <=> r = row(w)
    BY <1>3, <1>5, <1>6
  <2>3. (CHOOSE x \in rows : x.id = id(w)) = row(w)
    BY <1>3, <1>6, <2>2
  <2>4. shipment'[id(w)] =
          LET r == CHOOSE x \in rows : x.id = id(w)
          IN  [status |-> "UNDER_WAY", o |-> r.o, w |-> r.w, items |-> r.items]
    BY <1>2, <1>3, <1>6, <2>1
  <2> QED
    BY <1>3, <1>6, <2>1, <2>3, <2>4 DEF NewShipment
<1>7. ASSUME NEW s \in ShipmentRows, \A w \in used : id(w) # s
      PROVE  shipment'[s] = shipment[s]
  <2>1. ~ \E r \in rows : r.id = s
    BY <1>3, <1>7
  <2> QED
    BY <1>2, <2>1
<1>8. tx.o \in OrderRows /\ tx.kind \in {"ship", "split"}
  BY TransactionTyped DEF Ships
<1>9. ASSUME tx.kind = "split"
      PROVE  /\ orderRow' = [o \in OrderRows |-> orderRow'[o]]
             /\ orderRow'[tx.o] = [orderRow[tx.o] EXCEPT !.status = "PROCESSING"]
             /\ \A w \in used : orderRow'[for(w)] = NewOrder(tx, w)
             /\ \A o \in OrderRows :
                  o # tx.o /\ (\A w \in used : for(w) # o) => orderRow'[o] = orderRow[o]
  <2>1. orderRow' = [o \in OrderRows |->
                IF o = tx.o THEN [orderRow[o] EXCEPT !.status = "PROCESSING"]
                ELSE IF \E r \in rows : r.o = o
                THEN [status |-> "CONFIRMED", items |-> (CHOOSE r \in rows : r.o = o).items]
                ELSE orderRow[o]]
    BY <1>2, <1>9
  <2>2. \A w \in used : for(w) = IdAfter(m, used, w)
    BY <1>9 DEF for, OrderOf
  <2>3. tx.o <= m
    BY <1>8 DEF InARow, RowsTyped
  <2>4. ASSUME NEW w \in used
        PROVE  orderRow'[for(w)] = NewOrder(tx, w)
    <3>1. for(w) # tx.o
      BY <1>5, <1>8, <2>2, <2>3, <2>4 DEF OrderRows
    <3>2. \A r \in rows : r.o = for(w) <=> r = row(w)
      BY <1>3, <1>5, <2>2, <2>4
    <3>3. (CHOOSE r \in rows : r.o = for(w)) = row(w)
      BY <1>3, <2>4, <3>2
    <3>4. orderRow'[for(w)] = [status |-> "CONFIRMED", items |-> (CHOOSE r \in rows : r.o = for(w)).items]
      BY <1>3, <1>6, <2>1, <2>4, <3>1
    <3> QED
      BY <1>3, <2>4, <3>3, <3>4 DEF NewOrder
  <2>5. ASSUME NEW o \in OrderRows, o # tx.o, \A w \in used : for(w) # o
        PROVE  orderRow'[o] = orderRow[o]
    <3>1. ~ \E r \in rows : r.o = o
      BY <1>3, <2>5
    <3> QED
      BY <2>1, <2>5, <3>1
  <2>6. orderRow'[tx.o] = [orderRow[tx.o] EXCEPT !.status = "PROCESSING"]
    BY <1>8, <2>1
  <2>7. orderRow' = [o \in OrderRows |-> orderRow'[o]]
    BY <2>1
  <2> QED
    BY <2>4, <2>5, <2>6, <2>7
<1>10. shipment' = [s \in ShipmentRows |-> shipment'[s]]
  BY <1>2
<1>11. tx.kind = "ship" => orderRow' = orderRow
  BY <1>2
<1> QED
  BY <1>6, <1>7, <1>9, <1>10, <1>11 DEF id, for

-----------------------------------------------------------------------------
\* A commit.

Commits(k, tx, c) ==
    /\ tx \in Transaction /\ tx \in clerk[k].todo /\ tx = clerk[k].tx
    /\ clerk[k].stage = "summed"
    /\ MayCommit(tx)
    /\ \A l \in Clerks \ {k} : Locked(l) \cap Rows(tx) = {}
    /\ c.stage \in {"idle", "ready"} /\ c.todo = clerk[k].todo \ {tx} /\ WorkTyped(c)
    /\ clerk' = [l \in Clerks |-> clerk'[l]]
    /\ \A l \in Clerks : clerk'[l] = IF l = k THEN c ELSE clerk[l]
    /\ shelf' = [w \in Warehouses |-> [v \in Variants |-> Seen(tx, w, v)]]
    /\ routings' = routings

LEMMA CommitIs ==
    ASSUME ShipmentsInv, NEW k \in Clerks, Commit(k)
    PROVE  \E tx, c : /\ Commits(k, tx, c)
                      /\ settled' = IF Final(tx) THEN [settled EXCEPT ![tx.s] = @ + 1] ELSE settled
                      /\ Ships(tx) => Create(tx)
                      /\ tx.kind = "RTO" =>
                            /\ orderRow' = [orderRow EXCEPT ![shipment[tx.s].o].status = "RETURN_REQUESTED"]
                            /\ UNCHANGED shipment
                      /\ tx.kind \in {"count", "DELIVERED"} => UNCHANGED <<orderRow, shipment>>
<1>1. RowsTyped /\ LocksHold
  BY DEF ShipmentsInv
<1>2. PICK tx : tx = clerk[k].tx
  OBVIOUS
<1>3. clerk[k].stage = "summed"
  BY DEF Commit
<1>4. tx \in clerk[k].todo /\ clerk[k].todo \subseteq Transaction /\ tx \in Transaction
  BY <1>1, <1>2, <1>3 DEF RowsTyped, WorkTyped, NoWork
<1>5. HasWritten(k) /\ Locked(k) = Rows(tx)
  BY <1>2, <1>3 DEF HasWritten, Locked
<1>6. MayCommit(tx) /\ \A l \in Clerks \ {k} : Locked(l) \cap Rows(tx) = {}
  BY <1>1, <1>2, <1>4, <1>5 DEF LocksHold
<1> DEFINE left == clerk[k].todo \ {tx}
<1>7. PICK c : /\ clerk' = [clerk EXCEPT ![k] = c]
               /\ c.stage \in {"idle", "ready"} /\ c.todo = left /\ WorkTyped(c)
  <2>1. CASE left = {}
    <3>1. Answer(k)
      BY <1>2, <2>1 DEF Commit
    <3> QED
      BY <2>1, <3>1 DEF Answer, NoWork, WorkTyped
  <2>2. CASE left # {}
    <3>1. Assign(k, left)
      BY <1>2, <2>2 DEF Commit
    <3> DEFINE c == [stage |-> "ready", todo |-> left]
    <3>2. c.stage = "ready" /\ c.todo = left /\ clerk' = [clerk EXCEPT ![k] = c]
      BY <3>1 DEF Assign
    <3> HIDE DEF c
    <3>3. WorkTyped(c)
      BY <1>4, <3>2 DEF WorkTyped
    <3> QED
      BY <3>2, <3>3
  <2> QED
    BY <2>1, <2>2
<1>8. /\ clerk' = [l \in Clerks |-> clerk'[l]]
      /\ \A l \in Clerks : clerk'[l] = IF l = k THEN c ELSE clerk[l]
  BY <1>1, <1>7 DEF RowsTyped
<1>9. /\ shelf' = [w \in Warehouses |-> [v \in Variants |-> Seen(tx, w, v)]]
      /\ routings' = routings
  BY <1>2 DEF Commit
<1>10. Commits(k, tx, c)
  BY <1>2, <1>3, <1>4, <1>6, <1>7, <1>8, <1>9 DEF Commits
<1>11. /\ settled' = IF Final(tx) THEN [settled EXCEPT ![tx.s] = @ + 1] ELSE settled
       /\ Ships(tx) => Create(tx)
       /\ tx.kind = "RTO" =>
            /\ orderRow' = [orderRow EXCEPT ![shipment[tx.s].o].status = "RETURN_REQUESTED"]
            /\ UNCHANGED shipment
       /\ tx.kind \in {"count", "DELIVERED"} => UNCHANGED <<orderRow, shipment>>
  BY <1>2 DEF Commit, Ships, Final
<1> QED
  BY <1>10, <1>11

\* What the transaction has reserved or released is on the shelf.
LEMMA CommitShelf ==
    ASSUME ShipmentsInv, NEW k \in Clerks, NEW tx, NEW c, Commits(k, tx, c)
    PROVE  /\ shelf' \in [Warehouses -> [Variants -> Level]]
           /\ \A w \in Warehouses, v \in Variants :
                /\ tx.kind = "count" => shelf'[w][v].reserved = shelf[w][v].reserved
                /\ Ships(tx) => shelf'[w][v].reserved = shelf[w][v].reserved + tx.plan[w][v]
                /\ Final(tx) => shelf'[w][v].reserved = shelf[w][v].reserved - tx.plan[w][v]
<1>1. RowsTyped /\ tx \in Transaction /\ MayCommit(tx)
  BY DEF ShipmentsInv, Commits
<1>2. \A w \in Warehouses, v \in Variants : Seen(tx, w, v) \in Level
  BY <1>1, SeenTyped
<1>3. \A w \in Warehouses, v \in Variants : shelf'[w][v] = Seen(tx, w, v)
  BY DEF Commits
<1>4. shelf' \in [Warehouses -> [Variants -> Level]]
  BY <1>2 DEF Commits
<1>5. ASSUME NEW w \in Warehouses, NEW v \in Variants
      PROVE  /\ tx.kind = "count" => shelf'[w][v].reserved = shelf[w][v].reserved
             /\ Ships(tx) => shelf'[w][v].reserved = shelf[w][v].reserved + tx.plan[w][v]
             /\ Final(tx) => shelf'[w][v].reserved = shelf[w][v].reserved - tx.plan[w][v]
  <2>1. CASE <<w, v>> \in Rows(tx)
    <3>1. shelf'[w][v] = Written(tx, w, v)
      BY <1>3, <2>1 DEF Seen
    <3>2. /\ tx.kind = "count" => Written(tx, w, v).reserved = shelf[w][v].reserved
          /\ Ships(tx) => Written(tx, w, v).reserved = shelf[w][v].reserved + tx.plan[w][v]
          /\ Final(tx) => Written(tx, w, v).reserved = shelf[w][v].reserved - tx.plan[w][v]
      BY <1>1, WrittenIs
    <3> QED
      BY <3>1, <3>2
  <2>2. CASE <<w, v>> \notin Rows(tx)
    <3>1. shelf'[w][v] = shelf[w][v]
      BY <1>3, <2>2 DEF Seen
    <3>2. shelf[w][v].reserved \in Int
      BY <1>1, ShipmentsAssumption DEF RowsTyped, Level
    <3>3. Ships(tx) \/ Final(tx) => tx.plan[w][v] = 0
      <4> SUFFICES ASSUME Ships(tx) \/ Final(tx) PROVE tx.plan[w][v] = 0
        OBVIOUS
      <4>1. tx.plan \in [Warehouses -> Units]
        BY <1>1, TransactionTyped
      <4>2. tx.plan[w][v] \in Nat
        BY <4>1, ShipmentsAssumption DEF Units
      <4>3. ~(tx.plan[w][v] > 0)
        BY <2>2 DEF Rows, Ships, Final
      <4> QED
        BY <4>2, <4>3
    <3> QED
      BY <3>1, <3>2, <3>3
  <2> QED
    BY <2>1, <2>2
<1> QED
  BY <1>4, <1>5

LEMMA CommitTypes ==
    ASSUME ShipmentsInv, NEW k \in Clerks, Commit(k), NEW tx, NEW c, Commits(k, tx, c)
    PROVE  /\ cached' \in [Variants -> [stock : Nat, reserved : Nat]]
           /\ \A l \in Clerks : WorkTyped(clerk'[l])
           /\ \A l \in Clerks : clerk'[l].todo \subseteq clerk[l].todo
           /\ LocksHold'
<1>1. RowsTyped /\ LocksHold
  BY DEF ShipmentsInv
<1>2. PICK sums : sums = clerk[k].sums
  OBVIOUS
<1>3. sums \in Sums
  BY <1>1, <1>2 DEF RowsTyped, WorkTyped, NoWork, Commits
<1>4. PICK V \in SUBSET Variants : sums \in [V -> [stock : Nat, reserved : Nat]]
  BY <1>3 DEF Sums
<1>5. cached' = [v \in Variants |-> IF v \in DOMAIN sums THEN sums[v] ELSE cached[v]]
  BY <1>2 DEF Commit
<1>6. cached' \in [Variants -> [stock : Nat, reserved : Nat]]
  BY <1>1, <1>4, <1>5 DEF RowsTyped
<1>7. \A l \in Clerks : WorkTyped(clerk'[l]) /\ clerk'[l].todo \subseteq clerk[l].todo
  BY <1>1 DEF RowsTyped, Commits
<1>8. \A l \in Clerks : /\ HasWritten(l)' => l # k /\ clerk'[l] = clerk[l] /\ HasWritten(l)
                        /\ Locked(l)' \subseteq Locked(l)
  BY DEF Commits, HasWritten, Locked, Rows
<1>9. ASSUME NEW l \in Clerks, NEW ux \in clerk'[l].todo, HasWritten(l)', clerk'[l].tx = ux
      PROVE  MayCommit(ux)'
  <2>1. l # k /\ ux \in clerk[l].todo /\ ux = clerk[l].tx /\ HasWritten(l)
    BY <1>8, <1>9
  <2>2. MayCommit(ux) /\ Locked(l) = Rows(ux) /\ Rows(ux) \cap Rows(tx) = {}
    BY <1>1, <2>1 DEF LocksHold, Locked, HasWritten, Commits
  <2>3. Rows(ux) \subseteq Warehouses \X Variants /\ Rows(ux)' = Rows(ux)
    <3>1. ux \in Transaction
      BY <1>1, <2>1 DEF RowsTyped, WorkTyped, NoWork
    <3>2. Rows(ux) \subseteq Warehouses \X Variants
      BY <3>1, TransactionTyped
    <3> QED
      BY <3>2 DEF Rows
  <2>4. ASSUME NEW r \in Rows(ux)
        PROVE  Written(ux, r[1], r[2])' = Written(ux, r[1], r[2])
    <3>1. PICK w \in Warehouses, v \in Variants : r = <<w, v>>
      BY <2>3, <2>4
    <3>2. shelf'[w][v] = shelf[w][v]
      BY <2>2, <2>4, <3>1 DEF Commits, Seen
    <3>3. Written(ux, w, v)' = Written(ux, w, v)
      BY <3>2 DEF Written
    <3> QED
      BY <3>1, <3>3
  <2> QED
    BY <2>2, <2>3, <2>4 DEF MayCommit, Level
<1>10. \A l, m \in Clerks : l # m => Locked(l)' \cap Locked(m)' = {}
  BY <1>1, <1>8 DEF LocksHold
<1>11. LocksHold'
  BY <1>9, <1>10 DEF LocksHold
<1> QED
  BY <1>6, <1>7, <1>11

\* What is still to be done stays due when no row that it is about changes.
LEMMA DueStays ==
    ASSUME ShipmentsInv, \A l \in Clerks : clerk'[l].todo \subseteq clerk[l].todo,
           \A o \in OrderRows : orderRow[o] # Missing => orderRow'[o] # Missing,
           \A s \in ShipmentRows : shipment[s] # Missing => shipment'[s] = shipment[s]
    PROVE  WorkIsDue'
<1>1. RowsTyped /\ WorkIsDue
  BY DEF ShipmentsInv
<1>2. \A l \in Clerks : \A ux \in clerk[l].todo :
          /\ Ships(ux) => ux.o \in OrderRows
          /\ Final(ux) => ux.s \in ShipmentRows
  BY <1>1, TransactionTyped DEF RowsTyped, WorkTyped, NoWork
<1> SUFFICES ASSUME NEW l \in Clerks, NEW ux \in clerk'[l].todo
             PROVE  /\ Ships(ux) => orderRow'[ux.o] # Missing
                    /\ Final(ux) =>
                        shipment'[ux.s] # Missing /\ ux.plan = PlanOf(shipment'[ux.s])
  BY DEF WorkIsDue, Ships, Final, PlanOf, Nothing
<1>3. ux \in clerk[l].todo
  OBVIOUS
<1>4. /\ Ships(ux) => orderRow[ux.o] # Missing
      /\ Final(ux) => shipment[ux.s] # Missing /\ ux.plan = PlanOf(shipment[ux.s])
  BY <1>1, <1>3 DEF WorkIsDue
<1>5. Final(ux) => shipment'[ux.s] = shipment[ux.s]
  BY <1>2, <1>3, <1>4
<1> QED
  BY <1>2, <1>3, <1>4, <1>5

\* A commit that creates no shipment of the first order.
LEMMA RoutingKept ==
    ASSUME ShipmentsInv, \A l \in Clerks : clerk'[l].todo \subseteq clerk[l].todo,
           \A s \in ShipmentRows :
              shipment[s] # Missing \/ (shipment'[s] # Missing /\ shipment'[s].o = 1)
                  => shipment'[s] = shipment[s],
           orderRow'[1] # Missing, orderRow'[1].items = orderRow[1].items,
           routings = 0 => \A o \in OrderRows : orderRow'[o] # Missing => orderRow[o] # Missing,
           routings' = routings
    PROVE  RoutedOnce'
<1>1. RoutedOnce
  BY DEF ShipmentsInv
<1>2. Shipped(1)' = Shipped(1) /\ \A s \in Shipped(1) : shipment'[s] = shipment[s]
  BY DEF Shipped
<1>3. ASSUME NEW P \in [Warehouses -> Units], FollowsPlan(P)
      PROVE  FollowsPlan(P)'
  <2>1. \A l \in Clerks : \A ux \in clerk'[l].todo : ux.kind = "ship" =>
          /\ \E w \in Warehouses :
                /\ ux = OneShip(P, w) /\ P[w] # Nothing
                /\ \A t \in Shipped(1) : shipment'[t].w # w
          /\ \A m \in Clerks : \A yx \in clerk'[m].todo : yx.kind = "ship" => m = l
    BY <1>2, <1>3 DEF FollowsPlan
  <2>2. /\ \A v \in Variants : Planned(P, v) <= Bought[v]
        /\ \A t \in Shipped(1) : shipment'[t].items = P[shipment'[t].w]
        /\ \A t, u \in Shipped(1) : shipment'[t].w = shipment'[u].w => t = u
    BY <1>2, <1>3 DEF FollowsPlan
  <2>3. \A v \in Variants : Planned(P, v)' = Planned(P, v)
    BY DEF Planned
  <2> QED
    BY <1>2, <2>1, <2>2, <2>3 DEF FollowsPlan, OneShip, Nothing
<1>4. routings = 0 => \A l \in Clerks : \A ux \in clerk'[l].todo : ~Ships(ux)
  BY <1>1 DEF RoutedOnce
<1> QED
  BY <1>1, <1>2, <1>3, <1>4 DEF RoutedOnce, Ships

LEMMA UnitsTyped ==
    ASSUME shipment \in [ShipmentRows -> {Missing} \cup ShipmentRecord],
           settled \in [ShipmentRows -> Nat]
    PROVE  \A w, v : \A s \in ShipmentRows : v \in Variants =>
              UnitsAt(w, v)[s] \in Nat /\ SettledAt(w, v)[s] \in Nat
<1> SUFFICES ASSUME NEW w, NEW v \in Variants, NEW s \in ShipmentRows
             PROVE  UnitsAt(w, v)[s] \in Nat /\ SettledAt(w, v)[s] \in Nat
  OBVIOUS
<1>1. CASE StoredAt(s, w)
  <2>1. shipment[s].items[v] \in Nat /\ settled[s] \in Nat
    BY <1>1, ShipmentsAssumption DEF StoredAt, ShipmentRecord, Units
  <2>2. settled[s] * shipment[s].items[v] \in Nat
    BY <2>1
  <2> QED
    BY <1>1, <2>1, <2>2 DEF UnitsAt, SettledAt
<1>2. CASE ~StoredAt(s, w)
  BY <1>2 DEF UnitsAt, SettledAt
<1> QED
  BY <1>1, <1>2

LEMMA CommitCountKeeps ==
    ASSUME ShipmentsInv, NEW k \in Clerks, Commit(k), NEW tx, NEW c, Commits(k, tx, c),
           tx.kind = "count", UNCHANGED <<orderRow, shipment, settled>>
    PROVE  ShipmentsInv'
<1>1. /\ RowsTyped /\ RowsInARow /\ ShipmentsHaveOrders /\ ShelvesBalanced /\ SettledExist /\ RoutedOnce
  BY DEF ShipmentsInv
<1>2. \A l \in Clerks : clerk'[l].todo \subseteq clerk[l].todo
  BY CommitTypes
<1>3. RowsTyped'
  <2>1. /\ shelf' \in [Warehouses -> [Variants -> Level]]
        /\ cached' \in [Variants -> [stock : Nat, reserved : Nat]]
        /\ \A l \in Clerks : WorkTyped(clerk'[l])
    BY CommitTypes, CommitShelf
  <2>2. clerk' = [l \in Clerks |-> clerk'[l]]
    BY DEF Commits
  <2>3. /\ orderRow' \in [OrderRows -> {Missing} \cup OrderRecord]
        /\ shipment' \in [ShipmentRows -> {Missing} \cup ShipmentRecord]
        /\ settled' \in [ShipmentRows -> Nat]
    BY <1>1 DEF RowsTyped
  <2> QED
    BY <2>1, <2>2, <2>3 DEF RowsTyped, WorkTyped
<1>4. LocksHold'
  BY CommitTypes
<1>5. RowsInARow' /\ ShipmentsHaveOrders'
  BY <1>1 DEF RowsInARow, InARow, ShipmentsHaveOrders
<1>6. WorkIsDue'
  BY <1>2, DueStays
<1>7. RoutedOnce'
  <2>1. orderRow'[1] # Missing /\ orderRow'[1].items = orderRow[1].items /\ routings' = routings
    BY <1>1 DEF RoutedOnce, Commits
  <2> QED
    BY <1>2, <2>1, RoutingKept
<1>8. ShelvesBalanced' /\ SettledExist'
  <2>1. \A w \in Warehouses, v \in Variants :
            UnitsAt(w, v)' = UnitsAt(w, v) /\ SettledAt(w, v)' = SettledAt(w, v)
    BY DEF UnitsAt, SettledAt, StoredAt
  <2>2. \A w \in Warehouses, v \in Variants : shelf'[w][v].reserved = shelf[w][v].reserved
    BY CommitShelf
  <2> QED
    BY <1>1, <2>1, <2>2 DEF ShelvesBalanced, SettledExist
<1> QED
  BY <1>3, <1>4, <1>5, <1>6, <1>7, <1>8 DEF ShipmentsInv

\* A delivery or a return takes the units of its shipment once more.
LEMMA CommitFinalKeeps ==
    ASSUME ShipmentsInv, NEW k \in Clerks, Commit(k), NEW tx, NEW c, Commits(k, tx, c),
           Final(tx),
           tx.kind = "RTO" =>
              orderRow' = [orderRow EXCEPT ![shipment[tx.s].o].status = "RETURN_REQUESTED"],
           tx.kind = "DELIVERED" => UNCHANGED orderRow,
           UNCHANGED shipment, settled' = [settled EXCEPT ![tx.s] = @ + 1]
    PROVE  ShipmentsInv'
<1>1. /\ RowsTyped /\ RowsInARow /\ ShipmentsHaveOrders /\ ShelvesBalanced /\ SettledExist /\ RoutedOnce
      /\ WorkIsDue
  BY DEF ShipmentsInv
<1>2. \A l \in Clerks : clerk'[l].todo \subseteq clerk[l].todo
  BY CommitTypes
<1>3. tx \in clerk[k].todo /\ tx \in Transaction
  BY DEF Commits
<1>4. /\ tx.s \in ShipmentRows /\ shipment[tx.s] # Missing
      /\ tx.plan = PlanOf(shipment[tx.s])
  BY <1>1, <1>3, TransactionTyped DEF WorkIsDue
<1>5. PICK row \in ShipmentRecord : row = shipment[tx.s]
  BY <1>1, <1>4 DEF RowsTyped
<1>6. row.o \in OrderRows /\ orderRow[row.o] \in OrderRecord
  <2>1. row.o \in OrderRows /\ orderRow[row.o] # Missing
    BY <1>1, <1>4, <1>5 DEF ShipmentsHaveOrders, ShipmentRecord
  <2> QED
    BY <1>1, <2>1 DEF RowsTyped
<1>7. /\ orderRow' \in [OrderRows -> {Missing} \cup OrderRecord]
      /\ \A o \in OrderRows : /\ orderRow'[o] # Missing <=> orderRow[o] # Missing
                              /\ orderRow[o] # Missing => orderRow'[o].items = orderRow[o].items
  <2>1. CASE tx.kind = "DELIVERED"
    BY <1>1, <2>1 DEF RowsTyped
  <2>2. CASE tx.kind = "RTO"
    <3> DEFINE new == [orderRow[row.o] EXCEPT !.status = "RETURN_REQUESTED"]
    <3>1. new \in OrderRecord /\ new.items = orderRow[row.o].items /\ new.status = "RETURN_REQUESTED"
      BY <1>6 DEF OrderRecord
    <3>2. new # Missing
      BY <3>1 DEF Missing
    <3>3. orderRow' = [orderRow EXCEPT ![row.o] = new]
      BY <1>5, <2>2
    <3> HIDE DEF new
    <3>4. orderRow' \in [OrderRows -> {Missing} \cup OrderRecord]
      BY <1>1, <3>1, <3>3 DEF RowsTyped
    <3>5. \A o \in OrderRows : orderRow'[o] = IF o = row.o THEN new ELSE orderRow[o]
      BY <1>1, <3>3 DEF RowsTyped
    <3>6. orderRow[row.o] # Missing
      BY <1>1, <1>4, <1>5 DEF ShipmentsHaveOrders
    <3> QED
      BY <3>1, <3>2, <3>4, <3>5, <3>6
  <2> QED
    BY <2>1, <2>2 DEF Final
<1>8. RowsTyped'
  <2>1. /\ shelf' \in [Warehouses -> [Variants -> Level]]
        /\ cached' \in [Variants -> [stock : Nat, reserved : Nat]]
        /\ \A l \in Clerks : WorkTyped(clerk'[l])
    BY CommitTypes, CommitShelf
  <2>2. clerk' = [l \in Clerks |-> clerk'[l]]
    BY DEF Commits
  <2>3. /\ orderRow' \in [OrderRows -> {Missing} \cup OrderRecord]
        /\ shipment' \in [ShipmentRows -> {Missing} \cup ShipmentRecord]
        /\ settled' \in [ShipmentRows -> Nat]
    BY <1>1, <1>4, <1>7 DEF RowsTyped
  <2> QED
    BY <2>1, <2>2, <2>3 DEF RowsTyped, WorkTyped
<1>9. LocksHold'
  BY CommitTypes
<1>10. RowsInARow' /\ ShipmentsHaveOrders'
  <2>1. DOMAIN orderRow' = OrderRows /\ DOMAIN orderRow = OrderRows
    BY <1>1, <1>7 DEF RowsTyped
  <2>2. \A s \in ShipmentRows : shipment[s] # Missing => shipment[s].o \in OrderRows
    BY <1>1 DEF RowsTyped, ShipmentRecord
  <2>3. RowsInARow'
    BY <1>1, <1>7, <2>1 DEF RowsInARow, InARow
  <2> QED
    BY <1>1, <1>7, <2>2, <2>3 DEF ShipmentsHaveOrders
<1>11. WorkIsDue'
  BY <1>2, <1>7, DueStays
<1>12. RoutedOnce'
  <2>1. 1 \in OrderRows
    BY ShipmentsAssumption DEF OrderRows
  <2>2. orderRow'[1] # Missing /\ orderRow'[1].items = orderRow[1].items /\ routings' = routings
    BY <1>1, <1>7, <2>1 DEF RoutedOnce, Commits
  <2> QED
    BY <1>2, <1>7, <2>2, RoutingKept
<1>13. ShelvesBalanced'
  <2> SUFFICES ASSUME NEW w \in Warehouses, NEW v \in Variants
               PROVE  shelf'[w][v].reserved + SumOver(SettledAt(w, v)', ShipmentRows)
                          = SumOver(UnitsAt(w, v)', ShipmentRows)
    BY DEF ShelvesBalanced
  <2>1. UnitsAt(w, v)' = UnitsAt(w, v)
    BY DEF UnitsAt, StoredAt
  <2>2. shelf'[w][v].reserved = shelf[w][v].reserved - tx.plan[w][v]
    BY CommitShelf
  <2>3. tx.plan[w][v] = (IF row.w = w THEN row.items[v] ELSE 0) /\ row.items[v] \in Nat
    BY <1>4, <1>5, NothingTyped, ShipmentsAssumption DEF PlanOf, ShipmentRecord, Units
  <2>4. \A s \in ShipmentRows : settled'[s] = IF s = tx.s THEN settled[s] + 1 ELSE settled[s]
    BY <1>1, <1>4 DEF RowsTyped
  <2> DEFINE f == SettledAt(w, v)
             h == SettledAt(w, v)'
  <2>5. \A s \in ShipmentRows \ {tx.s} : f[s] = h[s]
    BY <2>4 DEF SettledAt, StoredAt
  <2>6. /\ f[tx.s] = IF row.w = w THEN settled[tx.s] * row.items[v] ELSE 0
        /\ h[tx.s] = IF row.w = w THEN (settled[tx.s] + 1) * row.items[v] ELSE 0
    <3>1. StoredAt(tx.s, w) <=> row.w = w
      BY <1>4, <1>5 DEF StoredAt
    <3>2. h = [s \in ShipmentRows |->
                  IF StoredAt(s, w) THEN settled'[s] * shipment[s].items[v] ELSE 0]
      BY DEF SettledAt, StoredAt
    <3>3. f = [s \in ShipmentRows |->
                  IF StoredAt(s, w) THEN settled[s] * shipment[s].items[v] ELSE 0]
      BY DEF SettledAt
    <3> HIDE DEF f, h
    <3> QED
      BY <1>4, <1>5, <2>4, <3>1, <3>2, <3>3
  <2>7. h[tx.s] = f[tx.s] + tx.plan[w][v]
    <3>1. PICK a \in Nat : a = settled[tx.s]
      BY <1>1, <1>4 DEF RowsTyped
    <3>2. PICK b \in Nat : b = row.items[v]
      BY <2>3
    <3>3. (a + 1) * b = a * b + b
      OBVIOUS
    <3> HIDE DEF f, h
    <3> QED
      BY <2>3, <2>6, <3>1, <3>2, <3>3
  <2>8. \A s \in ShipmentRows : f[s] \in Nat /\ h[s] \in Nat
    <3>1. \A s \in ShipmentRows : f[s] \in Nat
      BY <1>1, UnitsTyped DEF RowsTyped
    <3>2. tx.plan[w][v] \in Nat
      BY <2>3
    <3> HIDE DEF f, h
    <3> QED
      BY <1>4, <2>5, <2>7, <3>1, <3>2
  <2>9. shelf[w][v].reserved + SumOver(f, ShipmentRows) = SumOver(UnitsAt(w, v), ShipmentRows)
    BY <1>1 DEF ShelvesBalanced
  <2> HIDE DEF f, h
  <2>10. SumOver(h, ShipmentRows) + f[tx.s] = SumOver(f, ShipmentRows) + h[tx.s]
    BY <1>4, <2>5, <2>8, RowsAreFinite, SumChanged
  <2>11. SumOver(h, ShipmentRows) \in Nat /\ SumOver(f, ShipmentRows) \in Nat
    BY <2>8, RowsAreFinite, SumType
  <2>12. shelf[w][v].reserved \in Nat /\ tx.plan[w][v] \in Nat /\ f[tx.s] \in Nat
    BY <1>1, <1>4, <2>3, <2>8, ShipmentsAssumption DEF RowsTyped, Level
  <2>13. shelf'[w][v].reserved + SumOver(h, ShipmentRows) = SumOver(UnitsAt(w, v), ShipmentRows)
    BY <2>2, <2>7, <2>9, <2>10, <2>11, <2>12
  <2> QED
    BY <2>1, <2>13 DEF h
<1>14. SettledExist'
  BY <1>1, <1>4 DEF SettledExist, RowsTyped
<1> QED
  BY <1>8, <1>9, <1>10, <1>11, <1>12, <1>13, <1>14 DEF ShipmentsInv

\* The new rows are the next ones, and those that were there stay.
Creates(tx, n, m) ==
    /\ \A w \in Used(tx) :
          /\ IdAfter(n, Used(tx), w) \in ShipmentRows
          /\ OrderOf(tx, m, w) \in OrderRows
          /\ shipment'[IdAfter(n, Used(tx), w)] = NewShipment(tx, OrderOf(tx, m, w), w)
          /\ tx.kind = "split" => orderRow'[OrderOf(tx, m, w)] = NewOrder(tx, w)
    /\ shipment' = [s \in ShipmentRows |-> shipment'[s]]
    /\ \A s \in ShipmentRows :
          (\A w \in Used(tx) : IdAfter(n, Used(tx), w) # s) => shipment'[s] = shipment[s]
    /\ tx.kind = "ship" => orderRow' = orderRow
    /\ tx.kind = "split" =>
          /\ orderRow' = [o \in OrderRows |-> orderRow'[o]]
          /\ orderRow'[tx.o] = [orderRow[tx.o] EXCEPT !.status = "PROCESSING"]
          /\ \A o \in OrderRows :
               o # tx.o /\ (\A w \in Used(tx) : OrderOf(tx, m, w) # o) => orderRow'[o] = orderRow[o]

LEMMA RowsStay ==
    ASSUME RowsTyped, NEW tx \in Transaction, Ships(tx), orderRow[tx.o] # Missing,
           NEW n \in 0..MaxShipments, InARow(shipment, n),
           NEW m \in 1..MaxOrderRows, InARow(orderRow, m), Creates(tx, n, m)
    PROVE  /\ \A s \in ShipmentRows : shipment[s] # Missing => shipment'[s] = shipment[s]
           /\ \A o \in OrderRows : orderRow[o] # Missing =>
                 orderRow'[o] # Missing /\ orderRow'[o].items = orderRow[o].items
           /\ shipment' \in [ShipmentRows -> {Missing} \cup ShipmentRecord]
           /\ orderRow' \in [OrderRows -> {Missing} \cup OrderRecord]
           /\ \A w \in Used(tx) : shipment[IdAfter(n, Used(tx), w)] = Missing
           /\ tx.kind = "split" =>
                 \A w \in Used(tx) : OrderOf(tx, m, w) \in Nat /\ OrderOf(tx, m, w) > m
<1> DEFINE used == Used(tx)
           id(w) == IdAfter(n, used, w)
           for(w) == OrderOf(tx, m, w)
<1>1. used \in SUBSET Nat /\ IsFiniteSet(used) /\ used \in SUBSET Warehouses
  BY UsedIsFinite DEF Used
<1>2. n \in Nat /\ m \in Nat
  BY ShipmentsAssumption
<1>3. \A w \in used : id(w) \in Nat /\ id(w) > n /\ IdAfter(m, used, w) \in Nat /\ IdAfter(m, used, w) > m
  BY <1>1, <1>2, NewIds
<1>4. tx.o \in OrderRows /\ tx.plan \in [Warehouses -> Units] /\ (tx.kind = "ship" \/ tx.kind = "split")
  BY TransactionTyped DEF Ships
<1>5. \A w \in used : /\ id(w) \in ShipmentRows /\ for(w) \in OrderRows
                      /\ shipment'[id(w)] = NewShipment(tx, for(w), w)
                      /\ tx.kind = "split" => orderRow'[for(w)] = NewOrder(tx, w)
  BY DEF Creates
<1>6. \A s \in ShipmentRows : (\A w \in used : id(w) # s) => shipment'[s] = shipment[s]
  BY DEF Creates
<1>7. tx.kind = "split" => \A w \in used : for(w) = IdAfter(m, used, w)
  BY DEF OrderOf
<1> HIDE DEF used, id, for
<1>8. \A s \in ShipmentRows : s <= n <=> shipment[s] # Missing
  BY DEF InARow, RowsTyped
<1>9. \A o \in OrderRows : o <= m <=> orderRow[o] # Missing
  BY DEF InARow, RowsTyped
<1>10. ASSUME NEW s \in ShipmentRows, shipment[s] # Missing PROVE shipment'[s] = shipment[s]
  <2>1. s <= n /\ s \in Nat
    BY <1>8, <1>10 DEF ShipmentRows
  <2>2. \A w \in used : id(w) # s
    BY <1>2, <1>3, <2>1
  <2> QED
    BY <1>6, <2>2
<1>11. \A w \in used : shipment[id(w)] = Missing
  BY <1>2, <1>3, <1>5, <1>8
<1>12. \A w \in used : NewShipment(tx, for(w), w) \in ShipmentRecord /\ NewOrder(tx, w) \in OrderRecord
  BY <1>1, <1>4, <1>5 DEF NewShipment, NewOrder, ShipmentRecord, OrderRecord, ShipmentStatus
<1>13. shipment' \in [ShipmentRows -> {Missing} \cup ShipmentRecord]
  <2>1. \A s \in ShipmentRows : shipment'[s] \in {Missing} \cup ShipmentRecord
    <3> SUFFICES ASSUME NEW s \in ShipmentRows PROVE shipment'[s] \in {Missing} \cup ShipmentRecord
      OBVIOUS
    <3>1. shipment[s] \in {Missing} \cup ShipmentRecord
      BY DEF RowsTyped
    <3>2. CASE \A w \in used : id(w) # s
      BY <1>6, <3>1, <3>2
    <3>3. CASE \E w \in used : id(w) = s
      BY <1>5, <1>12, <3>3
    <3> QED
      BY <3>2, <3>3
  <2>2. shipment' = [s \in ShipmentRows |-> shipment'[s]]
    BY DEF Creates
  <2> QED
    BY <2>1, <2>2
<1>14. CASE tx.kind = "ship"
  <2>1. orderRow' = orderRow
    BY <1>14 DEF Creates
  <2>2. orderRow' \in [OrderRows -> {Missing} \cup OrderRecord]
    BY <2>1 DEF RowsTyped
  <2> QED
    BY <1>10, <1>11, <1>13, <1>14, <2>1, <2>2 DEF id, used
<1>15. CASE tx.kind = "split"
  <2> DEFINE new == [orderRow[tx.o] EXCEPT !.status = "PROCESSING"]
  <2>1. /\ orderRow' = [o \in OrderRows |-> orderRow'[o]]
        /\ orderRow'[tx.o] = new
        /\ \A o \in OrderRows : o # tx.o /\ (\A w \in used : for(w) # o) => orderRow'[o] = orderRow[o]
    BY <1>15 DEF Creates, used, for
  <2>2. orderRow[tx.o] \in OrderRecord
    BY <1>4 DEF RowsTyped
  <2>3. new \in OrderRecord /\ new.status = "PROCESSING" /\ new.items = orderRow[tx.o].items
    BY <2>2 DEF OrderRecord
  <2> HIDE DEF new
  <2>4. new # Missing
    BY <2>3 DEF Missing
  <2>5. \A o \in OrderRows : orderRow'[o] \in {Missing} \cup OrderRecord
    <3> SUFFICES ASSUME NEW o \in OrderRows PROVE orderRow'[o] \in {Missing} \cup OrderRecord
      OBVIOUS
    <3>1. orderRow[o] \in {Missing} \cup OrderRecord
      BY DEF RowsTyped
    <3>2. CASE o = tx.o
      BY <2>1, <2>3, <3>2
    <3>3. CASE o # tx.o /\ \A w \in used : for(w) # o
      BY <2>1, <3>1, <3>3
    <3>4. CASE \E w \in used : for(w) = o
      BY <1>5, <1>12, <1>15, <3>4
    <3> QED
      BY <3>2, <3>3, <3>4
  <2>6. \A o \in OrderRows : orderRow[o] # Missing =>
            orderRow'[o] # Missing /\ orderRow'[o].items = orderRow[o].items
    <3> SUFFICES ASSUME NEW o \in OrderRows, orderRow[o] # Missing
                 PROVE  orderRow'[o] # Missing /\ orderRow'[o].items = orderRow[o].items
      OBVIOUS
    <3>1. o <= m /\ o \in Nat
      BY <1>9 DEF OrderRows
    <3>2. \A w \in used : for(w) # o
      BY <1>2, <1>3, <1>7, <1>15, <3>1
    <3>3. CASE o = tx.o
      BY <2>1, <2>3, <2>4, <3>3
    <3>4. CASE o # tx.o
      BY <2>1, <3>2, <3>4
    <3> QED
      BY <3>3, <3>4
  <2>7. orderRow' \in [OrderRows -> {Missing} \cup OrderRecord]
    BY <2>1, <2>5
  <2>8. \A w \in used : for(w) \in Nat /\ for(w) > m
    BY <1>3, <1>7, <1>15
  <2> QED
    BY <1>10, <1>11, <1>13, <2>6, <2>7, <2>8 DEF id, used, for
<1> QED
  BY <1>4, <1>14, <1>15

LEMMA RowsStayInARow ==
    ASSUME RowsTyped, NEW tx \in Transaction, Ships(tx), orderRow[tx.o] # Missing,
           NEW n \in 0..MaxShipments, InARow(shipment, n),
           NEW m \in 1..MaxOrderRows, InARow(orderRow, m), Creates(tx, n, m)
    PROVE  RowsInARow'
<1> DEFINE used == Used(tx)
           id(w) == IdAfter(n, used, w)
           for(w) == OrderOf(tx, m, w)
<1>1. used \in SUBSET Nat /\ IsFiniteSet(used)
  BY UsedIsFinite
<1>2. PICK c \in Nat : c = Cardinality(used)
  BY UsedIsFinite
<1>3. n \in Nat /\ m \in Nat /\ MaxShipments \in Nat /\ MaxOrderRows \in Nat
  BY ShipmentsAssumption
<1>4. \A s \in ShipmentRows : s <= n <=> shipment[s] # Missing
  BY DEF InARow, RowsTyped
<1>5. \A o \in OrderRows : o <= m <=> orderRow[o] # Missing
  BY DEF InARow, RowsTyped
<1>6. /\ \A s \in ShipmentRows : shipment[s] # Missing => shipment'[s] = shipment[s]
      /\ \A o \in OrderRows : orderRow[o] # Missing => orderRow'[o] # Missing
      /\ DOMAIN shipment' = ShipmentRows /\ DOMAIN orderRow' = OrderRows
  BY RowsStay
<1>7. \E q \in 0..MaxShipments : InARow(shipment, q)'
  <2>1. \A w \in used : id(w) <= MaxShipments
    BY DEF Creates, ShipmentRows
  <2>2. n + c <= MaxShipments
    BY <1>1, <1>2, <1>3, <2>1, LastId
  <2>3. \A i \in Nat : i > n /\ i <= n + c <=> \E w \in used : id(w) = i
    <3> HIDE DEF used
    <3>1. \A i \in Nat : i > n /\ i <= n + Cardinality(used)
                <=> \E w \in used : IdAfter(n, used, w) = i
      BY <1>1, <1>3, NewIds
    <3> QED
      BY <1>2, <3>1, Zenon
  <2>4. ASSUME NEW s \in ShipmentRows PROVE s <= n + c <=> shipment'[s] # Missing
    <3>1. s \in Nat
      BY DEF ShipmentRows
    <3>2. CASE s <= n
      BY <1>3, <1>4, <1>6, <3>1, <3>2
    <3>3. CASE s > n /\ s <= n + c
      <4>1. PICK w \in used : id(w) = s
        BY <2>3, <3>1, <3>3
      <4>2. shipment'[s] = NewShipment(tx, for(w), w)
        BY <4>1 DEF Creates
      <4> QED
        BY <3>3, <4>2 DEF NewShipment, Missing
    <3>4. CASE s > n + c
      <4>1. \A w \in used : id(w) # s
        BY <1>3, <2>3, <3>1, <3>4
      <4>2. shipment'[s] = shipment[s]
        BY <4>1 DEF Creates
      <4>3. ~(s <= n) /\ ~(s <= n + c)
        BY <1>3, <3>1, <3>4
      <4> QED
        BY <1>4, <4>2, <4>3
    <3> QED
      BY <1>3, <3>1, <3>2, <3>3, <3>4
  <2>5. n + c \in 0..MaxShipments
    BY <1>3, <2>2
  <2> QED
    BY <1>6, <2>4, <2>5 DEF InARow
<1>8. \E q \in 1..MaxOrderRows : InARow(orderRow, q)'
  <2>1. CASE tx.kind = "ship"
    <3>1. orderRow' = orderRow
      BY <2>1 DEF Creates
    <3> QED
      BY <3>1 DEF InARow
  <2>2. CASE tx.kind = "split"
    <3>1. \A w \in used : for(w) = IdAfter(m, used, w)
      BY <2>2 DEF OrderOf
    <3>2. \A w \in used : IdAfter(m, used, w) <= MaxOrderRows
      BY <3>1 DEF Creates, OrderRows
    <3>3. m + c <= MaxOrderRows
      BY <1>1, <1>2, <1>3, <3>2, LastId
    <3>4. \A i \in Nat : i > m /\ i <= m + c <=> \E w \in used : IdAfter(m, used, w) = i
      <4> HIDE DEF used
      <4>1. \A i \in Nat : i > m /\ i <= m + Cardinality(used) <=> \E w \in used : IdAfter(m, used, w) = i
        BY <1>1, <1>3, NewIds
      <4> QED
        BY <1>2, <4>1
    <3>5. ASSUME NEW o \in OrderRows PROVE o <= m + c <=> orderRow'[o] # Missing
      <4>1. o \in Nat
        BY DEF OrderRows
      <4>2. CASE o <= m
        BY <1>3, <1>5, <1>6, <4>1, <4>2
      <4>3. CASE o > m /\ o <= m + c
        <5>1. PICK w \in used : for(w) = o
          BY <3>1, <3>4, <4>1, <4>3
        <5>2. orderRow'[o] = NewOrder(tx, w)
          BY <2>2, <5>1 DEF Creates
        <5> QED
          BY <4>3, <5>2 DEF NewOrder, Missing
      <4>4. CASE o > m + c
        <5>1. \A w \in used : for(w) # o
          BY <1>3, <3>1, <3>4, <4>1, <4>4
        <5>2. ~(o <= m) /\ ~(o <= m + c)
          BY <1>3, <4>1, <4>4
        <5>3. orderRow[o] = Missing /\ o # tx.o
          BY <1>5, <5>2
        <5>4. orderRow'[o] = orderRow[o]
          BY <2>2, <5>1, <5>3 DEF Creates
        <5> QED
          BY <5>2, <5>3, <5>4
      <4> QED
        BY <1>3, <4>1, <4>2, <4>3, <4>4
    <3>6. m + c \in 1..MaxOrderRows
      BY <1>3, <3>3
    <3> QED
      BY <1>6, <3>5, <3>6 DEF InARow
  <2> QED
    BY <2>1, <2>2 DEF Ships
<1> QED
  BY <1>7, <1>8 DEF RowsInARow

\* What a new shipment takes is reserved with it.
LEMMA NewShipmentsReserved ==
    ASSUME ShipmentsInv, NEW k \in Clerks, NEW tx, NEW c, Commits(k, tx, c), Ships(tx),
           NEW n \in 0..MaxShipments, InARow(shipment, n), settled' = settled,
           NEW m \in 1..MaxOrderRows, InARow(orderRow, m), orderRow[tx.o] # Missing, Creates(tx, n, m)
    PROVE  ShelvesBalanced' /\ SettledExist'
<1>1. RowsTyped /\ ShelvesBalanced /\ SettledExist /\ tx \in Transaction
  BY DEF ShipmentsInv, Commits
<1>2. tx.plan \in [Warehouses -> Units]
  BY <1>1, TransactionTyped
<1>3. /\ \A s \in ShipmentRows : shipment[s] # Missing => shipment'[s] = shipment[s]
      /\ shipment' \in [ShipmentRows -> {Missing} \cup ShipmentRecord]
      /\ \A w \in Used(tx) : shipment[IdAfter(n, Used(tx), w)] = Missing
  BY <1>1, RowsStay
<1> DEFINE id(x) == IdAfter(n, Used(tx), x)
<1>4. \A s \in ShipmentRows : \/ shipment'[s] = shipment[s]
                              \/ \E x \in Used(tx) : id(x) = s /\ shipment[s] = Missing
                                    /\ shipment'[s] = NewShipment(tx, OrderOf(tx, m, x), x)
  BY <1>3 DEF Creates
<1>5. SettledExist'
  BY <1>1, <1>3 DEF SettledExist
<1>6. ASSUME NEW w \in Warehouses, NEW v \in Variants
      PROVE  shelf'[w][v].reserved + SumOver(SettledAt(w, v)', ShipmentRows)
                 = SumOver(UnitsAt(w, v)', ShipmentRows)
  <2>1. shelf'[w][v].reserved = shelf[w][v].reserved + tx.plan[w][v]
    BY CommitShelf
  <2>2. tx.plan[w][v] \in Nat /\ shelf[w][v].reserved \in Nat
    BY <1>1, <1>2, ShipmentsAssumption DEF RowsTyped, Level, Units
  <2> DEFINE f == UnitsAt(w, v)
             h == UnitsAt(w, v)'
             e == SettledAt(w, v)
  <2>3. /\ f = [s \in ShipmentRows |->
                  IF shipment[s] # Missing /\ shipment[s].w = w THEN shipment[s].items[v] ELSE 0]
        /\ h = [s \in ShipmentRows |->
                  IF shipment'[s] # Missing /\ shipment'[s].w = w THEN shipment'[s].items[v] ELSE 0]
    BY DEF UnitsAt, StoredAt
  \* What is new was never concluded.
  <2>4. SettledAt(w, v)' = e
    <3>1. \A s \in ShipmentRows : shipment'[s] # shipment[s] =>
              shipment[s] = Missing /\ settled[s] = 0 /\ shipment'[s].items[v] \in Nat
      <4> SUFFICES ASSUME NEW s \in ShipmentRows, shipment'[s] # shipment[s]
                   PROVE  shipment[s] = Missing /\ settled[s] = 0 /\ shipment'[s].items[v] \in Nat
        OBVIOUS
      <4>1. shipment[s] = Missing /\ settled[s] = 0
        BY <1>1, <1>3 DEF SettledExist
      <4>2. shipment'[s] \in ShipmentRecord
        BY <1>3, <4>1
      <4> QED
        BY <4>1, <4>2, ShipmentsAssumption DEF ShipmentRecord, Units
    <3>2. \A s \in ShipmentRows :
              (IF shipment'[s] # Missing /\ shipment'[s].w = w
               THEN settled[s] * shipment'[s].items[v] ELSE 0)
              = (IF shipment[s] # Missing /\ shipment[s].w = w
                 THEN settled[s] * shipment[s].items[v] ELSE 0)
      BY <3>1
    <3> QED
      BY <3>2 DEF SettledAt, StoredAt
  <2>5. shelf[w][v].reserved + SumOver(e, ShipmentRows) = SumOver(f, ShipmentRows)
    BY <1>1 DEF ShelvesBalanced
  <2>6. \A s \in ShipmentRows : f[s] \in Nat /\ e[s] \in Nat
    BY <1>1, UnitsTyped DEF RowsTyped
  <2>7. \A s \in ShipmentRows : h[s] \in Nat
    BY <1>3, <2>3, ShipmentsAssumption DEF ShipmentRecord, Units
  <2>8. \A s \in ShipmentRows : f[s] = h[s] \/ (w \in Used(tx) /\ s = id(w))
    <3> SUFFICES ASSUME NEW s \in ShipmentRows, ~(w \in Used(tx) /\ s = id(w))
                 PROVE  f[s] = h[s]
      OBVIOUS
    <3>1. CASE shipment'[s] = shipment[s]
      BY <2>3, <3>1
    <3>2. CASE shipment'[s] # shipment[s]
      <4>1. PICK x \in Used(tx) : /\ id(x) = s /\ shipment[s] = Missing
                                  /\ shipment'[s] = NewShipment(tx, OrderOf(tx, m, x), x)
        BY <1>4, <3>2
      <4>2. shipment'[s].w = x /\ x # w
        BY <4>1 DEF NewShipment
      <4> HIDE DEF f, h
      <4> QED
        BY <2>3, <4>1, <4>2
    <3> QED
      BY <3>1, <3>2
  <2>9. SumOver(e, ShipmentRows) \in Nat /\ SumOver(f, ShipmentRows) \in Nat
    <3> HIDE DEF e, f
    <3> QED
      BY <2>6, RowsAreFinite, SumType
  <2>10. SumOver(h, ShipmentRows) = SumOver(f, ShipmentRows) + tx.plan[w][v]
    <3>1. CASE w \notin Used(tx)
      <4>1. tx.plan[w][v] = 0
        BY <3>1, NothingTyped DEF Used
      <4> HIDE DEF f, h
      <4>2. SumOver(h, ShipmentRows) = SumOver(f, ShipmentRows)
        BY <2>8, <3>1, RowsAreFinite, SumSame
      <4> QED
        BY <2>9, <4>1, <4>2
    <3>2. CASE w \in Used(tx)
      <4>1. /\ id(w) \in ShipmentRows /\ shipment[id(w)] = Missing
            /\ shipment'[id(w)] = NewShipment(tx, OrderOf(tx, m, w), w)
        BY <1>3, <3>2 DEF Creates
      <4>2. /\ shipment'[id(w)].w = w /\ shipment'[id(w)].items = tx.plan[w]
            /\ shipment'[id(w)] # Missing
        BY <4>1 DEF NewShipment, Missing
      <4>3. PICK i \in ShipmentRows : i = id(w)
        BY <4>1
      <4> HIDE DEF f, h, id
      <4>4. f[i] = 0 /\ h[i] = tx.plan[w][v]
        BY <2>3, <4>1, <4>2, <4>3
      <4>5. \A s \in ShipmentRows \ {i} : f[s] = h[s]
        BY <2>8, <4>3
      <4>6. SumOver(h, ShipmentRows) + f[i] = SumOver(f, ShipmentRows) + h[i]
        BY <2>6, <2>7, <4>5, RowsAreFinite, SumChanged
      <4>7. SumOver(h, ShipmentRows) \in Nat
        BY <2>7, RowsAreFinite, SumType
      <4> QED
        BY <2>2, <2>9, <4>4, <4>6, <4>7
    <3> QED
      BY <3>1, <3>2
  <2>11. shelf'[w][v].reserved + SumOver(e, ShipmentRows) = SumOver(h, ShipmentRows)
    <3> HIDE DEF e, f, h
    <3> QED
      BY <2>1, <2>2, <2>5, <2>9, <2>10
  <2> QED
    BY <2>4, <2>11
<1> QED
  BY <1>5, <1>6 DEF ShelvesBalanced

\* A new shipment of the first order is the one that was planned for its warehouse.
LEMMA ShippedFollowsPlan ==
    ASSUME ShipmentsInv, NEW k \in Clerks, NEW tx, NEW c, Commits(k, tx, c), tx.kind = "ship",
           NEW n \in 0..MaxShipments, InARow(shipment, n), NEW m, Creates(tx, n, m),
           \A s \in ShipmentRows : shipment[s] # Missing => shipment'[s] = shipment[s],
           \A w \in Used(tx) : shipment[IdAfter(n, Used(tx), w)] = Missing,
           NEW P \in [Warehouses -> Units], FollowsPlan(P)
    PROVE  FollowsPlan(P)'
<1>1. tx \in clerk[k].todo
  BY DEF Commits
<1>2. PICK w \in Warehouses : tx = OneShip(P, w) /\ P[w] # Nothing /\ \A s \in Shipped(1) : shipment[s].w # w
  BY <1>1 DEF FollowsPlan
<1>3. /\ \A v \in Variants : Planned(P, v) <= Bought[v]
      /\ \A s \in Shipped(1) : shipment[s].items = P[shipment[s].w]
      /\ \A s, t \in Shipped(1) : shipment[s].w = shipment[t].w => s = t
      /\ \A l \in Clerks : \A ux \in clerk[l].todo : ux.kind = "ship" =>
            /\ \E x \in Warehouses :
                  /\ ux = OneShip(P, x) /\ P[x] # Nothing
                  /\ \A s \in Shipped(1) : shipment[s].w # x
            /\ \A h \in Clerks : \A yx \in clerk[h].todo : yx.kind = "ship" => h = l
  BY DEF FollowsPlan
<1>4. Used(tx) = {w} /\ tx.o = 1 /\ tx.plan[w] = P[w]
  BY <1>2 DEF Used, OneShip
<1>5. PICK new : new = IdAfter(n, Used(tx), w)
  OBVIOUS
<1>6. /\ new \in ShipmentRows /\ shipment'[new] = NewShipment(tx, OrderOf(tx, m, w), w)
      /\ \A s \in ShipmentRows : s # new => shipment'[s] = shipment[s]
  BY <1>4, <1>5 DEF Creates
<1>7. shipment[new] = Missing
  BY <1>4, <1>5
<1>8. /\ shipment'[new].o = 1 /\ shipment'[new].w = w /\ shipment'[new].items = P[w]
      /\ shipment'[new] # Missing
  <2>1. OrderOf(tx, m, w) = 1
    BY <1>4 DEF OrderOf
  <2>2. shipment'[new].status = "UNDER_WAY"
    BY <1>6 DEF NewShipment
  <2> QED
    BY <1>4, <1>6, <2>1, <2>2 DEF NewShipment, Missing
<1>9. Shipped(1)' = Shipped(1) \cup {new} /\ \A s \in Shipped(1) : shipment'[s] = shipment[s] /\ s # new
  BY <1>6, <1>7, <1>8 DEF Shipped
<1>10. \A s \in Shipped(1)' : shipment'[s].items = P[shipment'[s].w]
  BY <1>3, <1>8, <1>9
<1>11. \A s, t \in Shipped(1)' : shipment'[s].w = shipment'[t].w => s = t
  BY <1>2, <1>3, <1>8, <1>9
<1>12. \A l \in Clerks : \A ux \in clerk'[l].todo : ux \in clerk[l].todo /\ (ux # tx \/ l # k)
  BY DEF Commits
<1>13. ASSUME NEW l \in Clerks, NEW ux \in clerk'[l].todo, ux.kind = "ship"
       PROVE  /\ \E x \in Warehouses :
                  /\ ux = OneShip(P, x) /\ P[x] # Nothing
                  /\ \A s \in Shipped(1)' : shipment'[s].w # x
              /\ \A h \in Clerks : \A yx \in clerk'[h].todo : yx.kind = "ship" => h = l
  <2>1. ux \in clerk[l].todo
    BY <1>12
  <2>2. l = k /\ ux # tx
    BY <1>1, <1>3, <1>12, <1>13, <2>1
  <2>3. PICK x \in Warehouses : ux = OneShip(P, x) /\ P[x] # Nothing /\ \A s \in Shipped(1) : shipment[s].w # x
    BY <1>3, <1>13, <2>1
  <2>4. x # w
    BY <1>2, <2>2, <2>3
  <2>5. \A s \in Shipped(1)' : shipment'[s].w # x
    BY <1>8, <1>9, <2>3, <2>4
  <2>6. \A h \in Clerks : \A yx \in clerk'[h].todo : yx.kind = "ship" => h = l
    BY <1>3, <1>12, <1>13, <2>1
  <2> QED
    BY <2>3, <2>5, <2>6
<1>14. \A v \in Variants : Planned(P, v)' = Planned(P, v)
  BY DEF Planned
<1> QED
  BY <1>3, <1>10, <1>11, <1>13, <1>14 DEF FollowsPlan, OneShip, Nothing

LEMMA CommitShipsKeeps ==
    ASSUME ShipmentsInv, NEW k \in Clerks, Commit(k), NEW tx, NEW c, Commits(k, tx, c),
           Ships(tx), Create(tx), settled' = settled
    PROVE  ShipmentsInv'
<1>1. /\ RowsTyped /\ RowsInARow /\ ShipmentsHaveOrders /\ RoutedOnce /\ WorkIsDue
  BY DEF ShipmentsInv
<1>2. tx \in Transaction /\ tx \in clerk[k].todo /\ routings' = routings
  BY DEF Commits
<1>3. orderRow[tx.o] # Missing /\ tx.o \in OrderRows
  BY <1>1, <1>2, TransactionTyped DEF WorkIsDue
<1>4. PICK n \in 0..MaxShipments : InARow(shipment, n)
  BY <1>1 DEF RowsInARow
<1>5. PICK m \in 1..MaxOrderRows : InARow(orderRow, m)
  BY <1>1 DEF RowsInARow
<1>6. Creates(tx, n, m)
  BY <1>1, <1>2, <1>3, <1>4, <1>5, CreateIs DEF Creates
<1>7. /\ \A s \in ShipmentRows : shipment[s] # Missing => shipment'[s] = shipment[s]
      /\ \A o \in OrderRows : orderRow[o] # Missing =>
            orderRow'[o] # Missing /\ orderRow'[o].items = orderRow[o].items
      /\ shipment' \in [ShipmentRows -> {Missing} \cup ShipmentRecord]
      /\ orderRow' \in [OrderRows -> {Missing} \cup OrderRecord]
      /\ \A w \in Used(tx) : shipment[IdAfter(n, Used(tx), w)] = Missing
      /\ tx.kind = "split" =>
            \A w \in Used(tx) : OrderOf(tx, m, w) \in Nat /\ OrderOf(tx, m, w) > m
  BY <1>1, <1>2, <1>3, <1>4, <1>5, <1>6, RowsStay
<1>8. \A l \in Clerks : clerk'[l].todo \subseteq clerk[l].todo
  BY CommitTypes
<1>9. RowsTyped'
  <2>1. /\ shelf' \in [Warehouses -> [Variants -> Level]]
        /\ cached' \in [Variants -> [stock : Nat, reserved : Nat]]
        /\ \A l \in Clerks : WorkTyped(clerk'[l])
    BY CommitTypes, CommitShelf
  <2>2. clerk' = [l \in Clerks |-> clerk'[l]]
    BY DEF Commits
  <2> QED
    BY <1>1, <1>7, <2>1, <2>2 DEF RowsTyped, WorkTyped
<1>10. LocksHold'
  BY CommitTypes
<1>11. RowsInARow'
  BY <1>1, <1>2, <1>3, <1>4, <1>5, <1>6, RowsStayInARow
<1>12. ShipmentsHaveOrders'
  <2> SUFFICES ASSUME NEW s \in ShipmentRows, shipment'[s] # Missing
               PROVE  orderRow'[shipment'[s].o] # Missing
    BY DEF ShipmentsHaveOrders
  <2>1. CASE \A w \in Used(tx) : IdAfter(n, Used(tx), w) # s
    <3>1. shipment'[s] = shipment[s]
      BY <1>6, <2>1 DEF Creates
    <3>2. shipment[s] # Missing /\ shipment[s].o \in OrderRows /\ orderRow[shipment[s].o] # Missing
      BY <1>1, <3>1 DEF ShipmentsHaveOrders, RowsTyped, ShipmentRecord
    <3> QED
      BY <1>7, <3>1, <3>2
  <2>2. CASE \E w \in Used(tx) : IdAfter(n, Used(tx), w) = s
    <3>1. PICK w \in Used(tx) : IdAfter(n, Used(tx), w) = s
      BY <2>2
    <3>2. /\ shipment'[s] = NewShipment(tx, OrderOf(tx, m, w), w)
          /\ tx.kind = "split" => orderRow'[OrderOf(tx, m, w)] = NewOrder(tx, w)
      BY <1>6, <3>1 DEF Creates
    <3>3. shipment'[s].o = OrderOf(tx, m, w)
      BY <3>2 DEF NewShipment
    <3>4. CASE tx.kind = "split"
      <4>1. NewOrder(tx, w).status = "CONFIRMED" /\ Missing.status = "NONE"
        BY DEF NewOrder, Missing
      <4> QED
        BY <3>2, <3>3, <3>4, <4>1
    <3>5. CASE tx.kind = "ship"
      <4>1. OrderOf(tx, m, w) = tx.o
        BY <3>5 DEF OrderOf
      <4> QED
        BY <1>3, <1>7, <3>3, <4>1
    <3> QED
      BY <3>4, <3>5 DEF Ships
  <2> QED
    BY <2>1, <2>2
<1>13. WorkIsDue'
  BY <1>7, <1>8, DueStays
<1>14. ShelvesBalanced' /\ SettledExist'
  BY <1>3, <1>4, <1>5, <1>6, NewShipmentsReserved
<1>15. RoutedOnce'
  <2>1. 1 \in OrderRows /\ orderRow[1] # Missing /\ routings # 0
    BY <1>1, <1>2, ShipmentsAssumption DEF RoutedOnce, OrderRows
  <2>2. orderRow'[1] # Missing /\ orderRow'[1].items = orderRow[1].items
    BY <1>7, <2>1
  <2>3. CASE tx.kind = "split"
    <3>1. ASSUME NEW s \in ShipmentRows, shipment[s] = Missing, shipment'[s] # Missing, shipment'[s].o = 1
          PROVE  FALSE
      <4>1. PICK w \in Used(tx) : IdAfter(n, Used(tx), w) = s
        BY <1>6, <3>1 DEF Creates
      <4>2. shipment'[s].o = OrderOf(tx, m, w)
        <5>1. shipment'[s] = NewShipment(tx, OrderOf(tx, m, w), w)
          BY <1>6, <4>1 DEF Creates
        <5> QED
          BY <5>1 DEF NewShipment
      <4>3. OrderOf(tx, m, w) > m /\ m >= 1 /\ m \in Nat /\ OrderOf(tx, m, w) \in Nat
        BY <1>7, <2>3, ShipmentsAssumption
      <4> QED
        BY <3>1, <4>2, <4>3
    <3>2. \A s \in ShipmentRows :
              shipment[s] # Missing \/ (shipment'[s] # Missing /\ shipment'[s].o = 1)
                  => shipment'[s] = shipment[s]
      BY <1>7, <3>1
    <3> QED
      BY <1>2, <1>8, <2>1, <2>2, <3>2, RoutingKept
  <2>4. CASE tx.kind = "ship"
    <3>1. ASSUME NEW P \in [Warehouses -> Units], FollowsPlan(P) PROVE FollowsPlan(P)'
      BY <1>4, <1>6, <1>7, <2>4, <3>1, ShippedFollowsPlan
    <3>2. routings \in 0..MaxRoutings /\ orderRow[1].items = Bought
          /\ (routings = 1 => \E P \in [Warehouses -> Units] : FollowsPlan(P))
      BY <1>1 DEF RoutedOnce
    <3>3. routings' = 1 => \E P \in [Warehouses -> Units] : FollowsPlan(P)'
      BY <1>2, <3>1, <3>2
    <3> QED
      BY <1>2, <2>1, <2>2, <3>2, <3>3 DEF RoutedOnce, Units
  <2> QED
    BY <2>3, <2>4 DEF Ships
<1> QED
  BY <1>9, <1>10, <1>11, <1>12, <1>13, <1>14, <1>15 DEF ShipmentsInv

LEMMA CommitKeepsInv ==
    ASSUME ShipmentsInv, NEW k \in Clerks, Commit(k)
    PROVE  ShipmentsInv'
<1>1. PICK tx, c : /\ Commits(k, tx, c)
                   /\ settled' = IF Final(tx) THEN [settled EXCEPT ![tx.s] = @ + 1] ELSE settled
                   /\ Ships(tx) => Create(tx)
                   /\ tx.kind = "RTO" =>
                         /\ orderRow' = [orderRow EXCEPT ![shipment[tx.s].o].status = "RETURN_REQUESTED"]
                         /\ UNCHANGED shipment
                   /\ tx.kind \in {"count", "DELIVERED"} => UNCHANGED <<orderRow, shipment>>
  BY CommitIs
<1>2. CASE Ships(tx)
  <2>1. settled' = settled
    BY <1>1, <1>2 DEF Ships, Final
  <2> QED
    BY <1>1, <1>2, <2>1, CommitShipsKeeps
<1>3. CASE tx.kind = "count"
  <2>1. settled' = settled
    BY <1>1, <1>3 DEF Final
  <2> QED
    BY <1>1, <1>3, <2>1, CommitCountKeeps
<1>4. CASE Final(tx)
  <2>1. /\ tx.kind = "RTO" =>
              orderRow' = [orderRow EXCEPT ![shipment[tx.s].o].status = "RETURN_REQUESTED"]
        /\ tx.kind = "DELIVERED" => UNCHANGED orderRow
        /\ UNCHANGED shipment
        /\ settled' = [settled EXCEPT ![tx.s] = @ + 1]
    BY <1>1, <1>4 DEF Final
  <2> QED
    BY <1>1, <1>4, <2>1, CommitFinalKeeps
<1>5. tx \in Transaction
  BY <1>1 DEF Commits
<1> QED
  BY <1>2, <1>3, <1>4, <1>5, TransactionTyped

LEMMA ShipmentsInvKept == ShipmentsInv /\ [ShipmentsNext]_shipmentVars => ShipmentsInv'
<1> SUFFICES ASSUME ShipmentsInv, [ShipmentsNext]_shipmentVars PROVE ShipmentsInv'
  OBVIOUS
<1>1. ASSUME NEW k \in Clerks, NEW w \in Warehouses, NEW v \in Variants, NEW n \in Counts,
             UpdateInventory(k, w, v, n)
      PROVE  ShipmentsInv'
  BY <1>1, CountKeeps
<1>2. ASSUME NEW k \in Clerks, NEW o \in OrderRows, RouteOrder(k, o)
      PROVE  ShipmentsInv'
  BY <1>2, RouteKeeps
<1>3. ASSUME NEW k \in Clerks, NEW o \in OrderRows, SplitOrderByWarehouse(k, o)
      PROVE  ShipmentsInv'
  BY <1>3, SplitKeeps
<1>4. ASSUME NEW k \in Clerks, NEW s \in ShipmentRows, NEW status \in ShipmentStatus,
             UpdateShipmentStatus(k, s, status)
      PROVE  ShipmentsInv'
  BY <1>4, StatusKeeps
<1>5. ASSUME NEW k \in Clerks, NEW tx \in clerk[k].todo, WriteRows(k, tx)
      PROVE  ShipmentsInv'
  BY <1>5, WriteKeeps
<1>6. ASSUME NEW k \in Clerks, SyncVariantCache(k) PROVE ShipmentsInv'
  BY <1>6, SyncKeepsInv
<1>7. ASSUME NEW k \in Clerks, Commit(k) PROVE ShipmentsInv'
  BY <1>7, CommitKeepsInv
<1>8. ASSUME NEW k \in Clerks, FailRequest(k) PROVE ShipmentsInv'
  BY <1>8, AnswerKeeps DEF FailRequest
<1>9. CASE UNCHANGED shipmentVars
  <2>1. UNCHANGED <<shelf, cached, orderRow, shipment, routings, settled, clerk>>
    BY <1>9 DEF shipmentVars
  <2>2. CASE Clerks = {}
    <3>1. RowsTyped' /\ RowsInARow' /\ LocksHold' /\ WorkIsDue' /\ ShipmentsHaveOrders'
      BY <2>1, <2>2 DEF ShipmentsInv, RowsTyped, RowsInARow, InARow, LocksHold, WorkIsDue,
                        ShipmentsHaveOrders
    <3>2. ShelvesBalanced' /\ SettledExist'
      BY <2>1 DEF ShipmentsInv, ShelvesBalanced, SettledExist, UnitsAt, SettledAt, StoredAt
    <3>3. ASSUME NEW P PROVE FollowsPlan(P)' = FollowsPlan(P)
      BY <2>1 DEF FollowsPlan, OneShip, Nothing, Planned, Shipped
    <3>4. RoutedOnce'
      BY <2>1, <3>3 DEF ShipmentsInv, RoutedOnce, Shipped, Ships, Units
    <3> QED
      BY <3>1, <3>2, <3>4 DEF ShipmentsInv
  <2>3. CASE Clerks # {}
    <3>1. PICK k \in Clerks : TRUE
      BY <2>3
    <3>2. PICK c : c = clerk[k]
      OBVIOUS
    <3>3. RowsTyped /\ LocksHold /\ WorkIsDue
      BY DEF ShipmentsInv
    <3>4. clerk' = [clerk EXCEPT ![k] = c]
      BY <2>1, <3>2, <3>3 DEF RowsTyped
    <3>5. MayTake(c, k)
      BY <3>2, <3>3 DEF MayTake, RowsTyped, WorkIsDue
    <3>6. MayHold(c, k)
      <4> SUFFICES ASSUME c.stage \in {"written", "summed"}
                   PROVE  /\ MayCommit(c.tx)
                          /\ \A l \in Clerks \ {k} : Locked(l) \cap Rows(c.tx) = {}
        BY DEF MayHold
      <4>1. c.tx \in clerk[k].todo
        BY <3>2, <3>3 DEF RowsTyped, WorkTyped, NoWork
      <4>2. HasWritten(k) /\ Locked(k) = Rows(c.tx)
        BY <3>2 DEF HasWritten, Locked
      <4> QED
        BY <3>2, <3>3, <4>1, <4>2 DEF LocksHold
    <3> QED
      BY <2>1, <3>2, <3>4, <3>5, <3>6, TurnKeeps
  <2> QED
    BY <2>2, <2>3
<1> QED
  BY <1>1, <1>2, <1>3, <1>4, <1>5, <1>6, <1>7, <1>8, <1>9 DEF ShipmentsNext

-----------------------------------------------------------------------------
\* A request has finitely many transactions to run, whatever the variants.

WorkIsFinite ==
    /\ clerk = [k \in Clerks |-> clerk[k]]
    /\ \A k \in Clerks : IsFiniteSet(clerk[k].todo)

LEMMA WorkStaysFinite ==
    ASSUME WorkIsFinite, NEW k \in Clerks, NEW c, IsFiniteSet(c.todo), clerk' = [clerk EXCEPT ![k] = c]
    PROVE  WorkIsFinite'
<1>1. \A l \in Clerks : clerk'[l] = IF l = k THEN c ELSE clerk[l]
  BY DEF WorkIsFinite
<1>2. clerk' = [l \in Clerks |-> clerk'[l]]
  BY DEF WorkIsFinite
<1> QED
  BY <1>1, <1>2 DEF WorkIsFinite

LEMMA AssignedIsFinite ==
    ASSUME WorkIsFinite, NEW k \in Clerks, NEW todo, IsFiniteSet(todo), Assign(k, todo)
    PROVE  WorkIsFinite'
<1> DEFINE c == [stage |-> "ready", todo |-> todo]
<1>1. c.todo = todo /\ clerk' = [clerk EXCEPT ![k] = c]
  BY DEF Assign
<1> HIDE DEF c
<1> QED
  BY <1>1, WorkStaysFinite

LEMMA AnsweredIsFinite ==
    ASSUME WorkIsFinite, NEW k \in Clerks, Answer(k)
    PROVE  WorkIsFinite'
<1>1. NoWork.todo = {} /\ IsFiniteSet({}) /\ clerk' = [clerk EXCEPT ![k] = NoWork]
  BY FS_EmptySet DEF Answer, NoWork
<1> QED
  BY <1>1, WorkStaysFinite

LEMMA WorkStarts == ShipmentsInit => WorkIsFinite
<1> SUFFICES ASSUME ShipmentsInit PROVE WorkIsFinite
  OBVIOUS
<1>1. clerk = [k \in Clerks |-> NoWork]
  BY DEF ShipmentsInit
<1>2. NoWork.todo = {} /\ IsFiniteSet({})
  BY FS_EmptySet DEF NoWork
<1> QED
  BY <1>1, <1>2 DEF WorkIsFinite

LEMMA WorkKept == WorkIsFinite /\ [ShipmentsNext]_shipmentVars => WorkIsFinite'
<1> SUFFICES ASSUME WorkIsFinite, [ShipmentsNext]_shipmentVars PROVE WorkIsFinite'
  OBVIOUS
<1>1. CASE UNCHANGED shipmentVars
  BY <1>1 DEF shipmentVars, WorkIsFinite
<1>2. ASSUME NEW k \in Clerks, NEW w \in Warehouses, NEW v \in Variants, NEW n \in Counts,
             UpdateInventory(k, w, v, n)
      PROVE  WorkIsFinite'
  <2>1. PICK x : Assign(k, {x})
    BY <1>2 DEF UpdateInventory
  <2> QED
    BY <2>1, FS_Singleton, AssignedIsFinite
<1>3. ASSUME NEW k \in Clerks, NEW o \in OrderRows, RouteOrder(k, o)
      PROVE  WorkIsFinite'
  <2>0. PICK items : items = orderRow[o].items
    OBVIOUS
  <2> DEFINE able == {w \in Warehouses : CanFulfill(w, items)}
             alone == [w \in Warehouses |-> IF w = Min(able) THEN items ELSE Nothing]
  <2>1. PICK plan : plan = IF able # {} THEN alone ELSE Greedy(items)
    OBVIOUS
  <2> DEFINE used == {x \in Warehouses : plan[x] # Nothing}
             one(w) == [kind |-> "ship", o |-> o,
                        plan |-> [x \in Warehouses |-> IF x = w THEN plan[w] ELSE Nothing]]
             T == {one(w) : w \in used}
             f == [w \in used |-> one(w)]
  <2>2. Assign(k, T)
    BY <1>3, <2>0, <2>1 DEF RouteOrder
  <2>3. IsFiniteSet(used)
    BY WarehousesFinite, FS_Subset
  <2>4. f \in Surjection(used, T)
    <3> HIDE DEF one
    <3> QED
      BY DEF Surjection
  <2> HIDE DEF used, T, f
  <2>5. IsFiniteSet(T)
    BY <2>3, <2>4, FS_Surjection
  <2> QED
    BY <2>2, <2>5, AssignedIsFinite
<1>4. ASSUME NEW k \in Clerks, NEW o \in OrderRows, SplitOrderByWarehouse(k, o)
      PROVE  WorkIsFinite'
  <2>1. PICK x : Assign(k, {x})
    BY <1>4 DEF SplitOrderByWarehouse
  <2> QED
    BY <2>1, FS_Singleton, AssignedIsFinite
<1>5. ASSUME NEW k \in Clerks, NEW s \in ShipmentRows, NEW status, UpdateShipmentStatus(k, s, status)
      PROVE  WorkIsFinite'
  <2>1. CASE UNCHANGED clerk
    BY <2>1 DEF WorkIsFinite
  <2>2. CASE \E x : Assign(k, {x})
    BY <2>2, FS_Singleton, AssignedIsFinite
  <2> QED
    BY <1>5, <2>1, <2>2 DEF UpdateShipmentStatus
<1>6. ASSUME NEW k \in Clerks, NEW tx, WriteRows(k, tx)
      PROVE  WorkIsFinite'
  <2> DEFINE c == [stage |-> "written", todo |-> clerk[k].todo, tx |-> tx]
  <2>1. IsFiniteSet(c.todo)
    BY DEF WorkIsFinite
  <2>2. clerk' = [clerk EXCEPT ![k] = c] \/ Answer(k)
    BY <1>6 DEF WriteRows
  <2> HIDE DEF c
  <2> QED
    BY <2>1, <2>2, WorkStaysFinite, AnsweredIsFinite
<1>7. ASSUME NEW k \in Clerks, SyncVariantCache(k)
      PROVE  WorkIsFinite'
  <2>1. PICK sums : clerk' = [clerk EXCEPT ![k] =
            [stage |-> "summed", todo |-> clerk[k].todo, tx |-> clerk[k].tx, sums |-> sums]]
    BY <1>7 DEF SyncVariantCache
  <2> DEFINE c == [stage |-> "summed", todo |-> clerk[k].todo, tx |-> clerk[k].tx, sums |-> sums]
  <2>2. IsFiniteSet(c.todo) /\ clerk' = [clerk EXCEPT ![k] = c]
    BY <2>1 DEF WorkIsFinite
  <2> HIDE DEF c
  <2> QED
    BY <2>2, WorkStaysFinite
<1>8. ASSUME NEW k \in Clerks, Commit(k)
      PROVE  WorkIsFinite'
  <2>1. Answer(k) \/ Assign(k, clerk[k].todo \ {clerk[k].tx})
    BY <1>8 DEF Commit
  <2>2. PICK left : left = clerk[k].todo \ {clerk[k].tx}
    OBVIOUS
  <2>3. IsFiniteSet(left)
    BY <2>2, FS_Subset DEF WorkIsFinite
  <2> QED
    BY <2>1, <2>2, <2>3, AnsweredIsFinite, AssignedIsFinite
<1>9. ASSUME NEW k \in Clerks, FailRequest(k)
      PROVE  WorkIsFinite'
  BY <1>9, AnsweredIsFinite DEF FailRequest
<1> QED
  BY <1>1, <1>2, <1>3, <1>4, <1>5, <1>6, <1>7, <1>8, <1>9 DEF ShipmentsNext

LEMMA ShipmentsInvHolds == ShipmentsSpec => [](ShipmentsInv /\ WorkIsFinite)
BY ShipmentsInvStarts, ShipmentsInvKept, WorkStarts, WorkKept, PTL DEF ShipmentsSpec

-----------------------------------------------------------------------------
\* What the invariant says of the shipments.

LEMMA InvTypes == ShipmentsInv => ShipmentsTypeOK
<1> SUFFICES ASSUME ShipmentsInv PROVE ShipmentsTypeOK
  OBVIOUS
<1>1. RowsTyped /\ routings \in 0..MaxRoutings
  BY DEF ShipmentsInv, RoutedOnce
<1>2. \A v \in Variants : cached[v].stock \in Nat /\ cached[v].reserved \in Nat
  BY <1>1 DEF RowsTyped
<1>3. \A o \in OrderRows : orderRow[o] = Missing \/ orderRow[o] \in OrderRecord
  BY <1>1 DEF RowsTyped
<1>4. \A s \in ShipmentRows : shipment[s] = Missing \/ shipment[s] \in ShipmentRecord
  BY <1>1 DEF RowsTyped
<1>5. \A k \in Clerks : clerk[k] = NoWork \/
          /\ clerk[k].stage \in {"ready", "written", "summed"}
          /\ clerk[k].todo \subseteq Transaction
  BY <1>1 DEF RowsTyped, WorkTyped
<1>6. shelf \in [Warehouses -> [Variants -> Level]]
  BY <1>1 DEF RowsTyped
<1>7. settled \in [ShipmentRows -> Nat]
  BY <1>1 DEF RowsTyped
<1> QED
  BY <1>1, <1>2, <1>3, <1>4, <1>5, <1>6, <1>7 DEF ShipmentsTypeOK, OrderRecord, ShipmentRecord

LEMMA InvReserves == ShipmentsInv => ReservedIsUnsettled
<1> SUFFICES ASSUME ShipmentsInv, NEW w \in Warehouses, NEW v \in Variants
             PROVE  shelf[w][v].reserved + SettledIn(ShelvedAt(w), v) = UnitsIn(ShelvedAt(w), v)
  BY DEF ReservedIsUnsettled
<1>1. RowsTyped /\ ShelvesBalanced
  BY DEF ShipmentsInv
<1>2. PICK S \in SUBSET ShipmentRows : S = ShelvedAt(w)
  BY DEF ShelvedAt
<1>3. \A s \in ShipmentRows : s \in S <=> StoredAt(s, w)
  BY <1>2 DEF ShelvedAt, StoredAt
<1> DEFINE f == UnitsAt(w, v)
           e == SettledAt(w, v)
           g == [s \in S |-> shipment[s].items[v]]
           h == [s \in S |-> settled[s] * shipment[s].items[v]]
<1>4. \A s \in S : g[s] = f[s] /\ h[s] = e[s]
  BY <1>3 DEF UnitsAt, SettledAt
<1>5. \A s \in ShipmentRows \ S : f[s] = 0 /\ e[s] = 0
  BY <1>3 DEF UnitsAt, SettledAt
<1>6. \A s \in ShipmentRows : f[s] \in Nat /\ e[s] \in Nat
  BY <1>1, UnitsTyped DEF RowsTyped
<1>7. IsFiniteSet(S) /\ IsFiniteSet(ShipmentRows)
  BY RowsAreFinite
<1>8. UnitsIn(S, v) = SumOver(g, S) /\ SettledIn(S, v) = SumOver(h, S)
  BY <1>7, UnitsAreSum, SettledAreSum
<1>9. shelf[w][v].reserved + SumOver(e, ShipmentRows) = SumOver(f, ShipmentRows)
  BY <1>1 DEF ShelvesBalanced
<1> HIDE DEF f, e, g, h
<1>10. SumOver(g, S) = SumOver(f, S) /\ SumOver(h, S) = SumOver(e, S)
  BY <1>4, <1>7, SumSame
<1>11. SumOver(f, ShipmentRows) = SumOver(f, S) /\ SumOver(e, ShipmentRows) = SumOver(e, S)
  BY <1>5, <1>6, <1>7, SumWithin
<1> QED
  BY <1>2, <1>8, <1>9, <1>10, <1>11

\* The units that are still to be shipped, as sums of functions.
PlannedBy(tx, v) == IF tx.kind = "ship" THEN WarehouseSum([w \in Warehouses |-> tx.plan[w][v]]) ELSE 0
ComingFrom(k, v) == MapThenSumSet(LAMBDA tx : PlannedBy(tx, v), clerk[k].todo)
Coming(v) == MapThenSumSet(LAMBDA k : ComingFrom(k, v), Clerks)

LEMMA ComingIs ==
    ASSUME NEW k, IsFiniteSet(clerk[k].todo), NEW v
    PROVE  ComingFrom(k, v) = SumOver([tx \in clerk[k].todo |-> PlannedBy(tx, v)], clerk[k].todo)
<1> DEFINE S == clerk[k].todo
           f == [tx \in S |-> PlannedBy(tx, v)]
           A(g) == [s \in SUBSET S |-> IF s = {} THEN 0
                      ELSE PlannedBy(First(s), v) + g[s \ {First(s)}]]
<1>1. ASSUME NEW g PROVE A(g) = Added(f, S, g)
  <2>1. \A s \in SUBSET S : s # {} => f[First(s)] = PlannedBy(First(s), v)
    BY FirstIsIn
  <2> HIDE DEF f
  <2> QED
    BY <2>1 DEF Added
<1>2. ComingFrom(k, v) = (CHOOSE g : g = A(g))[S]
  BY DEF ComingFrom, MapThenSumSet, MapThenFoldSet, First
<1> HIDE DEF A, f
<1>3. \E g : g = A(g)
  BY <1>1, SumsExist
<1>4. PICK g : g = A(g) /\ ComingFrom(k, v) = g[S]
  BY <1>2, <1>3
<1>5. g[S] = SumOver(f, S)
  BY <1>1, <1>4, SumIs
<1> QED
  BY <1>4, <1>5 DEF f

LEMMA AllComingIs ==
    ASSUME NEW v
    PROVE  Coming(v) = SumOver([k \in Clerks |-> ComingFrom(k, v)], Clerks)
<1> DEFINE f == [k \in Clerks |-> ComingFrom(k, v)]
           A(g) == [s \in SUBSET Clerks |-> IF s = {} THEN 0
                      ELSE ComingFrom(First(s), v) + g[s \ {First(s)}]]
<1>1. ASSUME NEW g PROVE A(g) = Added(f, Clerks, g)
  <2>1. \A s \in SUBSET Clerks : s # {} => f[First(s)] = ComingFrom(First(s), v)
    BY FirstIsIn
  <2> HIDE DEF f
  <2> QED
    BY <2>1 DEF Added
<1>2. Coming(v) = (CHOOSE g : g = A(g))[Clerks]
  BY DEF Coming, MapThenSumSet, MapThenFoldSet, First
<1> HIDE DEF A, f
<1>3. \E g : g = A(g)
  BY <1>1, SumsExist, ShipmentsAssumption
<1>4. PICK g : g = A(g) /\ Coming(v) = g[Clerks]
  BY <1>2, <1>3
<1>5. g[Clerks] = SumOver(f, Clerks)
  BY <1>1, <1>4, SumIs, ShipmentsAssumption
<1> QED
  BY <1>4, <1>5 DEF f

\* The shipment of a plan for one warehouse has that warehouse's units.
LEMMA OneShipIs ==
    ASSUME NEW P \in [Warehouses -> Units], NEW w \in Warehouses, NEW v \in Variants
    PROVE  PlannedBy(OneShip(P, w), v) = P[w][v] /\ P[w][v] \in Nat
<1> DEFINE f == [x \in Warehouses |-> OneShip(P, w).plan[x][v]]
<1>1. P[w][v] \in Nat
  BY ShipmentsAssumption DEF Units
<1>2. \A x \in Warehouses : f[x] = IF x = w THEN P[w][v] ELSE 0
  BY NothingTyped DEF OneShip
<1>3. PlannedBy(OneShip(P, w), v) = WarehouseSum(f)
  BY DEF PlannedBy, OneShip
<1> HIDE DEF f
<1>4. \A x \in Warehouses : f[x] \in Nat
  BY <1>1, <1>2
<1>5. SumOver(f, Warehouses) = SumOver(f, {w})
  <2>1. {w} \in SUBSET Warehouses /\ \A x \in Warehouses \ {w} : f[x] = 0
    BY <1>2
  <2> QED
    BY <1>4, <2>1, WarehousesFinite, SumWithin
<1>6. SumOver(f, {w}) = f[w] + SumOver(f, {} )
  <2>1. {w} \in SUBSET Warehouses /\ w \in {w} /\ {w} \ {w} = {}
    OBVIOUS
  <2>2. SumOver(f, {w}) = f[w] + SumOver(f, {w} \ {w})
    BY <1>4, <2>1, WarehousesFinite, SumWithout
  <2> QED
    BY <2>1, <2>2
<1>7. SumOver(f, {}) = 0
  BY SumOfNone
<1> QED
  BY <1>1, <1>2, <1>3, <1>5, <1>6, <1>7, WarehouseSumIs

\* The clerk's shipments that are to come are those of warehouses none has gone out from.
LEMMA ComingOfPlan ==
    ASSUME NEW P \in [Warehouses -> Units], FollowsPlan(P), WorkIsFinite, NEW k \in Clerks
    PROVE  \E V \in SUBSET Warehouses :
              /\ \A w \in V : \A s \in Shipped(1) : shipment[s].w # w
              /\ \A v \in Variants : ComingFrom(k, v) = SumOver([w \in Warehouses |-> P[w][v]], V)
<1> DEFINE T == clerk[k].todo
           H == {tx \in T : tx.kind = "ship"}
           at(tx) == CHOOSE w \in Warehouses :
                        /\ tx = OneShip(P, w) /\ P[w] # Nothing
                        /\ \A s \in Shipped(1) : shipment[s].w # w
           g == [tx \in H |-> at(tx)]
           V == {g[tx] : tx \in H}
<1>1. \A tx \in H : /\ at(tx) \in Warehouses /\ tx = OneShip(P, at(tx))
                    /\ \A s \in Shipped(1) : shipment[s].w # at(tx)
  BY DEF FollowsPlan
<1> HIDE DEF at
<1>2. g \in [H -> Warehouses] /\ \A tx \in H : g[tx] = at(tx)
  BY <1>1
<1>3. \A tx, ux \in H : g[tx] = g[ux] => tx = ux
  BY <1>1, <1>2
<1>4. V \in SUBSET Warehouses /\ \A w \in V : \A s \in Shipped(1) : shipment[s].w # w
  BY <1>1, <1>2
<1>5. IsFiniteSet(T) /\ IsFiniteSet(H) /\ H \in SUBSET T
  BY FS_Subset DEF WorkIsFinite
<1>6. \A tx \in T \ H : tx.kind # "ship"
  OBVIOUS
<1> HIDE DEF g, H
<1>7. ASSUME NEW v \in Variants
      PROVE  ComingFrom(k, v) = SumOver([w \in Warehouses |-> P[w][v]], V)
  <2> DEFINE p == [w \in Warehouses |-> P[w][v]]
             f == [tx \in T |-> PlannedBy(tx, v)]
             h == [tx \in H |-> p[g[tx]]]
  <2>1. ComingFrom(k, v) = SumOver(f, T)
    BY <1>5, ComingIs
  <2>2. \A tx \in H : f[tx] = p[g[tx]] /\ p[g[tx]] \in Nat
    <3> SUFFICES ASSUME NEW tx \in H PROVE f[tx] = p[g[tx]] /\ p[g[tx]] \in Nat
      OBVIOUS
    <3>1. PICK w \in Warehouses : w = g[tx] /\ tx = OneShip(P, w)
      BY <1>1, <1>2
    <3>2. PlannedBy(tx, v) = P[w][v] /\ P[w][v] \in Nat
      BY <3>1, OneShipIs
    <3> QED
      BY <1>5, <3>1, <3>2
  <2>3. \A tx \in T \ H : f[tx] = 0
    BY <1>6 DEF PlannedBy
  <2>4. \A tx \in T : f[tx] \in Nat
    <3> SUFFICES ASSUME NEW tx \in T PROVE f[tx] \in Nat
      OBVIOUS
    <3> HIDE DEF f, T, p
    <3>1. tx \in H \/ tx \in T \ H
      OBVIOUS
    <3> QED
      BY <2>2, <2>3, <3>1
  <2>5. \A w \in Warehouses : p[w] \in Nat
    BY ShipmentsAssumption DEF Units
  <2>6. \A tx \in H : h[tx] = p[g[tx]]
    OBVIOUS
  <2> HIDE DEF f, T, p
  <2>7. SumOver(f, T) = SumOver(f, H)
    BY <1>5, <2>3, <2>4, SumWithin
  <2>8. SumOver(f, H) = SumOver(h, H)
    <3> HIDE DEF h
    <3> QED
      BY <1>5, <2>2, <2>6, SumSame
  <2>9. SumOver(h, H) = SumOver(p, V)
    BY <1>2, <1>3, <1>5, <2>5, WarehousesFinite, SumMoved
  <2> QED
    BY <2>1, <2>7, <2>8, <2>9 DEF p
<1> HIDE DEF V
<1> QED
  BY <1>4, <1>7

\* One request at most ships the first order.
LEMMA AllComingOfPlan ==
    ASSUME NEW P \in [Warehouses -> Units], FollowsPlan(P), WorkIsFinite, NEW v \in Variants
    PROVE  \E V \in SUBSET Warehouses :
              /\ \A w \in V : \A s \in Shipped(1) : shipment[s].w # w
              /\ Coming(v) = SumOver([w \in Warehouses |-> P[w][v]], V)
<1> DEFINE p == [w \in Warehouses |-> P[w][v]]
           c == [k \in Clerks |-> ComingFrom(k, v)]
           Idle(k) == \A tx \in clerk[k].todo : tx.kind # "ship"
<1>1. \A w \in Warehouses : p[w] \in Nat
  BY ShipmentsAssumption DEF Units
<1>2. \A k \in Clerks : c[k] = ComingFrom(k, v)
  OBVIOUS
<1>3. Coming(v) = SumOver(c, Clerks)
  BY AllComingIs
<1>4. ASSUME NEW k \in Clerks, Idle(k) PROVE ComingFrom(k, v) = 0
  <2> DEFINE T == clerk[k].todo
             f == [tx \in T |-> PlannedBy(tx, v)]
  <2>1. \A tx \in T : f[tx] = 0 /\ f[tx] \in Nat
    BY <1>4 DEF PlannedBy
  <2>2. IsFiniteSet(T) /\ {} \in SUBSET T
    BY DEF WorkIsFinite
  <2>3. ComingFrom(k, v) = SumOver(f, T)
    BY <2>2, ComingIs
  <2> HIDE DEF f, T
  <2>4. SumOver(f, T) = SumOver(f, {})
    BY <2>1, <2>2, SumWithin
  <2> QED
    BY <2>3, <2>4, SumOfNone
<1>5. \A k \in Clerks : c[k] \in Nat
  <2> SUFFICES ASSUME NEW k \in Clerks PROVE ComingFrom(k, v) \in Nat
    OBVIOUS
  <2>1. PICK V \in SUBSET Warehouses : ComingFrom(k, v) = SumOver(p, V)
    BY ComingOfPlan
  <2> HIDE DEF p
  <2>2. IsFiniteSet(V) /\ \A w \in V : p[w] \in Nat
    BY <1>1, WarehousesFinite, FS_Subset
  <2> QED
    BY <2>1, <2>2, SumType
<1>6. \A k, l \in Clerks : ~Idle(k) /\ ~Idle(l) => k = l
  BY DEF FollowsPlan
<1> HIDE DEF c, Idle
<1>7. CASE \A k \in Clerks : Idle(k)
  <2>1. \A k \in Clerks : c[k] = 0
    BY <1>2, <1>4, <1>7
  <2>2. SumOver(c, Clerks) = SumOver(c, {})
    <3>1. {} \in SUBSET Clerks /\ \A k \in Clerks \ {} : c[k] = 0
      BY <2>1
    <3> QED
      BY <1>5, <3>1, ShipmentsAssumption, SumWithin
  <2>3. SumOver(c, {}) = 0 /\ SumOver(p, {}) = 0
    BY SumOfNone
  <2>4. {} \in SUBSET Warehouses
    OBVIOUS
  <2> QED
    BY <1>3, <2>2, <2>3, <2>4
<1>8. CASE \E k \in Clerks : ~Idle(k)
  <2>1. PICK k \in Clerks : ~Idle(k)
    BY <1>8
  <2>2. \A l \in Clerks \ {k} : c[l] = 0
    BY <1>2, <1>4, <1>6, <2>1
  <2>3. SumOver(c, Clerks) = SumOver(c, {k})
    <3>1. {k} \in SUBSET Clerks
      OBVIOUS
    <3> QED
      BY <1>5, <2>2, <3>1, ShipmentsAssumption, SumWithin
  <2>4. SumOver(c, {k}) = c[k] + SumOver(c, {})
    <3>1. {k} \in SUBSET Clerks /\ k \in {k} /\ {k} \ {k} = {}
      OBVIOUS
    <3>2. SumOver(c, {k}) = c[k] + SumOver(c, {k} \ {k})
      BY <1>5, <3>1, ShipmentsAssumption, SumWithout
    <3> QED
      BY <3>1, <3>2
  <2>5. SumOver(c, {}) = 0
    BY SumOfNone
  <2>6. Coming(v) = ComingFrom(k, v)
    BY <1>2, <1>3, <1>5, <2>3, <2>4, <2>5
  <2> QED
    BY <2>6, ComingOfPlan
<1> QED
  BY <1>7, <1>8

LEMMA PlanIsBought ==
    ASSUME ShipmentsInv, WorkIsFinite, NEW P \in [Warehouses -> Units], FollowsPlan(P), NEW v \in Variants
    PROVE  UnitsIn(Shipped(1), v) + Coming(v) <= Bought[v]
<1>1. RowsTyped
  BY DEF ShipmentsInv
<1>2. PICK S \in SUBSET ShipmentRows : S = Shipped(1)
  BY DEF Shipped
<1>3. PICK V \in SUBSET Warehouses :
          /\ \A w \in V : \A s \in S : shipment[s].w # w
          /\ Coming(v) = SumOver([w \in Warehouses |-> P[w][v]], V)
  BY <1>2, AllComingOfPlan
<1> DEFINE p == [w \in Warehouses |-> P[w][v]]
           g == [s \in S |-> shipment[s].w]
           W == {g[s] : s \in S}
           h == [s \in S |-> shipment[s].items[v]]
           q == [s \in S |-> p[g[s]]]
<1>4. \A s \in S : shipment[s] \in ShipmentRecord
  BY <1>1, <1>2 DEF Shipped, RowsTyped
<1>5. g \in [S -> Warehouses] /\ \A s, t \in S : g[s] = g[t] => s = t
  BY <1>2, <1>4 DEF FollowsPlan, ShipmentRecord
<1>6. \A s \in S : h[s] = q[s]
  BY <1>2, <1>5 DEF FollowsPlan
<1>7. \A w \in Warehouses : p[w] \in Nat
  BY ShipmentsAssumption DEF Units
<1>8. W \in SUBSET Warehouses /\ W \cap V = {} /\ IsFiniteSet(S)
  BY <1>3, <1>5, RowsAreFinite
<1>9. UnitsIn(S, v) = SumOver(h, S)
  BY <1>8, UnitsAreSum
<1>10. SumOver(q, S) = SumOver(p, W)
  <2> HIDE DEF g, p
  <2> QED
    BY <1>5, <1>7, <1>8, WarehousesFinite, SumMoved
<1>11. SumOver(p, Warehouses) <= Bought[v]
  BY DEF FollowsPlan, Planned
<1>12. Bought[v] \in Nat
  BY ShipmentsAssumption DEF Units
<1> HIDE DEF p, g, W, h, q
<1>13. SumOver(h, S) = SumOver(q, S)
  BY <1>6, <1>8, SumSame
<1>14. SumOver(p, W \cup V) = SumOver(p, W) + SumOver(p, V)
  BY <1>7, <1>8, WarehousesFinite, SumOfBoth
<1>15. SumOver(p, W \cup V) <= SumOver(p, Warehouses)
  <2>1. Warehouses \in SUBSET Warehouses /\ W \cup V \in SUBSET Warehouses
    BY <1>8
  <2> QED
    BY <1>7, <2>1, WarehousesFinite, SumOfSubset
<1>16. SumOver(p, Warehouses) \in Nat /\ SumOver(p, W) \in Nat /\ SumOver(p, V) \in Nat
  <2>1. \A T \in SUBSET Warehouses : SumOver(p, T) \in Nat
    BY <1>7, WarehousesFinite, FS_Subset, SumType
  <2>2. Warehouses \in SUBSET Warehouses
    OBVIOUS
  <2> QED
    BY <1>8, <2>1, <2>2
<1>17. Coming(v) = SumOver(p, V)
  BY <1>3 DEF p
<1> QED
  BY <1>2, <1>9, <1>10, <1>11, <1>12, <1>13, <1>14, <1>15, <1>16, <1>17

LEMMA InvRoutes == ShipmentsInv /\ WorkIsFinite => RoutedAsBought
<1> SUFFICES ASSUME ShipmentsInv, WorkIsFinite PROVE RoutedAsBought
  OBVIOUS
<1>1. RoutedOnce
  BY DEF ShipmentsInv
<1>2. routings <= 1 => \E P \in [Warehouses -> Units] : FollowsPlan(P)
  <2>1. CASE routings = 0
    <3> DEFINE P == [w \in Warehouses |-> Nothing]
    <3>1. P \in [Warehouses -> Units]
      BY NothingTyped
    <3>2. ASSUME NEW v \in Variants PROVE Planned(P, v) <= Bought[v]
      <4> DEFINE p == [w \in Warehouses |-> P[w][v]]
      <4>1. \A w \in Warehouses : p[w] = 0 /\ p[w] \in Nat
        BY NothingTyped
      <4>2. {} \in SUBSET Warehouses /\ Planned(P, v) = SumOver(p, Warehouses)
        BY DEF Planned
      <4> HIDE DEF p, P
      <4>3. SumOver(p, Warehouses) = SumOver(p, {})
        BY <4>1, <4>2, WarehousesFinite, SumWithin
      <4>4. SumOver(p, {}) = 0 /\ Bought[v] \in Nat
        BY SumOfNone, ShipmentsAssumption DEF Units
      <4> QED
        BY <4>2, <4>3, <4>4
    <3>3. Shipped(1) = {} /\ \A k \in Clerks : \A tx \in clerk[k].todo : tx.kind # "ship"
      BY <1>1, <2>1 DEF RoutedOnce, Ships
    <3> HIDE DEF P
    <3>4. FollowsPlan(P)
      BY <3>2, <3>3 DEF FollowsPlan
    <3> QED
      BY <3>1, <3>4
  <2>2. CASE routings = 1
    BY <1>1, <2>2 DEF RoutedOnce
  <2>3. routings \in 0..MaxRoutings
    BY <1>1 DEF RoutedOnce
  <2> QED
    BY <2>1, <2>2, <2>3, ShipmentsAssumption
<1>3. \A v \in Variants : routings <= 1 => UnitsIn(Shipped(1), v) + Coming(v) <= Bought[v]
  BY <1>2, PlanIsBought
<1> QED
  BY <1>3 DEF RoutedAsBought, Coming, ComingFrom, PlannedBy

-----------------------------------------------------------------------------
\* warehouse.service.ts:26 and :166: rows, orders, shipments and what requests have still to
\* run are well-formed, and what a request's sync has summed is a sum, with any number of
\* warehouses and of requests at once.
THEOREM ShipmentsTypeCorrect == ShipmentsSpec => []ShipmentsTypeOK
BY ShipmentsInvHolds, InvTypes, PTL

\* warehouse.service.ts:166, :221 and :245: a shelf has reserved what its shipments have, less
\* what their deliveries and returns took, however counts, routings, splits, and reports of
\* any status in any order interleave in several requests, and wherever one of them fails.
THEOREM ReservedAlwaysUnsettled == ShipmentsSpec => []ReservedIsUnsettled
BY ShipmentsInvHolds, InvReserves, PTL

\* warehouse.service.ts:125: an order that is routed once is never shipped more units than
\* were bought, counting the shipments that are still to be created.
THEOREM RoutedAlwaysAsBought == ShipmentsSpec => []RoutedAsBought
BY ShipmentsInvHolds, InvRoutes, PTL

-----------------------------------------------------------------------------
\* The variant's copy of the stock, for any warehouses, variants and requests.

\* What syncVariantCache reads for a transaction.
SumsOf(tx) ==
    [v \in {r[2] : r \in Rows(tx)} |->
        [stock    |-> WarehouseSum([w \in Warehouses |-> Seen(tx, w, v).stock]),
         reserved |-> WarehouseSum([w \in Warehouses |-> Seen(tx, w, v).reserved])]]

\* What was summed is still so when it is written, if nobody comes between.
SumsAreFresh ==
    \A k \in Clerks : clerk[k].stage = "summed" => clerk[k].sums = SumsOf(clerk[k].tx)

ShelfInv ==
    /\ clerk = [k \in Clerks |-> clerk[k]]
    /\ CopyIsSum
    /\ SumsAreFresh

OneClerk == \A k, l \in Clerks : k = l

LEMMA ShelfStarts == ShipmentsInit => ShelfInv
<1> SUFFICES ASSUME ShipmentsInit PROVE ShelfInv
  OBVIOUS
<1>1. /\ cached = [v \in Variants |->
            [stock    |-> WarehouseSum([w \in Warehouses |-> shelf[w][v].stock]),
             reserved |-> WarehouseSum([w \in Warehouses |-> shelf[w][v].reserved])]]
      /\ clerk = [k \in Clerks |-> NoWork]
  BY DEF ShipmentsInit
<1>2. CopyIsSum
  BY <1>1 DEF CopyIsSum
<1>3. SumsAreFresh
  BY <1>1 DEF SumsAreFresh, NoWork
<1> QED
  BY <1>1, <1>2, <1>3 DEF ShelfInv

LEMMA ShelfStays ==
    ASSUME ShelfInv, UNCHANGED <<shelf, cached, clerk>>
    PROVE  ShelfInv'
<1>1. ASSUME NEW tx
      PROVE  SumsOf(tx)' = SumsOf(tx)
  BY DEF SumsOf, Rows, Seen, Written
<1>2. SumsAreFresh'
  BY <1>1 DEF ShelfInv, SumsAreFresh
<1> QED
  BY <1>2 DEF ShelfInv, CopyIsSum

\* A request that has not written its rows, or ends.
LEMMA ClerkMoves ==
    ASSUME ShelfInv, NEW k \in Clerks, NEW c, c.stage # "summed",
           clerk' = [clerk EXCEPT ![k] = c], UNCHANGED <<shelf, cached>>
    PROVE  ShelfInv'
<1>1. \A l \in Clerks : clerk'[l] = IF l = k THEN c ELSE clerk[l]
  BY DEF ShelfInv
<1>2. clerk' = [l \in Clerks |-> clerk'[l]]
  BY DEF ShelfInv
<1>3. CopyIsSum'
  BY DEF ShelfInv, CopyIsSum
<1>4. ASSUME NEW tx
      PROVE  SumsOf(tx)' = SumsOf(tx)
  BY DEF SumsOf, Rows, Seen, Written
<1>5. SumsAreFresh'
  BY <1>1, <1>4 DEF ShelfInv, SumsAreFresh
<1> QED
  BY <1>2, <1>3, <1>5 DEF ShelfInv

\* The sums are read (warehouse.service.ts:66).
LEMMA SyncKeeps ==
    ASSUME ShelfInv, OneClerk, NEW k \in Clerks, SyncVariantCache(k)
    PROVE  ShelfInv'
<1> DEFINE tx == clerk[k].tx
           c == [stage |-> "summed", todo |-> clerk[k].todo, tx |-> tx, sums |-> SumsOf(tx)]
<1>1. clerk' = [clerk EXCEPT ![k] = c] /\ UNCHANGED <<shelf, cached>>
  BY DEF SyncVariantCache, SumsOf
<1>2. c.tx = tx /\ c.sums = SumsOf(tx)
  OBVIOUS
<1>3. PICK t : t = tx
  OBVIOUS
<1> HIDE DEF c, tx
<1>4. \A l \in Clerks : clerk'[l] = c
  BY <1>1 DEF ShelfInv, OneClerk
<1>5. clerk' = [l \in Clerks |-> clerk'[l]]
  BY <1>1 DEF ShelfInv
<1>6. CopyIsSum'
  BY <1>1 DEF ShelfInv, CopyIsSum
<1>7. ASSUME NEW x
      PROVE  SumsOf(x)' = SumsOf(x)
  BY <1>1 DEF SumsOf, Rows, Seen, Written
<1>8. SumsAreFresh'
  <2> SUFFICES ASSUME NEW l \in Clerks
               PROVE  clerk'[l].sums = SumsOf(clerk[l].tx)'
    BY DEF SumsAreFresh
  <2>1. clerk'[l].tx = t /\ clerk'[l].sums = SumsOf(t)
    BY <1>2, <1>3, <1>4
  <2> QED
    BY <1>7, <2>1
<1> QED
  BY <1>5, <1>6, <1>8 DEF ShelfInv

\* The transaction commits: what was summed is written where something changed, and
\* nothing changed elsewhere.
LEMMA ShelfCommitKeeps ==
    ASSUME ShelfInv, OneClerk, NEW k \in Clerks, Commit(k)
    PROVE  ShelfInv'
<1>1. PICK tx : tx = clerk[k].tx
  OBVIOUS
<1>2. /\ clerk[k].stage = "summed"
      /\ shelf' = [w \in Warehouses |-> [v \in Variants |-> Seen(tx, w, v)]]
      /\ cached' = [v \in Variants |-> IF v \in DOMAIN clerk[k].sums THEN clerk[k].sums[v] ELSE cached[v]]
  BY <1>1 DEF Commit
<1>3. clerk[k].sums = SumsOf(tx)
  BY <1>1, <1>2 DEF ShelfInv, SumsAreFresh
<1>4. PICK c : clerk' = [clerk EXCEPT ![k] = c] /\ c.stage # "summed"
  <2>1. (\E todo : Assign(k, todo)) \/ Answer(k)
    BY DEF Commit
  <2>2. ASSUME NEW c, c.stage # "summed", clerk' = [clerk EXCEPT ![k] = c]
        PROVE  \E x : clerk' = [clerk EXCEPT ![k] = x] /\ x.stage # "summed"
    BY <2>2
  <2>3. NoWork.stage # "summed" /\ \A todo : [stage |-> "ready", todo |-> todo].stage # "summed"
    BY DEF NoWork
  <2> QED
    BY <2>1, <2>2, <2>3 DEF Answer, Assign
<1>5. clerk' = [l \in Clerks |-> clerk'[l]] /\ \A l \in Clerks : clerk'[l] = c
  BY <1>4 DEF ShelfInv, OneClerk
<1>6. ASSUME NEW v \in Variants
      PROVE  /\ cached'[v].stock = WarehouseSum([w \in Warehouses |-> shelf'[w][v].stock])
             /\ cached'[v].reserved = WarehouseSum([w \in Warehouses |-> shelf'[w][v].reserved])
  <2>1. /\ [w \in Warehouses |-> shelf'[w][v].stock] = [w \in Warehouses |-> Seen(tx, w, v).stock]
        /\ [w \in Warehouses |-> shelf'[w][v].reserved] = [w \in Warehouses |-> Seen(tx, w, v).reserved]
    BY <1>2
  <2>2. CASE v \in DOMAIN SumsOf(tx)
    <3>1. SumsOf(tx)[v] = [stock    |-> WarehouseSum([w \in Warehouses |-> Seen(tx, w, v).stock]),
                           reserved |-> WarehouseSum([w \in Warehouses |-> Seen(tx, w, v).reserved])]
      BY <2>2 DEF SumsOf
    <3>2. cached'[v] = SumsOf(tx)[v]
      BY <1>2, <1>3, <2>2
    <3> QED
      BY <2>1, <3>1, <3>2
  <2>3. CASE v \notin DOMAIN SumsOf(tx)
    <3>1. \A w \in Warehouses : <<w, v>> \notin Rows(tx)
      BY <2>3 DEF SumsOf
    <3>2. \A w \in Warehouses : Seen(tx, w, v) = shelf[w][v]
      BY <3>1 DEF Seen
    <3>3. cached'[v] = cached[v]
      BY <1>2, <1>3, <2>3
    <3> QED
      BY <2>1, <3>2, <3>3 DEF ShelfInv, CopyIsSum
  <2> QED
    BY <2>2, <2>3
<1>7. CopyIsSum'
  BY <1>6 DEF CopyIsSum
<1>8. SumsAreFresh'
  BY <1>4, <1>5 DEF SumsAreFresh
<1> QED
  BY <1>5, <1>7, <1>8 DEF ShelfInv

\* warehouse.service.ts:66 (I-1): the variant's stock and reservedStock are the sums over
\* its warehouses after every transaction of any length, that fails or not, when requests
\* are served one after the other.
THEOREM CopyIsAlwaysSum ==
    ASSUME OneClerk
    PROVE  ShipmentsSpec => []CopyIsSum
<1>1. ASSUME ShelfInv, [ShipmentsNext]_shipmentVars
      PROVE  ShelfInv'
  <2>1. CASE UNCHANGED shipmentVars
    BY <1>1, <2>1, ShelfStays DEF shipmentVars
  <2>2. ASSUME NEW k \in Clerks, NEW w \in Warehouses, NEW v \in Variants, NEW n \in Counts,
               UpdateInventory(k, w, v, n)
        PROVE  ShelfInv'
    <3> DEFINE c == [stage |-> "ready", todo |-> {[kind |-> "count", w |-> w, v |-> v, stock |-> n]}]
    <3>1. c.stage # "summed" /\ clerk' = [clerk EXCEPT ![k] = c] /\ UNCHANGED <<shelf, cached>>
      BY <2>2 DEF UpdateInventory, Assign
    <3> HIDE DEF c
    <3> QED
      BY <1>1, <3>1, ClerkMoves
  <2>3. ASSUME NEW k \in Clerks, NEW todo, Assign(k, todo) \/ Answer(k), UNCHANGED <<shelf, cached>>
        PROVE  ShelfInv'
    <3>1. PICK c : c.stage # "summed" /\ clerk' = [clerk EXCEPT ![k] = c]
      BY <2>3 DEF Assign, Answer, NoWork
    <3> QED
      BY <1>1, <2>3, <3>1, ClerkMoves
  <2>4. ASSUME NEW k \in Clerks, NEW o \in OrderRows, RouteOrder(k, o) \/ SplitOrderByWarehouse(k, o)
        PROVE  ShelfInv'
    <3>1. PICK todo : Assign(k, todo)
      BY <2>4 DEF RouteOrder, SplitOrderByWarehouse
    <3>2. UNCHANGED <<shelf, cached>>
      BY <2>4 DEF RouteOrder, SplitOrderByWarehouse
    <3> QED
      BY <2>3, <3>1, <3>2
  <2>5. ASSUME NEW k \in Clerks, NEW s \in ShipmentRows, NEW status, UpdateShipmentStatus(k, s, status)
        PROVE  ShelfInv'
    <3>1. UNCHANGED <<shelf, cached>>
      BY <2>5 DEF UpdateShipmentStatus
    <3>2. CASE UNCHANGED clerk
      BY <1>1, <3>1, <3>2, ShelfStays
    <3>3. CASE \E todo : Assign(k, todo)
      BY <2>3, <3>1, <3>3
    <3> QED
      BY <2>5, <3>2, <3>3 DEF UpdateShipmentStatus
  <2>6. ASSUME NEW k \in Clerks, NEW tx, WriteRows(k, tx)
        PROVE  ShelfInv'
    <3>1. PICK c : c.stage # "summed" /\ clerk' = [clerk EXCEPT ![k] = c]
      BY <2>6 DEF WriteRows, Answer, NoWork
    <3>2. UNCHANGED <<shelf, cached>>
      BY <2>6 DEF WriteRows
    <3> QED
      BY <1>1, <3>1, <3>2, ClerkMoves
  <2>7. ASSUME NEW k \in Clerks, FailRequest(k)
        PROVE  ShelfInv'
    BY <2>3, <2>7 DEF FailRequest
  <2> QED
    BY <1>1, <2>1, <2>2, <2>4, <2>5, <2>6, <2>7, SyncKeeps, ShelfCommitKeeps DEF ShipmentsNext
<1>2. ShelfInv => CopyIsSum
  BY DEF ShelfInv
<1>3. ShelfInv /\ [ShipmentsNext]_shipmentVars => ShelfInv'
  BY <1>1
<1> QED
  BY <1>2, <1>3, ShelfStarts, PTL DEF ShipmentsSpec
=============================================================================
