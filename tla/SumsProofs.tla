----------------------------- MODULE SumsProofs -----------------------------
(***************************************************************************)
(* The facts about Total that proofs about quantities need: it is a        *)
(* natural number, and it grows by the value of an element that is added.  *)
(***************************************************************************)
EXTENDS Sums, FiniteSetTheorems, FunctionTheorems, TLAPS

\* The units counted by a sum over a finite set are finitely many.
LEMMA UnitsFinite ==
    ASSUME NEW S, IsFiniteSet(S), NEW f \in [S -> Nat]
    PROVE  IsFiniteSet(Units(f))
<1> DEFINE T == {{x} \X (1..f[x]) : x \in S}
           g == [x \in S |-> {x} \X (1..f[x])]
<1>1. g \in Surjection(S, T)
  BY DEF Surjection
<1>2. IsFiniteSet(T)
  BY <1>1, FS_Surjection
<1>3. \A U \in T : IsFiniteSet(U)
  <2>1. SUFFICES ASSUME NEW x \in S PROVE IsFiniteSet({x} \X (1..f[x]))
    OBVIOUS
  <2>2. IsFiniteSet({x})
    BY FS_Singleton
  <2>3. IsFiniteSet(1..f[x])
    BY FS_Interval
  <2>4. QED
    BY <2>2, <2>3, FS_Product
<1>4. Units(f) = UNION T
  BY DEF Units
<1>5. QED
  BY <1>2, <1>3, <1>4, FS_UNION

\* A sum of natural quantities over a finite set is a natural number.
LEMMA TotalType ==
    ASSUME NEW S, IsFiniteSet(S), NEW f \in [S -> Nat]
    PROVE  Total(f) \in Nat
BY UnitsFinite, FS_CardinalityType DEF Total

\* The empty sum is zero.
LEMMA TotalEmpty ==
    ASSUME NEW f, DOMAIN f = {}
    PROVE  Total(f) = 0
<1>1. Units(f) = {}
  BY DEF Units
<1>2. QED
  BY <1>1, FS_EmptySet DEF Total

\* Taking one element out of a sum takes its value off the total.
LEMMA TotalRemove ==
    ASSUME NEW S, IsFiniteSet(S), NEW f \in [S -> Nat], NEW x \in S
    PROVE  Total(f) = Total([y \in S \ {x} |-> f[y]]) + f[x]
<1> DEFINE R == S \ {x}
           g == [y \in R |-> f[y]]
           X == {x} \X (1..f[x])
<1>1. IsFiniteSet(R) /\ g \in [R -> Nat]
  BY FS_RemoveElement
<1>2. IsFiniteSet(Units(g))
  BY <1>1, UnitsFinite
<1>3. IsFiniteSet(X) /\ Cardinality(X) = f[x]
  <2>1. IsFiniteSet({x}) /\ Cardinality({x}) = 1
    BY FS_Singleton
  <2>2. IsFiniteSet(1..f[x]) /\ Cardinality(1..f[x]) = f[x]
    BY FS_Interval
  <2>3. IsFiniteSet(X) /\ Cardinality(X) = 1 * f[x]
    BY <2>1, <2>2, FS_Product
  <2>4. QED
    BY <2>3
<1>4. Units(f) = Units(g) \cup X
  <2>1. DOMAIN f = S /\ DOMAIN g = R /\ \A y \in R : g[y] = f[y]
    OBVIOUS
  <2>2. ASSUME NEW u PROVE u \in Units(f) <=> \E y \in S : u \in {y} \X (1..f[y])
    BY <2>1 DEF Units
  <2>3. ASSUME NEW u PROVE u \in Units(g) <=> \E y \in R : u \in {y} \X (1..f[y])
    BY <2>1 DEF Units
  <2>4. QED
    BY <2>2, <2>3
<1>5. Units(g) \cap X = {}
  <2>1. SUFFICES ASSUME NEW u \in Units(g), u \in X PROVE FALSE
    OBVIOUS
  <2>2. PICK y \in R : u \in {y} \X (1..g[y])
    BY DEF Units
  <2>3. QED
    BY <2>1, <2>2
<1>6. Cardinality(Units(f)) = Cardinality(Units(g)) + Cardinality(X) - Cardinality(Units(g) \cap X)
  BY <1>2, <1>3, <1>4, FS_Union
<1>7. Cardinality(Units(g)) \in Nat
  BY <1>2, FS_CardinalityType
<1>8. Cardinality(Units(f)) = Cardinality(Units(g)) + f[x]
  <2>1. Cardinality(Units(g) \cap X) = 0
    BY <1>5, FS_EmptySet
  <2>2. f[x] \in Nat
    OBVIOUS
  <2>3. QED
    BY <1>3, <1>6, <1>7, <2>1, <2>2
<1>9. Total(f) = Total(g) + f[x]
  BY <1>8 DEF Total
<1>10. QED
  BY <1>9

\* The same for any function that agrees with f on what is left.
LEMMA TotalSplit ==
    ASSUME NEW S, IsFiniteSet(S), NEW f \in [S -> Nat], NEW x \in S,
           NEW R, R = S \ {x}, NEW g \in [R -> Nat], \A y \in R : g[y] = f[y]
    PROVE  Total(f) = Total(g) + f[x] /\ Total(g) \in Nat
<1>1. g = [y \in S \ {x} |-> f[y]]
  OBVIOUS
<1>2. IsFiniteSet(R)
  BY FS_RemoveElement
<1>3. Total(g) \in Nat
  BY <1>2, TotalType
<1>4. QED
  BY <1>1, <1>3, TotalRemove

\* A sum with one element is the value of that element.
LEMMA TotalSingleton ==
    ASSUME NEW x, NEW n \in Nat
    PROVE  Total([y \in {x} |-> n]) = n
<1> DEFINE f == [y \in {x} |-> n]
           g == [y \in {x} \ {x} |-> f[y]]
<1>1. IsFiniteSet({x}) /\ f \in [{x} -> Nat] /\ f[x] = n
  BY FS_Singleton
<1>2. Total(f) = Total(g) + f[x]
  BY <1>1, TotalRemove
<1>3. Total(g) = 0
  BY TotalEmpty
<1>4. QED
  BY <1>1, <1>2, <1>3

\* A sum over two disjoint sets is the sum over one and over the other.
LEMMA TotalUnion ==
    ASSUME NEW S, IsFiniteSet(S), NEW T, IsFiniteSet(T), S \cap T = {},
           NEW f \in [S \cup T -> Nat]
    PROVE  Total(f) = Total([x \in S |-> f[x]]) + Total([x \in T |-> f[x]])
<1> DEFINE g == [x \in S |-> f[x]]
           h == [x \in T |-> f[x]]
<1>1. /\ IsFiniteSet(Units(g)) /\ IsFiniteSet(Units(h))
      /\ Cardinality(Units(g)) \in Nat /\ Cardinality(Units(h)) \in Nat
  <2>1. g \in [S -> Nat] /\ h \in [T -> Nat]
    OBVIOUS
  <2> QED BY <2>1, UnitsFinite, FS_CardinalityType
<1>2. Units(f) = Units(g) \cup Units(h)
  <2>1. DOMAIN f = S \cup T /\ DOMAIN g = S /\ DOMAIN h = T
    OBVIOUS
  <2>2. (\A x \in S : g[x] = f[x]) /\ (\A x \in T : h[x] = f[x])
    OBVIOUS
  <2>3. ASSUME NEW u PROVE u \in Units(f) <=> \E y \in S \cup T : u \in {y} \X (1..f[y])
    BY <2>1 DEF Units
  <2>4. ASSUME NEW u PROVE u \in Units(g) <=> \E y \in S : u \in {y} \X (1..f[y])
    BY <2>1, <2>2 DEF Units
  <2>5. ASSUME NEW u PROVE u \in Units(h) <=> \E y \in T : u \in {y} \X (1..f[y])
    BY <2>1, <2>2 DEF Units
  <2> QED BY <2>3, <2>4, <2>5
<1>3. Units(g) \cap Units(h) = {}
  <2> SUFFICES ASSUME NEW u \in Units(g), u \in Units(h) PROVE FALSE
    OBVIOUS
  <2>1. PICK y \in S : u \in {y} \X (1..g[y])
    BY DEF Units
  <2>2. PICK z \in T : u \in {z} \X (1..h[z])
    BY DEF Units
  <2>3. y = z
    BY <2>1, <2>2
  <2> QED BY <2>3
<1>4. Cardinality(Units(f)) =
          Cardinality(Units(g)) + Cardinality(Units(h)) - Cardinality(Units(g) \cap Units(h))
  BY <1>1, <1>2, FS_Union
<1>5. Cardinality(Units(g) \cap Units(h)) = 0
  BY <1>3, FS_EmptySet
<1>6. Total(f) = Total(g) + Total(h)
  BY <1>1, <1>4, <1>5 DEF Total
<1> QED BY <1>6

\* The same for functions that agree with f on the parts.
LEMMA TotalParts ==
    ASSUME NEW S, IsFiniteSet(S), NEW T, IsFiniteSet(T), S \cap T = {}, NEW U, U = S \cup T,
           NEW f \in [U -> Nat], NEW g, g = [x \in S |-> f[x]], NEW h, h = [x \in T |-> f[x]]
    PROVE  Total(f) = Total(g) + Total(h) /\ Total(g) \in Nat /\ Total(h) \in Nat
<1>1. g \in [S -> Nat] /\ h \in [T -> Nat]
  OBVIOUS
<1>2. Total(g) \in Nat /\ Total(h) \in Nat
  BY <1>1, TotalType
<1>3. Total(f) = Total(g) + Total(h)
  BY TotalUnion
<1> QED BY <1>2, <1>3

LEMMA IntervalsFinite == \A m, n \in Int : IsFiniteSet(m..n)
BY FS_Interval

\* Values that move up by one place add up to the same.
LEMMA TotalShift ==
    ASSUME NEW n \in Int, NEW f \in [0..n -> Nat], NEW g \in [1..(n + 1) -> Nat],
           \A i \in 0..n : g[i + 1] = f[i]
    PROVE  Total(g) = Total(f)
<1> DEFINE move == [u \in Units(f) |-> <<u[1] + 1, u[2]>>]
<1>1. ASSUME NEW u PROVE u \in Units(f) <=> \E i \in 0..n : u \in {i} \X (1..f[i])
  BY DEF Units
<1>2. ASSUME NEW u PROVE u \in Units(g) <=> \E i \in 1..(n + 1) : u \in {i} \X (1..g[i])
  BY DEF Units
<1>3. ASSUME NEW u \in Units(f) PROVE move[u] \in Units(g) /\ u = <<u[1], u[2]>> /\ u[1] \in Int
  <2>1. PICK i \in 0..n : u \in {i} \X (1..f[i])
    BY <1>1
  <2>2. u[1] = i /\ u[2] \in 1..f[i] /\ u = <<u[1], u[2]>>
    BY <2>1
  <2>3. move[u] \in {i + 1} \X (1..g[i + 1])
    BY <2>2
  <2>4. i + 1 \in 1..(n + 1)
    OBVIOUS
  <2> QED BY <1>2, <2>2, <2>3, <2>4
<1>4. ASSUME NEW v \in Units(g) PROVE \E u \in Units(f) : move[u] = v
  <2>1. PICK j \in 1..(n + 1) : v \in {j} \X (1..g[j])
    BY <1>2
  <2> DEFINE u == <<j - 1, v[2]>>
  <2>2. j - 1 \in 0..n /\ g[j] = f[j - 1]
    <3>1. j - 1 \in 0..n /\ (j - 1) + 1 = j
      OBVIOUS
    <3> QED BY <3>1
  <2>3. u \in Units(f)
    <3>1. u \in {j - 1} \X (1..f[j - 1])
      BY <2>1, <2>2
    <3> QED BY <1>1, <2>2, <3>1
  <2>4. move[u] = v
    BY <2>1, <2>3
  <2> QED BY <2>3, <2>4
<1>5. ASSUME NEW u \in Units(f), NEW v \in Units(f), move[u] = move[v] PROVE u = v
  <2>1. u = <<u[1], u[2]>> /\ v = <<v[1], v[2]>> /\ u[1] \in Int /\ v[1] \in Int
    BY <1>3
  <2>2. u[1] + 1 = v[1] + 1 /\ u[2] = v[2]
    BY <1>5
  <2> QED BY <2>1, <2>2
<1>6. move \in Bijection(Units(f), Units(g))
  <2> HIDE DEF move
  <2>1. move \in [Units(f) -> Units(g)]
    BY <1>3 DEF move
  <2> QED BY <1>4, <1>5, <2>1 DEF Bijection, Injection, Surjection, IsInjective
<1>7. IsFiniteSet(Units(f))
  BY UnitsFinite, FS_Interval
<1> QED BY <1>6, <1>7, FS_Bijection DEF ExistsBijection, Total

=============================================================================
