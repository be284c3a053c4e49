--------------------------- MODULE PortfolioProofs ---------------------------
(* Theorems about Rebalance and DeploymentRunner, for every value of their     *)
(* constants: both add up orders and positions over sets.                      *)
EXTENDS Rebalance, DeploymentRunner, FiniteSetTheorems, SequenceTheorems, WellFoundedInduction, TLAPS

-----------------------------------------------------------------------------
(* Sums over finite sets *)

\* The element that the sum over T takes first, and what the sum is, step by step.
First(T) == CHOOSE x \in T : TRUE
Sums(g, f, D) == g = [T \in D |-> IF T = {} THEN 0 ELSE f[First(T)] + g[T \ {First(T)}]]

\* A set of natural numbers has a smallest one.
LEMMA SmallestNat ==
  ASSUME NEW N \in SUBSET Nat, N # {}
  PROVE  \E n \in N : \A m \in N : n <= m
<1>1. PICK n \in N : \A m \in N : <<m, n>> \notin OpToRel(<, Nat)
  BY NatLessThanWellFounded, WFMin
<1>2. \A m \in N : ~ (m < n)
  BY <1>1, Zenon DEF OpToRel
<1> QED BY <1>2

LEMMA FirstIn ==
  ASSUME NEW T, T # {}
  PROVE  First(T) \in T
  BY DEF First

\* Without its first element, a finite set is smaller by one.
LEMMA OneLess ==
  ASSUME NEW S, IsFiniteSet(S), NEW x \in S
  PROVE  /\ IsFiniteSet(S \ {x}) /\ Cardinality(S) \in Nat /\ Cardinality(S \ {x}) \in Nat
         /\ Cardinality(S \ {x}) = Cardinality(S) - 1 /\ Cardinality(S) > 0
<1>1. /\ IsFiniteSet(S \ {x}) /\ Cardinality(S \ {x}) = Cardinality(S) - 1
  BY FS_RemoveElement
<1>2. Cardinality(S) \in Nat /\ Cardinality(S \ {x}) \in Nat
  BY <1>1, FS_CardinalityType
<1> QED BY <1>1, <1>2

\* There is such a function for the subsets of a finite set.
LEMMA SumsExist ==
  ASSUME NEW f, NEW S, IsFiniteSet(S)
  PROVE  \E g : Sums(g, f, SUBSET S)
<1> DEFINE Upto(n) == {T \in SUBSET S : Cardinality(T) <= n}
           Bad == {n \in Nat : ~ \E g : Sums(g, f, Upto(n))}
<1>1. ASSUME NEW n \in Nat, NEW g, Sums(g, f, Upto(n))
      PROVE  \E h : Sums(h, f, Upto(n + 1))
  <2> DEFINE h == [T \in Upto(n + 1) |-> IF T = {} THEN 0 ELSE f[First(T)] + g[T \ {First(T)}]]
  <2>1. ASSUME NEW T \in Upto(n + 1), T # {}
        PROVE  h[T \ {First(T)}] = g[T \ {First(T)}]
    <3> DEFINE U == T \ {First(T)}
    <3>1. IsFiniteSet(T) /\ First(T) \in T
      BY <2>1, FirstIn, FS_Subset
    <3>2. Cardinality(U) \in Nat /\ Cardinality(U) <= n
      BY <3>1, OneLess
    <3>3. U \in Upto(n) /\ U \in Upto(n + 1)
      BY <3>2
    <3> HIDE DEF U, Upto
    <3>4. h[U] = IF U = {} THEN 0 ELSE f[First(U)] + g[U \ {First(U)}]
      BY <3>3
    <3>5. g[U] = IF U = {} THEN 0 ELSE f[First(U)] + g[U \ {First(U)}]
      BY <3>3, <1>1 DEF Sums
    <3> QED BY <3>4, <3>5 DEF U
  <2>2. h = [T \in Upto(n + 1) |-> IF T = {} THEN 0 ELSE f[First(T)] + h[T \ {First(T)}]]
    <3> HIDE DEF Upto
    <3>1. \A T \in Upto(n + 1) : h[T] = IF T = {} THEN 0 ELSE f[First(T)] + h[T \ {First(T)}]
      BY <2>1
    <3> QED BY <3>1
  <2> HIDE DEF h
  <2> QED BY <2>2 DEF Sums
<1>2. \E g : Sums(g, f, Upto(0))
  <2>1. Upto(0) = {{}}
    <3>1. ASSUME NEW T \in SUBSET S, Cardinality(T) <= 0 PROVE T = {}
      BY <3>1, FS_Subset, FS_CardinalityType, FS_EmptySet
    <3>2. Cardinality({}) = 0
      BY FS_EmptySet
    <3> QED BY <3>1, <3>2
  <2>2. Sums([T \in {{}} |-> 0], f, {{}})
    BY DEF Sums
  <2> QED BY <2>1, <2>2
<1>3. \A n \in Nat : \E g : Sums(g, f, Upto(n))
  <2> SUFFICES Bad = {}
    OBVIOUS
  <2> HIDE DEF Upto
  <2>1. SUFFICES ASSUME NEW n \in Bad, \A m \in Bad : n <= m PROVE FALSE
    BY SmallestNat
  <2>2. n # 0 /\ n \in Nat
    BY <1>2
  <2>3. n - 1 \in Nat /\ n - 1 \notin Bad
    BY <2>1, <2>2
  <2>4. PICK g : Sums(g, f, Upto(n - 1))
    BY <2>3
  <2>5. (n - 1) + 1 = n
    BY <2>2
  <2>6. \E h : Sums(h, f, Upto((n - 1) + 1))
    BY <1>1, <2>3, <2>4
  <2> QED BY <2>5, <2>6
<1>4. Upto(Cardinality(S)) = SUBSET S
  BY FS_Subset
<1>5. Cardinality(S) \in Nat
  BY FS_CardinalityType
<1> HIDE DEF Upto
<1> QED BY <1>3, <1>4, <1>5

\* Two of them agree where they are both defined.
LEMMA SumsAgree ==
  ASSUME NEW f, NEW S, NEW R, NEW g, NEW h, IsFiniteSet(S), R \subseteq S,
         Sums(g, f, SUBSET S), Sums(h, f, SUBSET R)
  PROVE  g[R] = h[R]
<1> DEFINE Bad == {n \in Nat : \E T \in SUBSET R : Cardinality(T) = n /\ g[T] # h[T]}
<1>1. SUFFICES Bad = {}
  <2>1. R \in SUBSET R /\ Cardinality(R) \in Nat
    BY FS_Subset, FS_CardinalityType
  <2> QED BY <2>1
<1>2. SUFFICES ASSUME NEW n \in Bad, \A m \in Bad : n <= m PROVE FALSE
  BY SmallestNat
<1>3. PICK T \in SUBSET R : Cardinality(T) = n /\ g[T] # h[T]
  OBVIOUS
<1>4. /\ g[T] = IF T = {} THEN 0 ELSE f[First(T)] + g[T \ {First(T)}]
      /\ h[T] = IF T = {} THEN 0 ELSE f[First(T)] + h[T \ {First(T)}]
  BY DEF Sums
<1>5. T # {} /\ g[T \ {First(T)}] # h[T \ {First(T)}]
  BY <1>3, <1>4
<1>6. /\ Cardinality(T \ {First(T)}) \in Nat /\ Cardinality(T \ {First(T)}) = n - 1 /\ n \in Nat
  BY <1>3, <1>5, FirstIn, FS_Subset, OneLess
<1>7. n - 1 \in Bad
  BY <1>5, <1>6
<1> QED BY <1>2, <1>6, <1>7

LEMMA SumIsSums ==
  ASSUME NEW f, NEW S
  PROVE  SumFunctionOnSet(f, S) = (CHOOSE g : Sums(g, f, SUBSET S))[S]
BY DEF SumFunctionOnSet, FoldFunctionOnSet, MapThenFoldSet, Sums, First

\* A sum is its first element and the sum of the others.
LEMMA SumStep ==
  ASSUME NEW f, NEW S, IsFiniteSet(S)
  PROVE  SumFunctionOnSet(f, S) = IF S = {} THEN 0
                                  ELSE f[First(S)] + SumFunctionOnSet(f, S \ {First(S)})
<1> DEFINE Q == S \ {First(S)}
           all == CHOOSE h : Sums(h, f, SUBSET S)
           some == CHOOSE h : Sums(h, f, SUBSET Q)
<1>1. IsFiniteSet(Q) /\ Q \subseteq S
  BY FS_Subset
<1>2. Sums(all, f, SUBSET S) /\ Sums(some, f, SUBSET Q)
  <2>1. (\E h : Sums(h, f, SUBSET S)) /\ (\E h : Sums(h, f, SUBSET Q))
    <3> HIDE DEF Q
    <3> QED BY <1>1, SumsExist
  <2> HIDE DEF Q
  <2> QED BY <2>1
<1>3. SumFunctionOnSet(f, S) = all[S] /\ SumFunctionOnSet(f, Q) = some[Q]
  <2> HIDE DEF Q
  <2> QED BY SumIsSums
<1>4. all[Q] = some[Q]
  <2> HIDE DEF all, some, Q
  <2> QED BY <1>1, <1>2, SumsAgree
<1>5. all[S] = IF S = {} THEN 0 ELSE f[First(S)] + all[Q]
  <2> HIDE DEF all
  <2> QED BY <1>2 DEF Sums
<1> HIDE DEF all, some
<1> QED BY <1>3, <1>4, <1>5

\* A sum stays within what is closed under addition.
LEMMA SumStaysIn ==
  ASSUME NEW A, 0 \in A, \A a, b \in A : a + b \in A,
         NEW S, IsFiniteSet(S), NEW f, \A x \in S : f[x] \in A
  PROVE  SumFunctionOnSet(f, S) \in A
<1> DEFINE Bad == {n \in Nat : \E T \in SUBSET S : Cardinality(T) = n /\ SumFunctionOnSet(f, T) \notin A}
<1>1. SUFFICES Bad = {}
  <2>1. S \in SUBSET S /\ Cardinality(S) \in Nat
    BY FS_CardinalityType
  <2> QED BY <2>1
<1>2. SUFFICES ASSUME NEW n \in Bad, \A m \in Bad : n <= m PROVE FALSE
  BY SmallestNat
<1>3. PICK T \in SUBSET S : Cardinality(T) = n /\ SumFunctionOnSet(f, T) \notin A
  OBVIOUS
<1> DEFINE R == T \ {First(T)}
<1>4. IsFiniteSet(T)
  BY FS_Subset
<1>5. T # {} /\ SumFunctionOnSet(f, T) = f[First(T)] + SumFunctionOnSet(f, R)
  <2>1. SumFunctionOnSet(f, T) = IF T = {} THEN 0 ELSE f[First(T)] + SumFunctionOnSet(f, R)
    BY <1>4, SumStep, Zenon
  <2> HIDE DEF R
  <2> QED BY <1>3, <2>1
<1>6. First(T) \in T /\ R \in SUBSET S
  BY <1>5, FirstIn
<1>7. Cardinality(R) \in Nat /\ Cardinality(R) = n - 1 /\ n \in Nat
  BY <1>3, <1>4, <1>6, OneLess
<1> HIDE DEF R
<1>8. SumFunctionOnSet(f, R) \in A
  BY <1>2, <1>6, <1>7
<1> QED BY <1>3, <1>5, <1>6, <1>8

LEMMA SumIsInt ==
  ASSUME NEW S, IsFiniteSet(S), NEW f, \A x \in S : f[x] \in Int
  PROVE  SumFunctionOnSet(f, S) \in Int
<1>1. 0 \in Int /\ \A a, b \in Int : a + b \in Int
  OBVIOUS
<1>2. \A A : (0 \in A /\ \A a, b \in A : a + b \in A) /\ (\A x \in S : f[x] \in A)
             => SumFunctionOnSet(f, S) \in A
  BY SumStaysIn
<1> QED BY <1>1, <1>2, Zenon

LEMMA SumIsNat ==
  ASSUME NEW S, IsFiniteSet(S), NEW f, \A x \in S : f[x] \in Nat
  PROVE  SumFunctionOnSet(f, S) \in Nat
<1>1. 0 \in Nat /\ \A a, b \in Nat : a + b \in Nat
  OBVIOUS
<1>2. \A A : (0 \in A /\ \A a, b \in A : a + b \in A) /\ (\A x \in S : f[x] \in A)
             => SumFunctionOnSet(f, S) \in A
  BY SumStaysIn
<1> QED BY <1>1, <1>2, Zenon

\* Any element can be taken first.
LEMMA SumTakes ==
  ASSUME NEW S, IsFiniteSet(S), NEW f, \A x \in S : f[x] \in Int, NEW a \in S
  PROVE  SumFunctionOnSet(f, S) = f[a] + SumFunctionOnSet(f, S \ {a})
<1> DEFINE Good(T) == \A x \in T : SumFunctionOnSet(f, T) = f[x] + SumFunctionOnSet(f, T \ {x})
           Bad == {n \in Nat : \E T \in SUBSET S : Cardinality(T) = n /\ ~Good(T)}
<1>1. SUFFICES Bad = {}
  <2>1. S \in SUBSET S /\ Cardinality(S) \in Nat
    BY FS_CardinalityType
  <2>2. Good(S)
    <3> HIDE DEF Good
    <3> QED BY <2>1
  <2> QED BY <2>2
<1>2. SUFFICES ASSUME NEW n \in Bad, \A m \in Bad : n <= m PROVE FALSE
  BY SmallestNat
<1>3. PICK T \in SUBSET S : Cardinality(T) = n /\ ~Good(T)
  OBVIOUS
<1>4. PICK x \in T : SumFunctionOnSet(f, T) # f[x] + SumFunctionOnSet(f, T \ {x})
  BY <1>3
<1> DEFINE p == First(T)
           P == T \ {p}
           X == T \ {x}
           B == P \ {x}
<1>5. IsFiniteSet(T) /\ IsFiniteSet(P) /\ IsFiniteSet(X) /\ IsFiniteSet(B)
  BY FS_Subset
<1>6. p \in T /\ SumFunctionOnSet(f, T) = f[p] + SumFunctionOnSet(f, P)
  BY <1>4, <1>5, SumStep, FirstIn
<1>7. p # x
  BY <1>4, <1>6
<1>8. x \in P /\ p \in X /\ B = X \ {p} /\ P \in SUBSET S /\ X \in SUBSET S /\ B \in SUBSET S
  BY <1>4, <1>6, <1>7
<1>9. /\ n \in Nat /\ Cardinality(P) \in Nat /\ Cardinality(P) = n - 1
      /\ Cardinality(X) \in Nat /\ Cardinality(X) = n - 1
  BY <1>3, <1>4, <1>5, <1>6, OneLess
<1>10. f[x] \in Int /\ f[p] \in Int /\ SumFunctionOnSet(f, B) \in Int
  <2> HIDE DEF B, P, X, p
  <2> QED BY <1>4, <1>5, <1>6, <1>8, SumIsInt
<1>11. Good(P) /\ Good(X)
  <2> HIDE DEF P, X, Good
  <2> QED BY <1>2, <1>8, <1>9
<1>12. SumFunctionOnSet(f, P) = f[x] + SumFunctionOnSet(f, B)
  BY <1>8, <1>11
<1>13. SumFunctionOnSet(f, X) = f[p] + SumFunctionOnSet(f, B)
  <2>1. SumFunctionOnSet(f, X) = f[p] + SumFunctionOnSet(f, X \ {p})
    <3> HIDE DEF p, X
    <3> QED BY <1>8, <1>11
  <2> QED BY <2>1, <1>8
<1> HIDE DEF p, P, X, B
<1>14. SumFunctionOnSet(f, T) # f[x] + SumFunctionOnSet(f, X)
  BY <1>4 DEF X
<1> QED BY <1>6, <1>10, <1>12, <1>13, <1>14

\* What is taken one to one from the elements of a sum, at most d c-ths of each,
\* sums up to at most d c-ths of it.
LEMMA SumInjects ==
  ASSUME NEW S, IsFiniteSet(S), NEW R, IsFiniteSet(R), NEW f, NEW g, NEW m, NEW c \in Nat, NEW d \in Nat,
         \A x \in S : f[x] \in Int /\ m[x] \in R /\ c * f[x] <= d * g[m[x]],
         \A x, y \in S : m[x] = m[y] => x = y,
         \A y \in R : g[y] \in Nat
  PROVE  c * SumFunctionOnSet(f, S) <= d * SumFunctionOnSet(g, R)
<1> DEFINE Good(T, Q) == c * SumFunctionOnSet(f, T) <= d * SumFunctionOnSet(g, Q)
           Bad == {n \in Nat : \E T \in SUBSET S, Q \in SUBSET R :
                                 Cardinality(T) = n /\ (\A x \in T : m[x] \in Q) /\ ~Good(T, Q)}
<1>1. SUFFICES Bad = {}
  <2>1. S \in SUBSET S /\ R \in SUBSET R /\ Cardinality(S) \in Nat
    BY FS_CardinalityType
  <2>2. Good(S, R)
    <3> HIDE DEF Good
    <3> QED BY <2>1
  <2> QED BY <2>2
<1>2. SUFFICES ASSUME NEW n \in Bad, \A k \in Bad : n <= k PROVE FALSE
  BY SmallestNat
<1>3. PICK T \in SUBSET S, Q \in SUBSET R :
        Cardinality(T) = n /\ (\A x \in T : m[x] \in Q) /\ ~Good(T, Q)
  OBVIOUS
<1>4. IsFiniteSet(T) /\ IsFiniteSet(Q)
  BY FS_Subset
<1>5. SumFunctionOnSet(g, Q) \in Nat /\ SumFunctionOnSet(f, T) \in Int
  BY <1>4, SumIsNat, SumIsInt
<1>6. T # {}
  <2>1. SUFFICES ASSUME T = {} PROVE FALSE
    OBVIOUS
  <2>2. SumFunctionOnSet(f, T) = 0
    BY <1>4, <2>1, SumStep
  <2>3. d * SumFunctionOnSet(g, Q) \in Nat
    BY <1>5
  <2> QED BY <1>3, <2>2, <2>3
<1>7. PICK x \in T : TRUE
  BY <1>6
<1> DEFINE T2 == T \ {x}
           Q2 == Q \ {m[x]}
<1>8. T2 \in SUBSET S /\ Q2 \in SUBSET R /\ \A y \in T2 : m[y] \in Q2
  BY <1>3
<1>9. /\ SumFunctionOnSet(f, T) = f[x] + SumFunctionOnSet(f, T2)
      /\ SumFunctionOnSet(g, Q) = g[m[x]] + SumFunctionOnSet(g, Q2)
  <2>1. (\A y \in T : f[y] \in Int) /\ (\A y \in Q : g[y] \in Int)
    OBVIOUS
  <2>2. SumFunctionOnSet(f, T) = f[x] + SumFunctionOnSet(f, T \ {x})
    BY <1>4, <2>1, SumTakes
  <2>3. m[x] \in Q
    BY <1>3
  <2>4. SumFunctionOnSet(g, Q) = g[m[x]] + SumFunctionOnSet(g, Q \ {m[x]})
    BY <1>4, <2>1, <2>3, SumTakes
  <2> QED BY <2>2, <2>4
<1>10. Cardinality(T2) \in Nat /\ Cardinality(T2) = n - 1 /\ n \in Nat
  BY <1>3, <1>4, OneLess
<1> HIDE DEF T2, Q2
<1>11. Good(T2, Q2)
  <2> HIDE DEF Good
  <2> QED BY <1>2, <1>8, <1>10
<1>12. SumFunctionOnSet(g, Q2) \in Nat /\ SumFunctionOnSet(f, T2) \in Int
  <2> IsFiniteSet(T2) /\ IsFiniteSet(Q2)
    BY <1>8, FS_Subset
  <2> QED BY <1>8, SumIsNat, SumIsInt
<1>13. f[x] \in Int /\ g[m[x]] \in Nat /\ c * f[x] <= d * g[m[x]]
  BY <1>3
<1>14. /\ c * (f[x] + SumFunctionOnSet(f, T2)) = c * f[x] + c * SumFunctionOnSet(f, T2)
       /\ d * (g[m[x]] + SumFunctionOnSet(g, Q2)) = d * g[m[x]] + d * SumFunctionOnSet(g, Q2)
  <2>1. \A k, a, b \in Int : k * (a + b) = k * a + k * b
    OBVIOUS
  <2> QED BY <1>12, <1>13, <2>1
<1>15. /\ c * SumFunctionOnSet(f, T2) \in Int /\ c * f[x] \in Int
       /\ d * SumFunctionOnSet(g, Q2) \in Int /\ d * g[m[x]] \in Int
  BY <1>12, <1>13
<1>16. c * (f[x] + SumFunctionOnSet(f, T2)) <= d * (g[m[x]] + SumFunctionOnSet(g, Q2))
  BY <1>11, <1>13, <1>14, <1>15
<1> QED BY <1>3, <1>9, <1>16

-----------------------------------------------------------------------------
(* The plan *)

\* What a run may create orders for: the trades proposed when the group had the
\* quantities o and the broker the holdings h.
Allowed(o, h) == Proposed(Off(o), Sum, Total(Value(o)), h)

LEMMA TotalIsSum ==
  ASSUME NEW f
  PROVE  /\ f \in [Share -> Int] => Total(f) \in Int
         /\ f \in [Share -> Nat] => Total(f) \in Nat /\ \A s \in Share : f[s] <= Total(f)
<1>1. IsFiniteSet(Share)
  BY RebAssumption
<1>2. ASSUME f \in [Share -> Int] PROVE Total(f) \in Int
  BY <1>1, <1>2, SumIsInt DEF Total
<1>3. ASSUME f \in [Share -> Nat] PROVE Total(f) \in Nat
  BY <1>1, <1>3, SumIsNat DEF Total
<1>4. ASSUME f \in [Share -> Nat], NEW s \in Share PROVE f[s] <= Total(f)
  <2>1. Total(f) = f[s] + SumFunctionOnSet(f, Share \ {s})
    BY <1>1, <1>4, SumTakes DEF Total
  <2>2. IsFiniteSet(Share \ {s})
    BY <1>1, FS_RemoveElement
  <2>3. SumFunctionOnSet(f, Share \ {s}) \in Nat
    BY <1>4, <2>2, SumIsNat
  <2> QED BY <1>4, <2>1, <2>3
<1> QED BY <1>2, <1>3, <1>4

\* The weights sum up to more than nothing.
LEMMA WeightsFact ==
  ASSUME desk \in Desks
  PROVE  Weights \in [Share -> Nat] /\ Sum \in Nat \ {0}
<1>1. desk.weight \in [Share -> Nat \cup {NoWeight}]
  BY DeskAssumption DEF Desk
<1>2. Given \in [Share -> Nat]
  BY <1>1 DEF Given, Positive, NoWeight
<1>3. Total(Given) \in Nat
  BY <1>2, TotalIsSum
<1>4. Whole \in Nat \ {0} /\ Share # {} /\ Unweighted \subseteq Share /\ Cardinality(Unweighted) \in Nat
  BY RebAssumption, FS_Subset, FS_CardinalityType DEF Unweighted
<1> HIDE DEF Given, Unweighted
<1>5. CASE Total(Given) = 0
  <2>1. Weights = [s \in Share |-> 1]
    BY <1>5 DEF Weights
  <2>2. PICK s \in Share : TRUE
    BY <1>4
  <2>3. Weights \in [Share -> Nat] /\ Weights[s] = 1
    BY <2>1
  <2> QED BY <2>3, TotalIsSum DEF Sum
<1>6. CASE Total(Given) # 0 /\ (Total(Given) >= Whole \/ Unweighted = {})
  BY <1>2, <1>3, <1>6 DEF Weights, Sum
<1>7. CASE Total(Given) # 0 /\ ~(Total(Given) >= Whole \/ Unweighted = {})
  <2>1. Weights = [s \in Share |-> IF s \in Unweighted THEN Whole - Total(Given)
                                   ELSE Given[s] * Cardinality(Unweighted)]
    BY <1>7 DEF Weights
  <2>2. Whole - Total(Given) \in Nat \ {0}
    BY <1>3, <1>4, <1>7
  <2>3. PICK s \in Share : s \in Unweighted
    BY <1>4, <1>7
  <2>4. Weights[s] \in Nat \ {0}
    BY <2>1, <2>2, <2>3
  <2>5. ASSUME NEW r \in Share PROVE Given[r] * Cardinality(Unweighted) \in Nat
    BY <1>2, <1>4
  <2>6. Weights \in [Share -> Nat]
    BY <2>1, <2>2, <2>5
  <2> QED BY <2>4, <2>6, TotalIsSum DEF Sum
<1> QED BY <1>5, <1>6, <1>7

LEMMA OffIsInt ==
  ASSUME desk \in Desks, NEW o \in [Share -> Nat]
  PROVE  Off(o) \in [Share -> Int]
<1>1. Value(o) \in [Share -> Int]
  BY DeskAssumption DEF Desk, Value
<1>2. Total(Value(o)) \in Int
  BY <1>1, TotalIsSum
<1>3. Weights \in [Share -> Int] /\ Sum \in Int
  BY WeightsFact
<1> HIDE DEF Value
<1> QED BY <1>1, <1>2, <1>3 DEF Off

LEMMA Quotient ==
  ASSUME NEW n \in Nat, NEW d \in Nat, d # 0
  PROVE  n \div d \in Nat /\ d * (n \div d) <= n
OBVIOUS

LEMMA Products ==
  ASSUME NEW a \in Nat, NEW b \in Nat
  PROVE  a * b \in Nat /\ (a # 0 /\ b # 0 => a * b # 0) /\ a * b = b * a
OBVIOUS

LEMMA Monotone ==
  ASSUME NEW a \in Nat, NEW b \in Nat, NEW c \in Nat, a <= b
  PROVE  c * a <= c * b
OBVIOUS

LEMMA Cancel ==
  ASSUME NEW a \in Nat, NEW b \in Nat, NEW c \in Nat, c # 0, c * a <= c * b
  PROVE  a <= b
OBVIOUS

LEMMA Rearrange ==
  ASSUME NEW a \in Nat, NEW b \in Nat, NEW c \in Nat
  PROVE  a * (b * c) = (a * b) * c /\ a * (b * c) = b * (a * c) /\ (a * b) * c = (a * c) * b
OBVIOUS

\* A trade stays within what the member is off its target; within the share of the
\* budget if that is too small for all.
LEMMA SharesFit ==
  ASSUME desk \in Desks, NEW a \in Int, NEW turnover \in Nat, NEW sum \in Nat, sum # 0,
         NEW price \in Nat, price # 0
  PROVE  LET q == Shares(a, turnover, sum, price)
         IN  /\ q \in Nat /\ sum * (q * price) <= Abs(a)
             /\ desk.policy.budget * sum >= turnover
                \/ turnover * (q * price) <= desk.policy.budget * Abs(a)
<1> DEFINE q == Shares(a, turnover, sum, price)
           big == Abs(a)
           budget == desk.policy.budget
<1>1. big \in Nat
  BY DEF Abs
<1>2. budget \in Nat
  BY DeskAssumption DEF Desk, Policy
<1>3. CASE budget * sum >= turnover
  <2>1. q = big \div (sum * price)
    BY <1>3 DEF Shares
  <2> HIDE DEF q, big, budget
  <2>2. sum * price \in Nat /\ sum * price # 0
    BY Products
  <2>3. q \in Nat /\ (sum * price) * q <= big
    BY <1>1, <2>1, <2>2, Quotient
  <2>4. sum * (q * price) = (sum * price) * q
    BY <2>3, Rearrange
  <2>5. sum * (q * price) <= big
    BY <2>3, <2>4
  <2> QED BY <1>3, <2>3, <2>5 DEF q, big, budget
<1>4. CASE ~(budget * sum >= turnover)
  <2>1. q = (big * budget) \div (turnover * price)
    BY <1>4 DEF Shares
  <2> HIDE DEF q, big, budget
  <2>2. budget * sum \in Nat /\ turnover # 0
    BY <1>2, <1>4, Products
  <2>3. turnover * price \in Nat /\ turnover * price # 0 /\ big * budget \in Nat
    BY <1>1, <1>2, <2>2, Products
  <2>4. q \in Nat /\ (turnover * price) * q <= big * budget
    BY <2>1, <2>3, Quotient
  <2> DEFINE worth == q * price
  <2>5. worth \in Nat /\ turnover * worth = (turnover * price) * q /\ big * budget = budget * big
    BY <1>1, <1>2, <2>4, Products, Rearrange
  <2>6. turnover * worth <= budget * big
    BY <2>4, <2>5
  <2>7. sum * worth <= big
    <3> HIDE DEF worth
    <3>1. turnover * worth \in Nat /\ budget * big \in Nat /\ sum * worth \in Nat
      BY <1>1, <1>2, <2>5, Products
    <3>2. sum * (turnover * worth) <= sum * (budget * big)
      BY <2>6, <3>1, Monotone
    <3>3. /\ sum * (turnover * worth) = turnover * (sum * worth)
          /\ sum * (budget * big) = (budget * sum) * big /\ big * turnover = turnover * big
          /\ (budget * sum) * big = big * (budget * sum)
      BY <1>1, <1>2, <2>2, <2>5, Products, Rearrange
    <3>4. big * (budget * sum) <= big * turnover
      BY <1>1, <1>4, <2>2, Monotone
    <3>5. turnover * (sum * worth) <= turnover * big
      <4>1. turnover * (sum * worth) \in Nat /\ turnover * big \in Nat /\ big * (budget * sum) \in Nat
        BY <1>1, <2>2, <3>1, Products
      <4> QED BY <3>2, <3>3, <3>4, <4>1
    <3> QED BY <1>1, <2>2, <3>1, <3>5, Cancel
  <2> QED BY <2>4, <2>6, <2>7 DEF q, big, budget
<1> QED BY <1>3, <1>4

\* What a proposed trade is like: M are the members that move, turnover is what
\* they buy or sell, whichever is more, before it is scaled to the budget.
TradeFits(t, off, sum, stock, M, turnover) ==
  /\ t \in Trade /\ t.sym \in M /\ off[t.sym] # 0
  /\ t.side = IF off[t.sym] > 0 THEN "BUY" ELSE "SELL"
  /\ Notional(t) \in Nat /\ sum * Notional(t) <= Abs(off[t.sym])
  /\ \/ desk.policy.budget * sum >= turnover
     \/ turnover * Notional(t) <= desk.policy.budget * Abs(off[t.sym])
  /\ t.side = "SELL" => t.qty <= stock[t.sym]

LEMMA ProposedFit ==
  ASSUME desk \in Desks, NEW off \in [Share -> Int], NEW sum \in Nat, sum # 0,
         NEW whole, NEW stock \in [Share -> Nat]
  PROVE  \E M \in SUBSET Share, turnover \in Nat :
           /\ SumFunction([s \in M |-> Positive(off[s])]) <= turnover
           /\ SumFunction([s \in M |-> Positive(-off[s])]) <= turnover
           /\ \A t \in Proposed(off, sum, whole, stock) : TradeFits(t, off, sum, stock, M, turnover)
           /\ \A t, u \in Proposed(off, sum, whole, stock) : t.sym = u.sym => t = u
<1> DEFINE far(s) == /\ Abs(off[s]) * Whole >= desk.policy.band * sum * whole
                     /\ Abs(off[s]) * 100 >= desk.policy.rel * Weights[s] * whole
           M == {s \in Share : off[s] # 0 /\ desk.price[s] # 0 /\ far(s)}
           buys == SumFunction([s \in M |-> Positive(off[s])])
           sells == SumFunction([s \in M |-> Positive(-off[s])])
           turnover == Greater(buys, sells)
           shares == [s \in M |-> Shares(off[s], turnover, sum, desk.price[s])]
           qty(s) == IF off[s] < 0 /\ stock[s] < shares[s] THEN stock[s] ELSE shares[s]
           trade(s) == [sym |-> s, side |-> IF off[s] > 0 THEN "BUY" ELSE "SELL", qty |-> qty(s)]
<1>1. Proposed(off, sum, whole, stock) = {t \in {trade(s) : s \in M} : t.qty > 0 /\ Notional(t) >= desk.policy.least}
  BY DEF Proposed
<1>2. ASSUME NEW s \in M PROVE s \in Share /\ off[s] # 0 /\ desk.price[s] \in Nat /\ desk.price[s] # 0 /\ off[s] \in Int
  BY DeskAssumption DEF Desk
<1>3. M \in SUBSET Share /\ IsFiniteSet(M)
  BY RebAssumption, FS_Subset
<1> HIDE DEF M
<1>4. buys \in Nat /\ sells \in Nat
  <2>1. \A s \in M : [r \in M |-> Positive(off[r])][s] \in Nat /\ [r \in M |-> Positive(-off[r])][s] \in Nat
    BY <1>2 DEF Positive
  <2>2. /\ SumFunctionOnSet([r \in M |-> Positive(off[r])], M) \in Nat
        /\ SumFunctionOnSet([r \in M |-> Positive(-off[r])], M) \in Nat
    BY <1>3, <2>1, SumIsNat
  <2> QED BY <2>2 DEF SumFunction
<1> HIDE DEF buys, sells
<1>5. turnover \in Nat /\ buys <= turnover /\ sells <= turnover
  BY <1>4 DEF Greater
<1> HIDE DEF turnover
<1>6. ASSUME NEW s \in M
      PROVE  /\ shares[s] \in Nat /\ sum * (shares[s] * desk.price[s]) <= Abs(off[s])
             /\ desk.policy.budget * sum >= turnover
                \/ turnover * (shares[s] * desk.price[s]) <= desk.policy.budget * Abs(off[s])
  <2>1. shares[s] = Shares(off[s], turnover, sum, desk.price[s])
    OBVIOUS
  <2> DEFINE price == desk.price[s]
             a == off[s]
  <2>2. price \in Nat /\ price # 0 /\ a \in Int
    BY <1>2
  <2> HIDE DEF shares, price, a
  <2>3. LET q == Shares(a, turnover, sum, price)
        IN  /\ q \in Nat /\ sum * (q * price) <= Abs(a)
            /\ desk.policy.budget * sum >= turnover
               \/ turnover * (q * price) <= desk.policy.budget * Abs(a)
    BY <1>5, <2>2, SharesFit
  <2> QED BY <2>1, <2>3 DEF price, a
<1> HIDE DEF shares
<1>7. ASSUME NEW s \in M, qty(s) > 0
      PROVE  TradeFits(trade(s), off, sum, stock, M, turnover)
  <2>1. qty(s) \in Nat /\ qty(s) <= shares[s] /\ (off[s] < 0 => qty(s) <= stock[s])
    BY <1>2, <1>6
  <2> DEFINE price == desk.price[s]
  <2>2. price \in Nat
    BY <1>2
  <2> HIDE DEF qty, price
  <2>3. price * qty(s) <= price * shares[s] /\ qty(s) * price = price * qty(s) /\ shares[s] * price = price * shares[s]
    BY <1>6, <2>1, <2>2, Monotone, Products
  <2>4. qty(s) * price \in Nat /\ shares[s] * price \in Nat
    BY <1>6, <2>1, <2>2, Products
  <2>5. qty(s) * price <= shares[s] * price
    BY <2>3
  <2>6. /\ sum * (qty(s) * price) <= sum * (shares[s] * price)
        /\ turnover * (qty(s) * price) <= turnover * (shares[s] * price)
    BY <1>5, <2>4, <2>5, Monotone
  <2>7. /\ sum * (qty(s) * price) \in Nat /\ sum * (shares[s] * price) \in Nat
        /\ turnover * (qty(s) * price) \in Nat /\ turnover * (shares[s] * price) \in Nat
    BY <1>5, <2>4, Products
  <2>8. Notional(trade(s)) = qty(s) * price
    BY DEF Notional, price
  <2>9. Abs(off[s]) \in Nat /\ desk.policy.budget \in Nat
    BY <1>2, DeskAssumption DEF Abs, Desk, Policy
  <2>10. desk.policy.budget * Abs(off[s]) \in Nat
    BY <2>9, Products
  <2>11. /\ sum * Notional(trade(s)) <= Abs(off[s])
         /\ \/ desk.policy.budget * sum >= turnover
            \/ turnover * Notional(trade(s)) <= desk.policy.budget * Abs(off[s])
    BY <1>6, <2>6, <2>7, <2>8, <2>9, <2>10 DEF price
  <2>12. trade(s) \in Trade
    BY <1>2, <1>7, <2>1 DEF Trade
  <2>13. /\ trade(s).sym = s /\ trade(s).side = IF off[s] > 0 THEN "BUY" ELSE "SELL"
         /\ trade(s).side = "SELL" => trade(s).qty <= stock[s]
    BY <1>2, <2>1
  <2> HIDE DEF trade
  <2> QED BY <1>2, <2>4, <2>8, <2>11, <2>12, <2>13 DEF TradeFits
<1>8. \A t \in Proposed(off, sum, whole, stock) : \E s \in M : t = trade(s) /\ qty(s) > 0
  BY <1>1
<1>9. \A s, r \in M : trade(s).sym = trade(r).sym => s = r
  OBVIOUS
<1> HIDE DEF trade, qty
<1>10. \A t \in Proposed(off, sum, whole, stock) : TradeFits(t, off, sum, stock, M, turnover)
  BY <1>7, <1>8
<1>11. \A t, u \in Proposed(off, sum, whole, stock) : t.sym = u.sym => t = u
  BY <1>8, <1>9
<1> QED BY <1>3, <1>5, <1>10, <1>11 DEF buys, sells

LEMMA OneEach ==
  ASSUME desk \in Desks, NEW off \in [Share -> Int], NEW sum \in Nat, sum # 0,
         NEW whole, NEW stock \in [Share -> Nat]
  PROVE  \A t, u \in Proposed(off, sum, whole, stock) : t.sym = u.sym => t = u
<1>1. PICK M \in SUBSET Share, turnover \in Nat :
        /\ SumFunction([s \in M |-> Positive(off[s])]) <= turnover
        /\ SumFunction([s \in M |-> Positive(-off[s])]) <= turnover
        /\ \A t \in Proposed(off, sum, whole, stock) : TradeFits(t, off, sum, stock, M, turnover)
        /\ \A t, u \in Proposed(off, sum, whole, stock) : t.sym = u.sym => t = u
  BY ProposedFit
<1> QED BY <1>1

\* The trades of one side, each at most once, fit the budget.
LEMMA WithinBudget ==
  ASSUME desk \in Desks, NEW o \in [Share -> Nat], NEW h \in [Share -> Nat],
         NEW S, IsFiniteSet(S), NEW b, NEW side \in {"BUY", "SELL"},
         \A i \in S : b[i] \in Allowed(o, h) /\ b[i].side = side,
         \A i, j \in S : b[i] = b[j] => i = j
  PROVE  SumFunction([i \in S |-> Notional(b[i])]) <= desk.policy.budget
<1>1. Off(o) \in [Share -> Int] /\ Sum \in Nat /\ Sum # 0
  BY OffIsInt, WeightsFact
<1>2. PICK off : off = Off(o)
  OBVIOUS
<1>3. PICK sum : sum = Sum
  OBVIOUS
<1>4. PICK budget : budget = desk.policy.budget
  OBVIOUS
<1>5. off \in [Share -> Int] /\ sum \in Nat /\ sum # 0 /\ budget \in Nat
  BY <1>1, <1>2, <1>3, <1>4, DeskAssumption DEF Desk, Policy
<1>6. PICK trades : trades = Allowed(o, h)
  OBVIOUS
<1>7. PICK M \in SUBSET Share, turnover \in Nat :
        /\ SumFunction([s \in M |-> Positive(off[s])]) <= turnover
        /\ SumFunction([s \in M |-> Positive(-off[s])]) <= turnover
        /\ \A t \in trades : TradeFits(t, off, sum, h, M, turnover)
        /\ \A t, u \in trades : t.sym = u.sym => t = u
  <2>1. PICK whole : whole = Total(Value(o))
    OBVIOUS
  <2>2. trades = Proposed(off, sum, whole, h)
    BY <1>2, <1>3, <1>6, <2>1 DEF Allowed
  <2> QED BY <1>5, <2>2, ProposedFit
<1> DEFINE g == [s \in M |-> IF side = "BUY" THEN Positive(off[s]) ELSE Positive(-off[s])]
           f == [i \in S |-> Notional(b[i])]
           m == [i \in S |-> b[i].sym]
<1>8. IsFiniteSet(M)
  BY RebAssumption, FS_Subset
<1>9. \A s \in M : g[s] \in Nat
  BY <1>5 DEF Positive
<1>10. SumFunctionOnSet(g, M) \in Nat /\ SumFunctionOnSet(g, M) <= turnover
  <2>1. SumFunctionOnSet(g, M) \in Nat
    <3> HIDE DEF g
    <3> QED BY <1>8, <1>9, SumIsNat
  <2>2. g = [s \in M |-> Positive(off[s])] \/ g = [s \in M |-> Positive(-off[s])]
    OBVIOUS
  <2>3. DOMAIN g = M
    OBVIOUS
  <2> HIDE DEF g
  <2>4. SumFunction(g) <= turnover
    BY <1>7, <2>2
  <2> QED BY <2>1, <2>3, <2>4 DEF SumFunction
<1>11. ASSUME NEW i \in S
       PROVE  /\ f[i] \in Nat /\ m[i] \in M
              /\ sum * f[i] <= g[m[i]]
              /\ budget * sum >= turnover \/ turnover * f[i] <= budget * g[m[i]]
  <2>1. b[i] \in trades /\ b[i].side = side
    BY <1>6
  <2>2. TradeFits(b[i], off, sum, h, M, turnover)
    BY <1>7, <2>1
  <2>3. /\ b[i].sym \in M /\ off[b[i].sym] # 0 /\ off[b[i].sym] \in Int
        /\ side = IF off[b[i].sym] > 0 THEN "BUY" ELSE "SELL"
        /\ Notional(b[i]) \in Nat /\ sum * Notional(b[i]) <= Abs(off[b[i].sym])
        /\ budget * sum >= turnover \/ turnover * Notional(b[i]) <= budget * Abs(off[b[i].sym])
    BY <1>4, <1>5, <2>1, <2>2 DEF TradeFits
  <2>4. g[b[i].sym] = Abs(off[b[i].sym])
    BY <2>3 DEF Positive, Abs
  <2>5. f[i] = Notional(b[i]) /\ m[i] = b[i].sym
    OBVIOUS
  <2> HIDE DEF f, g, m
  <2> QED BY <2>3, <2>4, <2>5
<1>12. \A i, j \in S : m[i] = m[j] => i = j
  BY <1>6, <1>7
<1>13. SumFunction(f) = SumFunctionOnSet(f, S)
  BY DEF SumFunction
<1> HIDE DEF f, g, m
<1>14. SumFunctionOnSet(f, S) \in Nat
  BY <1>11, SumIsNat
<1>15. CASE budget * sum >= turnover
  <2>1. \A i \in S : f[i] \in Int /\ m[i] \in M /\ sum * f[i] <= 1 * g[m[i]]
    BY <1>9, <1>11
  <2>2. sum * SumFunctionOnSet(f, S) <= 1 * SumFunctionOnSet(g, M)
    BY <1>5, <1>8, <1>9, <1>12, <2>1, SumInjects
  <2>3. sum * SumFunctionOnSet(f, S) \in Nat /\ sum * budget \in Nat /\ sum * budget = budget * sum
    BY <1>5, <1>14, Products
  <2>4. sum * SumFunctionOnSet(f, S) <= sum * budget
    BY <1>10, <1>15, <2>2, <2>3
  <2>5. SumFunctionOnSet(f, S) <= budget
    BY <1>5, <1>14, <2>4, Cancel
  <2> QED BY <1>4, <1>13, <2>5 DEF f
<1>16. CASE ~(budget * sum >= turnover)
  <2>1. \A i \in S : f[i] \in Int /\ m[i] \in M /\ turnover * f[i] <= budget * g[m[i]]
    BY <1>11, <1>16
  <2>2. turnover * SumFunctionOnSet(f, S) <= budget * SumFunctionOnSet(g, M)
    BY <1>5, <1>8, <1>9, <1>12, <2>1, SumInjects
  <2>3. budget * SumFunctionOnSet(g, M) <= budget * turnover
    BY <1>5, <1>10, Monotone
  <2>4. /\ turnover * SumFunctionOnSet(f, S) \in Nat /\ budget * SumFunctionOnSet(g, M) \in Nat
        /\ budget * turnover \in Nat /\ budget * turnover = turnover * budget
        /\ budget * sum \in Nat
    BY <1>5, <1>10, <1>14, Products
  <2>5. turnover * SumFunctionOnSet(f, S) <= turnover * budget /\ turnover # 0
    BY <1>16, <2>2, <2>3, <2>4
  <2>6. SumFunctionOnSet(f, S) <= budget
    BY <1>5, <1>14, <2>5, Cancel
  <2> QED BY <1>4, <1>13, <2>6 DEF f
<1> QED BY <1>5, <1>15, <1>16

-----------------------------------------------------------------------------
(* The inductive invariant                                                    *)

Quantities == [Share -> Nat]
Row == [status : {"none", "CREATED", "EXECUTED", "FAILED"}, own : Quantities, held : Quantities]
Bid == [key : RunKey, trade : Trade, done : BOOLEAN]
RebTyped ==
  /\ desk \in Desks /\ held \in Quantities /\ own \in Quantities
  /\ runs \in [RunKey -> Row]
  /\ clerk \in [Clerk -> [pc : {"idle", "plan", "run", "trade"}, key : SUBSET RunKey,
                          trades : SUBSET Trade, run : Row]]
  /\ bids \in Seq(Bid)

\* The trades allowed to each run.
Allowance == [run \in Row |-> Allowed(run.own, run.held)]

Trading(c, k) == clerk[c].pc = "trade" /\ clerk[c].key = {k}

\* What is bid under a key is allowed to its run, and what its request has still
\* to bid is too and was not bid yet.  One request trades for a key.
KeyInv ==
  /\ RebTyped
  /\ \A i \in 1..Len(bids) :
       /\ runs[bids[i].key].status # "none"
       /\ bids[i].trade \in Allowance[runs[bids[i].key]]
  /\ \A i, j \in 1..Len(bids) : i # j /\ bids[i].key = bids[j].key => bids[i].trade # bids[j].trade
  /\ \A c \in Clerk : clerk[c].pc = "run" =>
       clerk[c].run.status = "CREATED" /\ clerk[c].trades \subseteq Allowance[clerk[c].run]
  /\ \A c \in Clerk, k \in RunKey : Trading(c, k) =>
       /\ runs[k].status # "none" /\ clerk[c].trades \subseteq Allowance[runs[k]]
       /\ \A i \in 1..Len(bids) : bids[i].key = k => bids[i].trade \notin clerk[c].trades
  /\ \A c, d \in Clerk, k \in RunKey : Trading(c, k) /\ Trading(d, k) => c = d

LEMMA AllowanceStays ==
  ASSUME desk' = desk
  PROVE  Allowance' = Allowance
<1>1. Weights' = Weights /\ Sum' = Sum
  BY DEF Weights, Given, Unweighted, Sum
<1>2. ASSUME NEW run \in Row
      PROVE  Allowed(run.own, run.held)' = Allowed(run.own, run.held)
  <2>1. Value(run.own)' = Value(run.own)
    BY DEF Value
  <2>2. Off(run.own)' = Off(run.own)
    BY <1>1, <2>1 DEF Off
  <2> QED BY <1>1, <2>1, <2>2 DEF Allowed, Proposed, Shares, Notional
<1> QED BY <1>2 DEF Allowance

LEMMA AllowedFits ==
  ASSUME desk \in Desks, NEW run \in Row
  PROVE  /\ Allowance[run] = Allowed(run.own, run.held)
         /\ Allowance[run] \subseteq Trade
<1>1. run.own \in Quantities /\ run.held \in Quantities
  BY DEF Row
<1>2. Allowance[run] = Allowed(run.own, run.held)
  BY <1>1 DEF Allowance
<1>3. Off(run.own) \in [Share -> Int] /\ Sum \in Nat /\ Sum # 0
  BY <1>1, OffIsInt, WeightsFact DEF Quantities
<1>4. PICK off \in [Share -> Int], sum \in Nat, whole \in {Total(Value(run.own))} : off = Off(run.own) /\ sum = Sum /\ sum # 0
  BY <1>3
<1>5. Allowed(run.own, run.held) = Proposed(off, sum, whole, run.held)
  BY <1>4 DEF Allowed
<1>6. \A t \in Proposed(off, sum, whole, run.held) : t \in Trade
  BY <1>1, <1>4, ProposedFit DEF TradeFits, Quantities
<1> QED BY <1>2, <1>5, <1>6

\* A run keeps what it allows when only its status changes.
LEMMA StatusOnly ==
  ASSUME NEW run \in Row, NEW status \in {"none", "CREATED", "EXECUTED", "FAILED"}
  PROVE  /\ [run EXCEPT !.status = status] \in Row
         /\ Allowance[[run EXCEPT !.status = status]] = Allowance[run]
<1>1. /\ [run EXCEPT !.status = status] \in Row
      /\ [run EXCEPT !.status = status].own = run.own /\ [run EXCEPT !.status = status].held = run.held
  BY DEF Row
<1>2. \A r \in Row : Allowance[r] = Allowed(r.own, r.held)
  BY DEF Allowance
<1> DEFINE next == [run EXCEPT !.status = status]
<1>3. next \in Row /\ next.own = run.own /\ next.held = run.held
  BY <1>1
<1> HIDE DEF next
<1>4. Allowance[next] = Allowance[run]
  BY <1>2, <1>3
<1> QED BY <1>3, <1>4 DEF next

\* The frame: what no step of the requests but a trade, and no step at all, touches.
LEMMA DeskStays ==
  ASSUME RebNext
  PROVE  desk' = desk
BY DEF RebNext, RebRequest, RebPlan, RebRun, RebTrade, RebDone, RebFails, BidFills, DeskOnly

LEMMA EachBid ==
  ASSUME RebTyped
  PROVE  Len(bids) \in Nat /\ \A i \in 1..Len(bids) : bids[i] \in Bid
<1>1. \A S : \A q \in Seq(S) : Len(q) \in Nat /\ \A i \in 1..Len(q) : q[i] \in S
  OBVIOUS
<1>2. bids \in Seq(Bid)
  BY DEF RebTyped
<1> QED BY <1>1, <1>2, Zenon

LEMMA KeyInvInit == RebInit => KeyInv
<1> SUFFICES ASSUME RebInit PROVE KeyInv
  OBVIOUS
<1>1. NoRun \in Row /\ held \in Quantities /\ own \in Quantities /\ desk \in Desks
  BY DeskAssumption DEF RebInit, NoRun, Row, Quantities, Desk
<1>2. RebTyped
  BY <1>1 DEF RebTyped, RebInit, NoClerk
<1>3. Len(bids) = 0 /\ \A c \in Clerk : clerk[c].pc = "idle"
  BY DEF RebInit, NoClerk
<1> QED BY <1>2, <1>3 DEF KeyInv, Trading

\* A step of one clerk that bids nothing: the others stay what they are, and so do
\* the runs, but for the status of those that have bids, and for new runs.
LEMMA ClerkSteps ==
  ASSUME KeyInv, NEW c \in Clerk, NEW new, UNCHANGED <<desk, held, own, bids>>,
         clerk' = [clerk EXCEPT ![c] = new],
         new \in [pc : {"idle", "plan", "run"}, key : SUBSET RunKey, trades : SUBSET Trade, run : Row],
         new.pc = "run" => new.run.status = "CREATED" /\ new.trades \subseteq Allowance[new.run],
         runs' \in [RunKey -> Row],
         \A k \in RunKey : runs[k].status # "none"
                           => runs'[k].status # "none" /\ Allowance[runs'[k]] = Allowance[runs[k]]
  PROVE  KeyInv'
<1>1. Allowance' = Allowance
  BY AllowanceStays
<1>2. RebTyped'
  BY DEF KeyInv, RebTyped
<1>3. clerk'[c] = new /\ \A d \in Clerk : d # c => clerk'[d] = clerk[d]
  BY DEF KeyInv, RebTyped
<1>4. \A d \in Clerk, k \in RunKey : Trading(d, k)' => d # c /\ Trading(d, k)
  BY <1>3 DEF Trading
<1>5. \A i \in 1..Len(bids) : bids[i].key \in RunKey
  BY EachBid DEF KeyInv, Bid
<1>6. ASSUME NEW i \in 1..Len(bids')
      PROVE  (/\ runs[bids[i].key].status # "none" /\ bids[i].trade \in Allowance[runs[bids[i].key]])'
  BY <1>1, <1>5, <1>6 DEF KeyInv
<1>7. ASSUME NEW d \in Clerk
      PROVE  (clerk[d].pc = "run" => clerk[d].run.status = "CREATED" /\ clerk[d].trades \subseteq Allowance[clerk[d].run])'
  BY <1>1, <1>3 DEF KeyInv
<1>8. ASSUME NEW d \in Clerk, NEW k \in RunKey, Trading(d, k)'
      PROVE  (/\ runs[k].status # "none" /\ clerk[d].trades \subseteq Allowance[runs[k]]
              /\ \A i \in 1..Len(bids) : bids[i].key = k => bids[i].trade \notin clerk[d].trades)'
  BY <1>1, <1>3, <1>4, <1>8 DEF KeyInv
<1>9. \A d, e \in Clerk, k \in RunKey : Trading(d, k)' /\ Trading(e, k)' => d = e
  BY <1>4 DEF KeyInv
<1>10. (\A i, j \in 1..Len(bids) : i # j /\ bids[i].key = bids[j].key => bids[i].trade # bids[j].trade)'
  BY DEF KeyInv
<1> QED BY <1>2, <1>6, <1>7, <1>8, <1>9, <1>10 DEF KeyInv

LEMMA NoClerkType ==
  NoClerk \in [pc : {"idle", "plan", "run"}, key : SUBSET RunKey, trades : SUBSET Trade, run : Row]
BY DEF NoClerk, NoRun, Row, Quantities

LEMMA RequestKeeps ==
  ASSUME KeyInv, NEW c \in Clerk, NEW k \in RunKey, RebRequest(c, k)
  PROVE  KeyInv'
<1>1. UNCHANGED <<desk, held, own, bids, runs>> /\ runs \in [RunKey -> Row]
  BY DEF RebRequest, DeskOnly, KeyInv, RebTyped
<1>2. CASE clerk' = clerk
  <2>1. Allowance' = Allowance
    BY <1>1, AllowanceStays
  <2> QED BY <1>1, <1>2, <2>1 DEF KeyInv, RebTyped, Trading
<1>3. CASE clerk' = [clerk EXCEPT ![c] = [NoClerk EXCEPT !.pc = "plan", !.key = {k}]]
  <2> DEFINE new == [NoClerk EXCEPT !.pc = "plan", !.key = {k}]
  <2>1. /\ new \in [pc : {"idle", "plan", "run"}, key : SUBSET RunKey, trades : SUBSET Trade, run : Row]
        /\ new.pc # "run"
    BY NoClerkType DEF NoClerk
  <2> HIDE DEF new
  <2>2. clerk' = [clerk EXCEPT ![c] = new]
    BY <1>3 DEF new
  <2> QED BY <1>1, <2>1, <2>2, ClerkSteps
<1> QED BY <1>2, <1>3 DEF RebRequest

\* The plan is made of the group's and the broker's quantities of now.
LEMMA PlanKeeps ==
  ASSUME KeyInv, NEW c \in Clerk, RebPlan(c)
  PROVE  KeyInv'
<1>1. UNCHANGED <<desk, held, own, bids, runs>> /\ runs \in [RunKey -> Row] /\ desk \in Desks
  BY DEF RebPlan, DeskOnly, KeyInv, RebTyped
<1>2. CASE clerk' = [clerk EXCEPT ![c] = NoClerk]
  <2>1. NoClerk.pc # "run"
    BY DEF NoClerk
  <2> QED BY <1>1, <1>2, <2>1, NoClerkType, ClerkSteps
<1>3. CASE clerk' # [clerk EXCEPT ![c] = NoClerk]
  <2>1. PICK off \in {Off(own)}, whole \in {Total(Value(own))} :
          \E T \in Plan(Proposed(off, Sum, whole, held)) :
            clerk' = [clerk EXCEPT ![c].pc = "run", ![c].trades = T,
                        ![c].run = [status |-> "CREATED", own |-> own, held |-> held]]
    BY <1>3 DEF RebPlan
  <2>2. PICK T \in Plan(Proposed(off, Sum, whole, held)) :
            clerk' = [clerk EXCEPT ![c].pc = "run", ![c].trades = T,
                        ![c].run = [status |-> "CREATED", own |-> own, held |-> held]]
    BY <2>1
  <2> DEFINE run == [status |-> "CREATED", own |-> own, held |-> held]
             new == [clerk[c] EXCEPT !.pc = "run", !.trades = T, !.run = run]
  <2>3. run \in Row /\ run.own = own /\ run.held = held
    BY DEF KeyInv, RebTyped, Row
  <2> HIDE DEF run
  <2>4. T \subseteq Proposed(off, Sum, whole, held)
    BY <2>2 DEF Plan
  <2>5. Proposed(off, Sum, whole, held) = Allowed(run.own, run.held)
    BY <2>1, <2>3 DEF Allowed
  <2>6. Allowance[run] = Allowed(run.own, run.held) /\ Allowance[run] \subseteq Trade
    BY <1>1, <2>3, AllowedFits
  <2>7. T \subseteq Allowance[run] /\ T \subseteq Trade
    BY <2>4, <2>5, <2>6
  <2>8. /\ new \in [pc : {"idle", "plan", "run"}, key : SUBSET RunKey, trades : SUBSET Trade, run : Row]
        /\ new.run = run /\ new.trades = T
    BY <2>3, <2>7 DEF KeyInv, RebTyped
  <2>9. clerk' = [clerk EXCEPT ![c] = new]
    BY <2>2 DEF KeyInv, RebTyped, run
  <2>10. run.status = "CREATED"
    BY DEF run
  <2> HIDE DEF new
  <2> QED BY <1>1, <2>7, <2>8, <2>9, <2>10, ClerkSteps
<1> QED BY <1>2, <1>3

\* The run of a key is stored, and what it allows is what was planned.
LEMMA RunKeeps ==
  ASSUME KeyInv, NEW c \in Clerk, NEW k \in RunKey, RebRun(c, k)
  PROVE  KeyInv'
<1>1. /\ UNCHANGED <<desk, held, own, bids>> /\ runs \in [RunKey -> Row]
      /\ clerk[c].pc = "run" /\ clerk[c].key = {k}
  BY DEF RebRun, DeskOnly, KeyInv, RebTyped
<1>2. CASE runs[k].status # "none"
  <2>1. runs' = runs /\ clerk' = [clerk EXCEPT ![c] = NoClerk] /\ NoClerk.pc # "run"
    BY <1>2 DEF RebRun, NoClerk
  <2> QED BY <1>1, <2>1, NoClerkType, ClerkSteps
<1>3. CASE runs[k].status = "none"
  <2>1. runs' = [runs EXCEPT ![k] = clerk[c].run] /\ clerk' = [clerk EXCEPT ![c].pc = "trade"]
    BY <1>3 DEF RebRun
  <2>2. /\ clerk[c].run \in Row /\ clerk[c].run.status = "CREATED"
        /\ clerk[c].trades \subseteq Allowance[clerk[c].run]
    BY <1>1 DEF KeyInv, RebTyped
  <2>3. /\ runs'[k] = clerk[c].run /\ runs' \in [RunKey -> Row]
        /\ \A l \in RunKey : l # k => runs'[l] = runs[l]
    BY <1>1, <2>1, <2>2
  <2>4. /\ clerk'[c] = [clerk[c] EXCEPT !.pc = "trade"]
        /\ \A d \in Clerk : d # c => clerk'[d] = clerk[d]
    BY <2>1 DEF KeyInv, RebTyped
  <2>5. /\ clerk'[c].pc = "trade" /\ clerk'[c].key = {k} /\ clerk'[c].trades = clerk[c].trades
        /\ clerk'[c].run = clerk[c].run
    BY <1>1, <2>4 DEF KeyInv, RebTyped
  <2>6. RebTyped'
    BY SMTT(30), <1>1, <2>1, <2>3 DEF KeyInv, RebTyped
  <2>7. Allowance' = Allowance
    BY <1>1, AllowanceStays
  <2>8. \A i \in 1..Len(bids) : bids[i].key \in RunKey /\ bids[i].key # k
    BY <1>3, EachBid DEF KeyInv, Bid
  <2>9. \A d \in Clerk, l \in RunKey : Trading(d, l)' => (d = c /\ l = k) \/ (d # c /\ l # k /\ Trading(d, l))
    <3>1. \A d \in Clerk : ~Trading(d, k)
      BY <1>3 DEF KeyInv
    <3> TAKE d \in Clerk, l \in RunKey
    <3>2. CASE d = c
      BY <2>5, <3>2 DEF Trading
    <3>3. CASE d # c
      <4>1. Trading(d, l)' = Trading(d, l)
        BY <2>4, <3>3 DEF Trading
      <4> QED BY <3>1, <3>3, <4>1
    <3> QED BY <3>2, <3>3
  <2>10. ASSUME NEW i \in 1..Len(bids')
         PROVE  (runs[bids[i].key].status # "none" /\ bids[i].trade \in Allowance[runs[bids[i].key]])'
    BY <1>1, <2>3, <2>7, <2>8 DEF KeyInv
  <2>11. ASSUME NEW d \in Clerk
         PROVE  (clerk[d].pc = "run" => clerk[d].run.status = "CREATED" /\ clerk[d].trades \subseteq Allowance[clerk[d].run])'
    BY <2>4, <2>5, <2>7 DEF KeyInv
  <2>12. ASSUME NEW d \in Clerk, NEW l \in RunKey, Trading(d, l)'
         PROVE  (/\ runs[l].status # "none" /\ clerk[d].trades \subseteq Allowance[runs[l]]
                 /\ \A i \in 1..Len(bids) : bids[i].key = l => bids[i].trade \notin clerk[d].trades)'
    <3>1. CASE d = c /\ l = k
      BY <1>1, <2>2, <2>3, <2>5, <2>7, <2>8, <3>1
    <3>2. CASE d # c /\ l # k /\ Trading(d, l)
      BY <1>1, <2>3, <2>4, <2>7, <3>2 DEF KeyInv
    <3> QED BY <2>9, <2>12, <3>1, <3>2
  <2>13. \A d, e \in Clerk, l \in RunKey : Trading(d, l)' /\ Trading(e, l)' => d = e
    BY <2>9 DEF KeyInv
  <2>14. (\A i, j \in 1..Len(bids) : i # j /\ bids[i].key = bids[j].key => bids[i].trade # bids[j].trade)'
    BY <1>1 DEF KeyInv
  <2> QED BY <2>6, <2>10, <2>11, <2>12, <2>13, <2>14 DEF KeyInv
<1> QED BY <1>2, <1>3

\* What is bid is taken off what the request has still to bid.
LEMMA TradeKeeps ==
  ASSUME KeyInv, NEW c \in Clerk, NEW k \in RunKey, NEW t \in clerk[c].trades, RebTrade(c, k, t)
  PROVE  KeyInv'
<1> DEFINE bid == [key |-> k, trade |-> t, done |-> FALSE]
           n == Len(bids)
<1>1. /\ UNCHANGED <<desk, held, own, runs>> /\ Trading(c, k)
      /\ bids' = Append(bids, bid) /\ clerk' = [clerk EXCEPT ![c].trades = @ \ {t}]
  BY DEF RebTrade, DeskOnly, Trading
<1>2. /\ clerk[c].trades \subseteq Trade /\ clerk[c].trades \subseteq Allowance[runs[k]]
      /\ runs[k].status # "none"
      /\ \A i \in 1..Len(bids) : bids[i].key = k => bids[i].trade \notin clerk[c].trades
  BY <1>1 DEF KeyInv, RebTyped
<1>3. bid \in Bid /\ bid.key = k /\ bid.trade = t
  BY <1>2 DEF Bid
<1> HIDE DEF bid
<1>4. /\ bids' \in Seq(Bid) /\ n \in Nat /\ Len(bids') = n + 1 /\ bids'[n + 1] = bid
      /\ \A i \in 1..n : bids'[i] = bids[i] /\ bids[i] \in Bid
  <2>1. /\ bids \in Seq(Bid) /\ n \in Nat /\ \A i \in 1..n : bids[i] \in Bid
    BY EachBid DEF KeyInv, RebTyped
  <2>2. bids' \in Seq(Bid) /\ Len(bids') = n + 1
    BY <1>1, <1>3, <2>1, AppendProperties
  <2>3. bids'[n + 1] = bid /\ \A i \in 1..n : bids'[i] = bids[i]
    BY <1>1, <1>3, <2>1, AppendProperties
  <2> QED BY <2>1, <2>2, <2>3
<1>5. \A i \in 1..Len(bids') : i \in 1..n \/ i = n + 1
  BY <1>4
<1>6. /\ clerk'[c] = [clerk[c] EXCEPT !.trades = @ \ {t}]
      /\ \A d \in Clerk : d # c => clerk'[d] = clerk[d]
  BY <1>1 DEF KeyInv, RebTyped
<1>7. /\ clerk'[c].pc = clerk[c].pc /\ clerk'[c].key = clerk[c].key
      /\ clerk'[c].trades = clerk[c].trades \ {t} /\ clerk'[c].run = clerk[c].run
  BY <1>6 DEF KeyInv, RebTyped
<1>8. RebTyped'
  BY SMTT(30), <1>1, <1>2, <1>4 DEF KeyInv, RebTyped
<1>9. Allowance' = Allowance
  BY <1>1, AllowanceStays
<1> HIDE DEF n
<1>10. \A d \in Clerk, l \in RunKey : Trading(d, l)' => Trading(d, l)
  BY <1>6, <1>7 DEF Trading
<1>11. ASSUME NEW i \in 1..Len(bids')
       PROVE  (runs[bids[i].key].status # "none" /\ bids[i].trade \in Allowance[runs[bids[i].key]])'
  <2>1. CASE i \in 1..n
    BY <1>1, <1>4, <1>9, <2>1 DEF KeyInv, n
  <2>2. CASE i = n + 1
    BY <1>1, <1>2, <1>3, <1>4, <1>9, <2>2
  <2> QED BY <1>5, <2>1, <2>2
<1>12. ASSUME NEW i \in 1..Len(bids'), NEW j \in 1..Len(bids'), i # j, bids'[i].key = bids'[j].key
       PROVE  bids'[i].trade # bids'[j].trade
  <2>1. CASE i \in 1..n /\ j \in 1..n
    BY <1>4, <1>12, <2>1 DEF KeyInv, n
  <2>2. CASE i \in 1..n /\ j = n + 1
    BY <1>2, <1>3, <1>4, <1>12, <2>2 DEF n
  <2>3. CASE i = n + 1 /\ j \in 1..n
    BY <1>2, <1>3, <1>4, <1>12, <2>3 DEF n
  <2> QED BY <1>5, <1>12, <2>1, <2>2, <2>3
<1>13. ASSUME NEW d \in Clerk
       PROVE  (clerk[d].pc = "run" => clerk[d].run.status = "CREATED" /\ clerk[d].trades \subseteq Allowance[clerk[d].run])'
  <2>1. clerk[c].pc # "run"
    BY <1>1 DEF Trading
  <2> QED BY <1>6, <1>7, <1>9, <2>1 DEF KeyInv
<1>14. ASSUME NEW d \in Clerk, NEW l \in RunKey, Trading(d, l)'
       PROVE  (/\ runs[l].status # "none" /\ clerk[d].trades \subseteq Allowance[runs[l]]
               /\ \A i \in 1..Len(bids) : bids[i].key = l => bids[i].trade \notin clerk[d].trades)'
  <2>1. Trading(d, l)
    BY <1>10, <1>14
  <2>2. clerk'[d].trades \subseteq clerk[d].trades
    BY <1>6, <1>7
  <2>3. runs[l].status # "none" /\ clerk[d].trades \subseteq Allowance[runs[l]]
    BY <2>1 DEF KeyInv
  <2>4. ASSUME NEW i \in 1..Len(bids'), bids'[i].key = l
        PROVE  bids'[i].trade \notin clerk'[d].trades
    <3>1. CASE i \in 1..n
      BY <1>4, <2>1, <2>2, <2>4, <3>1 DEF KeyInv, n
    <3>2. CASE i = n + 1
      <4>1. l = k
        BY <1>3, <1>4, <2>4, <3>2
      <4>2. d = c
        BY <1>1, <2>1, <4>1 DEF KeyInv
      <4> QED BY <1>3, <1>4, <1>7, <3>2, <4>2
    <3> QED BY <1>5, <3>1, <3>2
  <2> QED BY <1>1, <1>9, <2>2, <2>3, <2>4
<1>15. \A d, e \in Clerk, l \in RunKey : Trading(d, l)' /\ Trading(e, l)' => d = e
  BY <1>10 DEF KeyInv
<1> QED BY <1>8, <1>11, <1>12, <1>13, <1>14, <1>15 DEF KeyInv

LEMMA EndKeeps ==
  ASSUME KeyInv, NEW c \in Clerk, NEW k \in RunKey, RebDone(c, k) \/ RebFails(c, k)
  PROVE  KeyInv'
<1>1. /\ UNCHANGED <<desk, held, own, bids>> /\ Trading(c, k) /\ clerk' = [clerk EXCEPT ![c] = NoClerk]
      /\ runs' \in {runs, [runs EXCEPT ![k].status = "FAILED"], [runs EXCEPT ![k].status = "EXECUTED"]}
  BY DEF RebDone, RebFails, DeskOnly, Trading
<1>2. runs \in [RunKey -> Row] /\ NoClerk.pc # "run"
  BY DEF KeyInv, RebTyped, NoClerk
<1>3. PICK status \in {"none", "CREATED", "EXECUTED", "FAILED"} :
        status # "none" /\ runs' = [runs EXCEPT ![k].status = status]
  <2>1. CASE runs' = runs
    <3>1. runs[k].status # "none" /\ runs[k] \in Row
      BY <1>1, <1>2 DEF KeyInv
    <3>2. runs[k].status \in {"none", "CREATED", "EXECUTED", "FAILED"} /\ [runs[k] EXCEPT !.status = runs[k].status] = runs[k]
      BY <3>1 DEF Row
    <3>3. runs' = [runs EXCEPT ![k].status = runs[k].status]
      BY <1>2, <2>1, <3>2
    <3> QED BY <3>1, <3>2, <3>3
  <2> QED BY <1>1, <2>1
<1>4. runs' = [runs EXCEPT ![k] = [runs[k] EXCEPT !.status = status]]
  BY <1>2, <1>3
<1>5. /\ [runs[k] EXCEPT !.status = status] \in Row
      /\ Allowance[[runs[k] EXCEPT !.status = status]] = Allowance[runs[k]]
  BY <1>2, StatusOnly
<1>6. [runs[k] EXCEPT !.status = status].status # "none"
  BY <1>2, <1>3 DEF Row
<1>7. runs' \in [RunKey -> Row]
  BY <1>2, <1>4, <1>5
<1>8. \A l \in RunKey : runs[l].status # "none"
                        => runs'[l].status # "none" /\ Allowance[runs'[l]] = Allowance[runs[l]]
  BY <1>2, <1>4, <1>5, <1>6
<1> QED BY <1>1, <1>2, <1>7, <1>8, NoClerkType, ClerkSteps

\* Fills move holdings and reference quantities; the plan of a run keeps its own.
LEMMA FillKeeps ==
  ASSUME KeyInv, NEW i \in 1..Len(bids), BidFills(i)
  PROVE  KeyInv'
<1>1. /\ UNCHANGED <<desk, runs, clerk>> /\ bids' = [bids EXCEPT ![i].done = TRUE]
  BY DEF BidFills
<1>2. bids \in Seq(Bid) /\ Len(bids) \in Nat /\ \A j \in 1..Len(bids) : bids[j] \in Bid
  BY EachBid DEF KeyInv, RebTyped
<1>3. /\ bids' \in Seq(Bid) /\ Len(bids') = Len(bids)
      /\ \A j \in 1..Len(bids) : bids'[j] = IF j = i THEN [bids[i] EXCEPT !.done = TRUE] ELSE bids[j]
  <2> DEFINE done == [bids[i] EXCEPT !.done = TRUE]
  <2>1. done \in Bid
    BY <1>2 DEF Bid
  <2>2. bids' = [bids EXCEPT ![i] = done]
    BY <1>1
  <2> HIDE DEF done
  <2>3. bids' \in Seq(Bid) /\ Len(bids') = Len(bids)
    BY <1>2, <2>1, <2>2, ExceptSeq
  <2>4. \A j \in 1..Len(bids) : bids'[j] = IF j = i THEN done ELSE bids[j]
    BY <1>2, <2>1, <2>2, ExceptSeq
  <2> QED BY <2>3, <2>4 DEF done
<1>4. \A j \in 1..Len(bids) : bids'[j].key = bids[j].key /\ bids'[j].trade = bids[j].trade
  BY <1>2, <1>3 DEF Bid
<1>5. held' \in Quantities /\ own' \in Quantities
  <2>1. bids[i].trade.qty \in Nat
    BY <1>2 DEF Bid, Trade
  <2> DEFINE t == bids[i].trade
             moved(n) == IF t.side = "BUY" THEN n + t.qty ELSE Positive(n - t.qty)
  <2>2. \A n \in Nat : moved(n) \in Nat
    BY SMTT(30), <2>1 DEF Positive
  <2>3. held' = [held EXCEPT ![t.sym] = moved(@)] /\ own' = [own EXCEPT ![t.sym] = moved(@)]
    BY DEF BidFills
  <2>4. held \in [Share -> Nat] /\ own \in [Share -> Nat]
    BY DEF KeyInv, RebTyped, Quantities
  <2> HIDE DEF t, moved
  <2> QED BY <2>2, <2>3, <2>4 DEF Quantities
<1>6. Allowance' = Allowance
  BY <1>1, AllowanceStays
<1>7. RebTyped'
  BY <1>1, <1>3, <1>5 DEF KeyInv, RebTyped
<1> QED BY <1>1, <1>3, <1>4, <1>6, <1>7 DEF KeyInv, Trading

LEMMA KeyInvNext ==
  ASSUME KeyInv, [RebNext]_rebVars
  PROVE  KeyInv'
<1>1. CASE UNCHANGED rebVars
  <2>1. Allowance' = Allowance
    BY <1>1, AllowanceStays DEF rebVars
  <2> QED BY <1>1, <2>1 DEF rebVars, KeyInv, RebTyped, Trading
<1>2. CASE RebNext
  BY <1>2, RequestKeeps, PlanKeeps, RunKeeps, TradeKeeps, EndKeeps, FillKeeps DEF RebNext
<1> QED BY <1>1, <1>2

-----------------------------------------------------------------------------
(* The theorems *)

LEMMA SpentFits ==
  ASSUME KeyInv, NEW k \in RunKey, NEW side \in {"BUY", "SELL"}
  PROVE  Spent(k, side) <= desk.policy.budget
<1> DEFINE S == {j \in BidsOf(k) : bids[j].trade.side = side}
           b == [i \in S |-> bids[i].trade]
<1>1. desk \in Desks /\ runs[k] \in Row /\ Len(bids) \in Nat
  BY EachBid DEF KeyInv, RebTyped
<1>2. PICK o \in Quantities, h \in Quantities : o = runs[k].own /\ h = runs[k].held
  BY <1>1 DEF Row
<1>3. Allowance[runs[k]] = Allowed(o, h)
  BY <1>1, <1>2, AllowedFits
<1>4. S \subseteq 1..Len(bids) /\ IsFiniteSet(S)
  <2>1. S \subseteq 1..Len(bids)
    BY DEF BidsOf
  <2>2. IsFiniteSet(1..Len(bids))
    BY <1>1, FS_Interval
  <2> HIDE DEF S
  <2> QED BY <2>1, <2>2, FS_Subset
<1>5. \A i \in S : bids[i].key = k /\ bids[i].trade.side = side
  BY DEF BidsOf
<1>6. Spent(k, side) = SumFunction([i \in S |-> Notional(bids[i].trade)])
  BY DEF Spent
<1> HIDE DEF S
<1>7. \A i \in S : b[i] = bids[i].trade /\ b[i] \in Allowed(o, h) /\ b[i].side = side
  BY <1>3, <1>4, <1>5 DEF KeyInv
<1>8. \A i, j \in S : b[i] = b[j] => i = j
  BY <1>4, <1>5, <1>7 DEF KeyInv
<1>9. [i \in S |-> Notional(bids[i].trade)] = [i \in S |-> Notional(b[i])]
  BY <1>7
<1> HIDE DEF b
<1>10. SumFunction([i \in S |-> Notional(b[i])]) <= desk.policy.budget
  <2>1. PICK T, trade : T = S /\ trade = b
    OBVIOUS
  <2>2. /\ IsFiniteSet(T) /\ o \in [Share -> Nat] /\ h \in [Share -> Nat] /\ desk \in Desks
        /\ \A i \in T : trade[i] \in Allowed(o, h) /\ trade[i].side = side
        /\ \A i, j \in T : trade[i] = trade[j] => i = j
    BY <1>1, <1>4, <1>7, <1>8, <2>1 DEF Quantities
  <2>3. SumFunction([i \in T |-> Notional(trade[i])]) <= desk.policy.budget
    BY <2>2, WithinBudget
  <2> QED BY <2>1, <2>3
<1> QED BY <1>6, <1>9, <1>10

LEMMA BidFits ==
  ASSUME KeyInv, NEW k \in RunKey, NEW i \in BidsOf(k)
  PROVE  LET t == bids[i].trade
             off == Off(runs[k].own)[t.sym]
         IN  /\ (t.side = "BUY") = (off > 0)
             /\ Sum * Notional(t) <= Abs(off)
             /\ t.side = "SELL" => t.qty <= runs[k].held[t.sym]
<1>1. desk \in Desks /\ runs[k] \in Row
  BY DEF KeyInv, RebTyped
<1>2. runs[k].own \in Quantities /\ runs[k].held \in Quantities
  BY <1>1 DEF Row
<1>3. Off(runs[k].own) \in [Share -> Int] /\ Sum \in Nat /\ Sum # 0
  BY <1>1, <1>2, OffIsInt, WeightsFact DEF Quantities
<1>4. PICK off \in [Share -> Int], sum \in Nat, whole \in {Total(Value(runs[k].own))}, stock \in [Share -> Nat] :
        off = Off(runs[k].own) /\ sum = Sum /\ sum # 0 /\ stock = runs[k].held
  BY <1>2, <1>3 DEF Quantities
<1>5. bids[i].trade \in Proposed(off, sum, whole, stock)
  <2>1. bids[i].trade \in Allowance[runs[k]]
    BY DEF BidsOf, KeyInv
  <2>2. Allowance[runs[k]] = Allowed(runs[k].own, runs[k].held)
    BY <1>1, AllowedFits
  <2> QED BY <1>4, <2>1, <2>2 DEF Allowed
<1>6. PICK M, turnover : TradeFits(bids[i].trade, off, sum, stock, M, turnover)
  BY <1>1, <1>4, <1>5, ProposedFit
<1>7. PICK t : t = bids[i].trade
  OBVIOUS
<1>8. /\ t \in Trade /\ t.side = IF off[t.sym] > 0 THEN "BUY" ELSE "SELL"
      /\ sum * Notional(t) <= Abs(off[t.sym])
      /\ t.side = "SELL" => t.qty <= stock[t.sym]
  BY <1>6, <1>7 DEF TradeFits
<1>9. (t.side = "BUY") = (off[t.sym] > 0)
  BY <1>8
<1> QED BY <1>4, <1>7, <1>8, <1>9

LEMMA SymbolsDiffer ==
  ASSUME KeyInv, NEW k \in RunKey, NEW i \in BidsOf(k), NEW j \in BidsOf(k), i # j
  PROVE  bids[i].trade.sym # bids[j].trade.sym
<1>1. desk \in Desks /\ runs[k] \in Row
  BY DEF KeyInv, RebTyped
<1>2. runs[k].own \in Quantities /\ runs[k].held \in Quantities
  BY <1>1 DEF Row
<1>3. Off(runs[k].own) \in [Share -> Int] /\ Sum \in Nat /\ Sum # 0
  BY <1>1, <1>2, OffIsInt, WeightsFact DEF Quantities
<1>4. PICK off \in [Share -> Int], sum \in Nat, whole \in {Total(Value(runs[k].own))}, stock \in [Share -> Nat] :
        off = Off(runs[k].own) /\ sum = Sum /\ sum # 0 /\ stock = runs[k].held
  BY <1>2, <1>3 DEF Quantities
<1>5. Allowance[runs[k]] = Proposed(off, sum, whole, stock)
  BY <1>1, <1>4, AllowedFits DEF Allowed
<1>6. \A t, u \in Proposed(off, sum, whole, stock) : t.sym = u.sym => t = u
  BY <1>1, <1>4, OneEach
<1>7. bids[i].trade \in Allowance[runs[k]] /\ bids[j].trade \in Allowance[runs[k]] /\ bids[i].trade # bids[j].trade
  BY DEF BidsOf, KeyInv
<1> QED BY <1>5, <1>6, <1>7

\* The rows of runs, the requests and the bids have their types; holdings and
\* reference quantities are never negative.
THEOREM RebalanceTyped == RebSpec => []RebTypeOK
<1>1. ASSUME KeyInv PROVE RebTypeOK
  <2>1. held \in [Share -> Nat] /\ own \in [Share -> Nat] /\ runs \in [RunKey -> Row]
    BY <1>1 DEF KeyInv, RebTyped, Quantities
  <2>2. \A k \in RunKey : /\ runs[k].status \in {"none", "CREATED", "EXECUTED", "FAILED"}
                          /\ {runs[k].own, runs[k].held} \subseteq [Share -> Nat]
    BY <2>1 DEF Row, Quantities
  <2>3. \A c \in Clerk : /\ clerk[c].pc \in {"idle", "plan", "run", "trade"}
                         /\ clerk[c].trades \subseteq Trade /\ clerk[c].key \subseteq RunKey
    BY <1>1 DEF KeyInv, RebTyped
  <2>4. \A i \in 1..Len(bids) : bids[i] \in [key : RunKey, trade : Trade, done : BOOLEAN]
    BY <1>1, EachBid DEF KeyInv, Bid
  <2> QED BY <2>1, <2>2, <2>3, <2>4 DEF RebTypeOK
<1> QED BY <1>1, KeyInvInit, KeyInvNext, PTL DEF RebSpec

\* Whatever the requests, however often a key is used and wherever a run breaks
\* off: the orders of a key trade a symbol once, fit the budget on each side, go
\* towards the target the run was planned with and not past it, and sell nothing
\* that was not held then.
THEOREM KeysKeepTheirPlan == RebSpec => []KeyKeepsPlan
<1>1. ASSUME KeyInv PROVE KeyKeepsPlan
  <2>1. \A k \in RunKey : Spent(k, "BUY") <= desk.policy.budget /\ Spent(k, "SELL") <= desk.policy.budget
    BY <1>1, SpentFits
  <2>2. \A k \in RunKey : \A i, j \in BidsOf(k) : i # j => bids[i].trade.sym # bids[j].trade.sym
    BY <1>1, SymbolsDiffer
  <2>3. \A k \in RunKey : \A i \in BidsOf(k) :
          LET t == bids[i].trade
              off == Off(runs[k].own)[t.sym]
          IN  /\ (t.side = "BUY") = (off > 0)
              /\ Sum * Notional(t) <= Abs(off)
              /\ t.side = "SELL" => t.qty <= runs[k].held[t.sym]
    BY <1>1, BidFits
  <2> QED BY <2>1, <2>2, <2>3 DEF KeyKeepsPlan
<1> QED BY <1>1, KeyInvInit, KeyInvNext, PTL DEF RebSpec

-----------------------------------------------------------------------------
(* More about sums *)

\* A sum depends on the values of its elements only.
LEMMA SumsAlike ==
  ASSUME NEW S, IsFiniteSet(S), NEW f, NEW g, \A x \in S : f[x] = g[x]
  PROVE  SumFunctionOnSet(f, S) = SumFunctionOnSet(g, S)
<1> DEFINE Bad == {n \in Nat : \E T \in SUBSET S : Cardinality(T) = n
                                  /\ SumFunctionOnSet(f, T) # SumFunctionOnSet(g, T)}
<1>1. SUFFICES Bad = {}
  <2>1. S \in SUBSET S /\ Cardinality(S) \in Nat
    BY FS_CardinalityType
  <2> QED BY <2>1
<1>2. SUFFICES ASSUME NEW n \in Bad, \A m \in Bad : n <= m PROVE FALSE
  BY SmallestNat
<1>3. PICK T \in SUBSET S : Cardinality(T) = n /\ SumFunctionOnSet(f, T) # SumFunctionOnSet(g, T)
  OBVIOUS
<1> DEFINE R == T \ {First(T)}
<1>4. IsFiniteSet(T)
  BY FS_Subset
<1>5. /\ SumFunctionOnSet(f, T) = IF T = {} THEN 0 ELSE f[First(T)] + SumFunctionOnSet(f, R)
      /\ SumFunctionOnSet(g, T) = IF T = {} THEN 0 ELSE g[First(T)] + SumFunctionOnSet(g, R)
  <2>1. \A h : SumFunctionOnSet(h, T) = IF T = {} THEN 0 ELSE h[First(T)] + SumFunctionOnSet(h, R)
    BY <1>4, SumStep, Zenon
  <2> HIDE DEF R
  <2> QED BY <2>1, Zenon
<1>6. T # {}
  BY <1>3, <1>5
<1>7. First(T) \in T /\ R \in SUBSET S
  BY <1>6, FirstIn
<1>8. Cardinality(R) \in Nat /\ Cardinality(R) = n - 1 /\ n \in Nat
  BY <1>3, <1>4, <1>7, OneLess
<1> HIDE DEF R
<1>9. SumFunctionOnSet(f, R) = SumFunctionOnSet(g, R)
  BY <1>2, <1>7, <1>8
<1>10. f[First(T)] = g[First(T)]
  BY <1>7
<1> QED BY <1>3, <1>5, <1>6, <1>9, <1>10

\* With one more element a sum grows by its value.
LEMMA SumGains ==
  ASSUME NEW S, IsFiniteSet(S), NEW a, a \notin S, NEW f, NEW g, \A x \in S : f[x] \in Int /\ g[x] = f[x],
         g[a] \in Int
  PROVE  SumFunctionOnSet(g, S \cup {a}) = SumFunctionOnSet(f, S) + g[a]
<1> DEFINE T == S \cup {a}
<1>1. IsFiniteSet(T) /\ T \ {a} = S /\ a \in T
  BY FS_AddElement
<1>2. \A x \in T : g[x] \in Int
  OBVIOUS
<1> HIDE DEF T
<1>3. SumFunctionOnSet(g, T) = g[a] + SumFunctionOnSet(g, T \ {a})
  BY <1>1, <1>2, SumTakes
<1>4. SumFunctionOnSet(g, S) = SumFunctionOnSet(f, S)
  BY SumsAlike, Zenon
<1>5. SumFunctionOnSet(f, S) \in Int
  BY SumIsInt
<1>6. SumFunctionOnSet(g, T) = SumFunctionOnSet(f, S) + g[a]
  <2>1. SumFunctionOnSet(g, T) = g[a] + SumFunctionOnSet(f, S)
    BY <1>1, <1>3, <1>4, Zenon
  <2> QED BY <2>1, <1>5
<1> QED BY <1>6 DEF T

-----------------------------------------------------------------------------
(* Loops *)

\* A function that starts with d and goes on by the body, N times, within D.
StaysIn(body, N, D) == \A e \in D, n \in 1..N : body[<<e, n>>] \in D
Runs(g, body, d, N, D) ==
  g \in [0..N -> D] /\ g[0] = d /\ \A n \in 1..N : g[n] = body[<<g[n - 1], n>>]

\* A loop whose body stays in a set can be written down as a function.
LEMMA LoopExists ==
  ASSUME NEW D, NEW d \in D, NEW N \in Nat, NEW body, StaysIn(body, N, D)
  PROVE  \E g : Runs(g, body, d, N, D)
<1> USE DEF StaysIn, Runs
<1> DEFINE Good(k, g) == Runs(g, body, d, k, D)
           Bad == {k \in Nat : k <= N /\ ~ \E g : Good(k, g)}
<1> SUFFICES \E g : Good(N, g)
  OBVIOUS
<1>1. SUFFICES Bad = {}
  <2>1. N \in Nat /\ N <= N
    OBVIOUS
  <2> HIDE DEF Good
  <2> QED BY <2>1
<1>2. SUFFICES ASSUME NEW k \in Bad, \A m \in Bad : k <= m PROVE FALSE
  BY SmallestNat
<1>3. Good(0, [n \in 0..0 |-> d])
  OBVIOUS
<1>4. k # 0 /\ k \in 1..N
  <2> HIDE DEF Good
  <2> QED BY <1>3
<1>5. k - 1 \in 0..N /\ k - 1 \notin Bad
  BY <1>2, <1>4
<1>6. PICK g : Good(k - 1, g)
  <2> HIDE DEF Good
  <2> QED BY <1>5
<1> DEFINE h == [n \in 0..k |-> IF n = k THEN body[<<g[k - 1], k>>] ELSE g[n]]
<1>7. g[k - 1] \in D /\ body[<<g[k - 1], k>>] \in D
  BY <1>4, <1>6
<1>8. h \in [0..k -> D] /\ \A n \in 0..(k - 1) : h[n] = g[n]
  BY <1>4, <1>6, <1>7
<1>9. h[0] = d /\ h[k] = body[<<h[k - 1], k>>]
  BY <1>4, <1>6, <1>8
<1>10. ASSUME NEW n \in 1..k PROVE h[n] = body[<<h[n - 1], n>>]
  <2>1. CASE n = k
    BY <1>9, <2>1
  <2>2. CASE n # k
    <3>1. n \in 1..(k - 1) /\ n - 1 \in 0..(k - 1)
      BY <1>4, <2>2
    <3> HIDE DEF h
    <3> QED BY <1>6, <1>8, <3>1
  <2> QED BY <2>1, <2>2
<1>11. Good(k, h)
  <2> HIDE DEF h
  <2> QED BY <1>8, <1>9, <1>10
<1> HIDE DEF Good, h
<1> QED BY <1>11

\* What starts in a set and stays in it with each step ends in it.
LEMMA LoopStays ==
  ASSUME NEW D, NEW N \in Nat, NEW g, g[0] \in D,
         \A n \in 1..N : g[n - 1] \in D => g[n] \in D
  PROVE  g[N] \in D
<1> DEFINE Bad == {k \in Nat : k <= N /\ g[k] \notin D}
<1>1. SUFFICES Bad = {}
  OBVIOUS
<1>2. SUFFICES ASSUME NEW k \in Bad, \A m \in Bad : k <= m PROVE FALSE
  BY SmallestNat
<1>3. k # 0 /\ k \in 1..N /\ k - 1 \in 0..N
  OBVIOUS
<1>4. k - 1 \notin Bad
  BY <1>2, <1>3
<1> QED BY <1>3, <1>4

-----------------------------------------------------------------------------
(* The loops of an evaluation: a set that their bodies stay in holds what they  *)
(* return.                                                                     *)

LEMMA SymbolsFact ==
  /\ Len(Symbols) \in Nat /\ \A n \in 1..Len(Symbols) : Symbols[n] \in Symbol
  /\ IsFiniteSet(Symbol)
<1>1. Len(Symbols) \in Nat /\ DOMAIN Symbols = 1..Len(Symbols) /\ \A n \in 1..Len(Symbols) : Symbols[n] \in Symbol
  BY SymbolAssumption
<1>2. IsFiniteSet(Range(Symbols))
  <2>1. Symbols \in Surjection(1..Len(Symbols), Range(Symbols))
    <3>1. Symbols \in [1..Len(Symbols) -> Range(Symbols)]
      BY SymbolAssumption, LenProperties DEF Symbol
    <3>2. \A x \in Range(Symbols) : \E n \in 1..Len(Symbols) : Symbols[n] = x
      BY <1>1 DEF Range
    <3> QED BY <3>1, <3>2 DEF Surjection
  <2>2. IsFiniteSet(1..Len(Symbols))
    BY <1>1, FS_Interval
  <2> QED BY <2>1, <2>2, FS_Surjection
<1> QED BY <1>1, <1>2 DEF Symbol

LEMMA FlattenedStays ==
  ASSUME NEW D, NEW d \in D, NEW view,
         \A e \in D, s \in Symbol : Closed(e, s, OrZero(view[s].close, e.state.pos[s].entry)) \in D
  PROVE  Flattened(d, view) \in D
<1> DEFINE N == Len(Symbols)
           Step(e, s) == Closed(e, s, OrZero(view[s].close, e.state.pos[s].entry))
           Is(g) == g = [n \in 0..N |-> IF n = 0 THEN d ELSE Step(g[n - 1], Symbols[n])]
           body == [p \in D \X (1..N) |-> Step(p[1], Symbols[p[2]])]
           the == CHOOSE g : Is(g)
<1>1. Flattened(d, view) = the[N]
  BY DEF Flattened, Each, Loop
<1>2. \A e \in D, s \in Symbol : Step(e, s) \in D
  OBVIOUS
<1> HIDE DEF Step
<1>3. \A e \in D, n \in 1..N : body[<<e, n>>] = Step(e, Symbols[n]) /\ body[<<e, n>>] \in D
  BY <1>2, SymbolsFact
<1>4. \E g : Is(g)
  <2>1. PICK g : Runs(g, body, d, N, D)
    <3>1. N \in Nat /\ StaysIn(body, N, D)
      BY <1>3, SymbolsFact DEF StaysIn
    <3> HIDE DEF body, N
    <3> QED BY <3>1, LoopExists
  <2>2. /\ g \in [0..N -> D] /\ g[0] = d
        /\ \A n \in 1..N : g[n] = body[<<g[n - 1], n>>]
    BY <2>1 DEF Runs
  <2>3. \A n \in 1..N : body[<<g[n - 1], n>>] = Step(g[n - 1], Symbols[n])
    <3> HIDE DEF body
    <3>1. \A n \in 1..N : g[n - 1] \in D
      BY <2>2, SymbolsFact
    <3> QED BY <1>3, <3>1
  <2> HIDE DEF body
  <2>4. Is(g)
    <3>1. ASSUME NEW n \in 0..N PROVE g[n] = IF n = 0 THEN d ELSE Step(g[n - 1], Symbols[n])
      <4>1. n = 0 \/ n \in 1..N
        BY SymbolsFact
      <4> HIDE DEF N
      <4> QED BY <2>2, <2>3, <4>1
    <3>2. g = [n \in 0..N |-> g[n]]
      BY <2>2
    <3> QED BY <3>1, <3>2, Zenon
  <2> QED BY <2>4
<1>5. Is(the)
  <2> HIDE DEF Is
  <2> QED BY <1>4
<1> HIDE DEF the
<1>6. the[0] = d /\ \A n \in 1..N : the[n] = Step(the[n - 1], Symbols[n])
  BY <1>5, SymbolsFact
<1>7. \A n \in 1..N : the[n - 1] \in D => the[n] \in D
  BY <1>2, <1>6, SymbolsFact
<1>8. the[N] \in D
  BY <1>6, <1>7, SymbolsFact, LoopStays
<1> QED BY <1>1, <1>8

LEMMA RiskExitsStays ==
  ASSUME NEW D, NEW d \in D, NEW view,
         \A e \in D, s \in Symbol : RiskExit(e, s, view) \in D
  PROVE  RiskExits(d, view) \in D
<1> DEFINE N == Len(Symbols)
           Step(e, s) == RiskExit(e, s, view)
           Is(g) == g = [n \in 0..N |-> IF n = 0 THEN d ELSE Step(g[n - 1], Symbols[n])]
           body == [p \in D \X (1..N) |-> Step(p[1], Symbols[p[2]])]
           the == CHOOSE g : Is(g)
<1>1. RiskExits(d, view) = the[N]
  BY DEF RiskExits, Each, Loop
<1>2. \A e \in D, s \in Symbol : Step(e, s) \in D
  OBVIOUS
<1> HIDE DEF Step
<1>3. \A e \in D, n \in 1..N : body[<<e, n>>] = Step(e, Symbols[n]) /\ body[<<e, n>>] \in D
  BY <1>2, SymbolsFact
<1>4. \E g : Is(g)
  <2>1. PICK g : Runs(g, body, d, N, D)
    <3>1. N \in Nat /\ StaysIn(body, N, D)
      BY <1>3, SymbolsFact DEF StaysIn
    <3> HIDE DEF body, N
    <3> QED BY <3>1, LoopExists
  <2>2. /\ g \in [0..N -> D] /\ g[0] = d
        /\ \A n \in 1..N : g[n] = body[<<g[n - 1], n>>]
    BY <2>1 DEF Runs
  <2>3. \A n \in 1..N : body[<<g[n - 1], n>>] = Step(g[n - 1], Symbols[n])
    <3> HIDE DEF body
    <3>1. \A n \in 1..N : g[n - 1] \in D
      BY <2>2, SymbolsFact
    <3> QED BY <1>3, <3>1
  <2> HIDE DEF body
  <2>4. Is(g)
    <3>1. ASSUME NEW n \in 0..N PROVE g[n] = IF n = 0 THEN d ELSE Step(g[n - 1], Symbols[n])
      <4>1. n = 0 \/ n \in 1..N
        BY SymbolsFact
      <4> HIDE DEF N
      <4> QED BY <2>2, <2>3, <4>1
    <3>2. g = [n \in 0..N |-> g[n]]
      BY <2>2
    <3> QED BY <3>1, <3>2, Zenon
  <2> QED BY <2>4
<1>5. Is(the)
  <2> HIDE DEF Is
  <2> QED BY <1>4
<1> HIDE DEF the
<1>6. the[0] = d /\ \A n \in 1..N : the[n] = Step(the[n - 1], Symbols[n])
  BY <1>5, SymbolsFact
<1>7. \A n \in 1..N : the[n - 1] \in D => the[n] \in D
  BY <1>2, <1>6, SymbolsFact
<1>8. the[N] \in D
  BY <1>6, <1>7, SymbolsFact, LoopStays
<1> QED BY <1>1, <1>8

LEMMA SignalExitsStays ==
  ASSUME NEW D, NEW d \in D, NEW kind, NEW view,
         \A e \in D, s \in Symbol : SignalExit(e, s, kind, view) \in D
  PROVE  SignalExits(d, kind, view) \in D
<1> DEFINE N == Len(Symbols)
           Step(e, s) == SignalExit(e, s, kind, view)
           Is(g) == g = [n \in 0..N |-> IF n = 0 THEN d ELSE Step(g[n - 1], Symbols[n])]
           body == [p \in D \X (1..N) |-> Step(p[1], Symbols[p[2]])]
           the == CHOOSE g : Is(g)
<1>1. SignalExits(d, kind, view) = the[N]
  BY DEF SignalExits, Each, Loop
<1>2. \A e \in D, s \in Symbol : Step(e, s) \in D
  OBVIOUS
<1> HIDE DEF Step
<1>3. \A e \in D, n \in 1..N : body[<<e, n>>] = Step(e, Symbols[n]) /\ body[<<e, n>>] \in D
  BY <1>2, SymbolsFact
<1>4. \E g : Is(g)
  <2>1. PICK g : Runs(g, body, d, N, D)
    <3>1. N \in Nat /\ StaysIn(body, N, D)
      BY <1>3, SymbolsFact DEF StaysIn
    <3> HIDE DEF body, N
    <3> QED BY <3>1, LoopExists
  <2>2. /\ g \in [0..N -> D] /\ g[0] = d
        /\ \A n \in 1..N : g[n] = body[<<g[n - 1], n>>]
    BY <2>1 DEF Runs
  <2>3. \A n \in 1..N : body[<<g[n - 1], n>>] = Step(g[n - 1], Symbols[n])
    <3> HIDE DEF body
    <3>1. \A n \in 1..N : g[n - 1] \in D
      BY <2>2, SymbolsFact
    <3> QED BY <1>3, <3>1
  <2> HIDE DEF body
  <2>4. Is(g)
    <3>1. ASSUME NEW n \in 0..N PROVE g[n] = IF n = 0 THEN d ELSE Step(g[n - 1], Symbols[n])
      <4>1. n = 0 \/ n \in 1..N
        BY SymbolsFact
      <4> HIDE DEF N
      <4> QED BY <2>2, <2>3, <4>1
    <3>2. g = [n \in 0..N |-> g[n]]
      BY <2>2
    <3> QED BY <3>1, <3>2, Zenon
  <2> QED BY <2>4
<1>5. Is(the)
  <2> HIDE DEF Is
  <2> QED BY <1>4
<1> HIDE DEF the
<1>6. the[0] = d /\ \A n \in 1..N : the[n] = Step(the[n - 1], Symbols[n])
  BY <1>5, SymbolsFact
<1>7. \A n \in 1..N : the[n - 1] \in D => the[n] \in D
  BY <1>2, <1>6, SymbolsFact
<1>8. the[N] \in D
  BY <1>6, <1>7, SymbolsFact, LoopStays
<1> QED BY <1>1, <1>8

LEMMA GuardedByTradeStays ==
  ASSUME NEW D, NEW d \in D, NEW eq, NEW view,
         \A e \in D, s \in Symbol : TradeGuard(e, s, eq, view) \in D
  PROVE  GuardedByTrade(d, eq, view) \in D
<1> DEFINE N == Len(Symbols)
           Step(e, s) == TradeGuard(e, s, eq, view)
           Is(g) == g = [n \in 0..N |-> IF n = 0 THEN d ELSE Step(g[n - 1], Symbols[n])]
           body == [p \in D \X (1..N) |-> Step(p[1], Symbols[p[2]])]
           the == CHOOSE g : Is(g)
<1>1. GuardedByTrade(d, eq, view) = the[N]
  BY DEF GuardedByTrade, Each, Loop
<1>2. \A e \in D, s \in Symbol : Step(e, s) \in D
  OBVIOUS
<1> HIDE DEF Step
<1>3. \A e \in D, n \in 1..N : body[<<e, n>>] = Step(e, Symbols[n]) /\ body[<<e, n>>] \in D
  BY <1>2, SymbolsFact
<1>4. \E g : Is(g)
  <2>1. PICK g : Runs(g, body, d, N, D)
    <3>1. N \in Nat /\ StaysIn(body, N, D)
      BY <1>3, SymbolsFact DEF StaysIn
    <3> HIDE DEF body, N
    <3> QED BY <3>1, LoopExists
  <2>2. /\ g \in [0..N -> D] /\ g[0] = d
        /\ \A n \in 1..N : g[n] = body[<<g[n - 1], n>>]
    BY <2>1 DEF Runs
  <2>3. \A n \in 1..N : body[<<g[n - 1], n>>] = Step(g[n - 1], Symbols[n])
    <3> HIDE DEF body
    <3>1. \A n \in 1..N : g[n - 1] \in D
      BY <2>2, SymbolsFact
    <3> QED BY <1>3, <3>1
  <2> HIDE DEF body
  <2>4. Is(g)
    <3>1. ASSUME NEW n \in 0..N PROVE g[n] = IF n = 0 THEN d ELSE Step(g[n - 1], Symbols[n])
      <4>1. n = 0 \/ n \in 1..N
        BY SymbolsFact
      <4> HIDE DEF N
      <4> QED BY <2>2, <2>3, <4>1
    <3>2. g = [n \in 0..N |-> g[n]]
      BY <2>2
    <3> QED BY <3>1, <3>2, Zenon
  <2> QED BY <2>4
<1>5. Is(the)
  <2> HIDE DEF Is
  <2> QED BY <1>4
<1> HIDE DEF the
<1>6. the[0] = d /\ \A n \in 1..N : the[n] = Step(the[n - 1], Symbols[n])
  BY <1>5, SymbolsFact
<1>7. \A n \in 1..N : the[n - 1] \in D => the[n] \in D
  BY <1>2, <1>6, SymbolsFact
<1>8. the[N] \in D
  BY <1>6, <1>7, SymbolsFact, LoopStays
<1> QED BY <1>1, <1>8

LEMMA AllClosedStays ==
  ASSUME NEW D, NEW d \in D, NEW view,
         \A e \in D, s \in Symbol : (IF Quoted(view, s) THEN Closed(e, s, view[s].close) ELSE e) \in D
  PROVE  AllClosed(d, view) \in D
<1> DEFINE N == Len(Symbols)
           Step(e, s) == (IF Quoted(view, s) THEN Closed(e, s, view[s].close) ELSE e)
           Is(g) == g = [n \in 0..N |-> IF n = 0 THEN d ELSE Step(g[n - 1], Symbols[n])]
           body == [p \in D \X (1..N) |-> Step(p[1], Symbols[p[2]])]
           the == CHOOSE g : Is(g)
<1>1. AllClosed(d, view) = the[N]
  BY DEF AllClosed, Each, Loop
<1>2. \A e \in D, s \in Symbol : Step(e, s) \in D
  OBVIOUS
<1> HIDE DEF Step
<1>3. \A e \in D, n \in 1..N : body[<<e, n>>] = Step(e, Symbols[n]) /\ body[<<e, n>>] \in D
  BY <1>2, SymbolsFact
<1>4. \E g : Is(g)
  <2>1. PICK g : Runs(g, body, d, N, D)
    <3>1. N \in Nat /\ StaysIn(body, N, D)
      BY <1>3, SymbolsFact DEF StaysIn
    <3> HIDE DEF body, N
    <3> QED BY <3>1, LoopExists
  <2>2. /\ g \in [0..N -> D] /\ g[0] = d
        /\ \A n \in 1..N : g[n] = body[<<g[n - 1], n>>]
    BY <2>1 DEF Runs
  <2>3. \A n \in 1..N : body[<<g[n - 1], n>>] = Step(g[n - 1], Symbols[n])
    <3> HIDE DEF body
    <3>1. \A n \in 1..N : g[n - 1] \in D
      BY <2>2, SymbolsFact
    <3> QED BY <1>3, <3>1
  <2> HIDE DEF body
  <2>4. Is(g)
    <3>1. ASSUME NEW n \in 0..N PROVE g[n] = IF n = 0 THEN d ELSE Step(g[n - 1], Symbols[n])
      <4>1. n = 0 \/ n \in 1..N
        BY SymbolsFact
      <4> HIDE DEF N
      <4> QED BY <2>2, <2>3, <4>1
    <3>2. g = [n \in 0..N |-> g[n]]
      BY <2>2
    <3> QED BY <3>1, <3>2, Zenon
  <2> QED BY <2>4
<1>5. Is(the)
  <2> HIDE DEF Is
  <2> QED BY <1>4
<1> HIDE DEF the
<1>6. the[0] = d /\ \A n \in 1..N : the[n] = Step(the[n - 1], Symbols[n])
  BY <1>5, SymbolsFact
<1>7. \A n \in 1..N : the[n - 1] \in D => the[n] \in D
  BY <1>2, <1>6, SymbolsFact
<1>8. the[N] \in D
  BY <1>6, <1>7, SymbolsFact, LoopStays
<1> QED BY <1>1, <1>8

LEMMA AllAdmittedStays ==
  ASSUME NEW D, NEW d \in D, NEW view,
         \A e \in D, s \in Symbol : Admitted(e, s, view) \in D
  PROVE  AllAdmitted(d, view) \in D
<1> DEFINE N == Len(Symbols)
           Step(e, s) == Admitted(e, s, view)
           Is(g) == g = [n \in 0..N |-> IF n = 0 THEN d ELSE Step(g[n - 1], Symbols[n])]
           body == [p \in D \X (1..N) |-> Step(p[1], Symbols[p[2]])]
           the == CHOOSE g : Is(g)
<1>1. AllAdmitted(d, view) = the[N]
  BY DEF AllAdmitted, Each, Loop
<1>2. \A e \in D, s \in Symbol : Step(e, s) \in D
  OBVIOUS
<1> HIDE DEF Step
<1>3. \A e \in D, n \in 1..N : body[<<e, n>>] = Step(e, Symbols[n]) /\ body[<<e, n>>] \in D
  BY <1>2, SymbolsFact
<1>4. \E g : Is(g)
  <2>1. PICK g : Runs(g, body, d, N, D)
    <3>1. N \in Nat /\ StaysIn(body, N, D)
      BY <1>3, SymbolsFact DEF StaysIn
    <3> HIDE DEF body, N
    <3> QED BY <3>1, LoopExists
  <2>2. /\ g \in [0..N -> D] /\ g[0] = d
        /\ \A n \in 1..N : g[n] = body[<<g[n - 1], n>>]
    BY <2>1 DEF Runs
  <2>3. \A n \in 1..N : body[<<g[n - 1], n>>] = Step(g[n - 1], Symbols[n])
    <3> HIDE DEF body
    <3>1. \A n \in 1..N : g[n - 1] \in D
      BY <2>2, SymbolsFact
    <3> QED BY <1>3, <3>1
  <2> HIDE DEF body
  <2>4. Is(g)
    <3>1. ASSUME NEW n \in 0..N PROVE g[n] = IF n = 0 THEN d ELSE Step(g[n - 1], Symbols[n])
      <4>1. n = 0 \/ n \in 1..N
        BY SymbolsFact
      <4> HIDE DEF N
      <4> QED BY <2>2, <2>3, <4>1
    <3>2. g = [n \in 0..N |-> g[n]]
      BY <2>2
    <3> QED BY <3>1, <3>2, Zenon
  <2> QED BY <2>4
<1>5. Is(the)
  <2> HIDE DEF Is
  <2> QED BY <1>4
<1> HIDE DEF the
<1>6. the[0] = d /\ \A n \in 1..N : the[n] = Step(the[n - 1], Symbols[n])
  BY <1>5, SymbolsFact
<1>7. \A n \in 1..N : the[n - 1] \in D => the[n] \in D
  BY <1>2, <1>6, SymbolsFact
<1>8. the[N] \in D
  BY <1>6, <1>7, SymbolsFact, LoopStays
<1> QED BY <1>1, <1>8

-----------------------------------------------------------------------------
(* The disaster stops after some deals *)

StopRec == [row : [Symbol -> [1..MaxBars -> {"none", "waiting", "cancelled"}]],
            at : [Symbol -> 0..MaxBars]]
DealRec == [s : Symbol, entry : BOOLEAN, qty : Nat \ {0}, price : Nat, idx : Nat]
StopStep(st, deal) == IF deal.entry THEN WithStop(st, deal.s) ELSE WithoutStop(st, deal.s)
StopLoop(g, q) == g = [n \in 0..Len(q) |-> IF n = 0 THEN stops ELSE StopStep(g[n - 1], q[n])]

LEMMA StopStepType ==
  ASSUME bar \in 1..MaxBars, NEW st \in StopRec, NEW deal \in DealRec
  PROVE  StopStep(st, deal) \in StopRec
<1> DEFINE s == deal.s
<1>1. s \in Symbol /\ bar \in 1..MaxBars
  BY DEF DealRec
<1> HIDE DEF s
<1>2. WithStop(st, s) \in StopRec
  <2> DEFINE status == {"none", "waiting", "cancelled"}
             was == st.row[s][bar]
             now == IF was = "none" THEN "waiting" ELSE was
  <2>1. /\ st.row \in [Symbol -> [1..MaxBars -> status]] /\ st.at \in [Symbol -> 0..MaxBars]
        /\ now \in status
    BY <1>1 DEF StopRec
  <2>2. [st.row EXCEPT ![s][bar] = now] \in [Symbol -> [1..MaxBars -> status]]
    <3> HIDE DEF now, status
    <3> QED BY <1>1, <2>1
  <2>3. \A b \in {0, bar} : [st.at EXCEPT ![s] = b] \in [Symbol -> 0..MaxBars]
    BY <1>1, <2>1, PriceAssumption
  <2>4. WithStop(st, s) = IF policy.sl = 0 THEN [row |-> st.row, at |-> [st.at EXCEPT ![s] = 0]]
                          ELSE [row |-> [st.row EXCEPT ![s][bar] = now], at |-> [st.at EXCEPT ![s] = bar]]
    <3>1. [st EXCEPT !.at[s] = 0] = [row |-> st.row, at |-> [st.at EXCEPT ![s] = 0]]
      <4>1. PICK R, A : st = [row |-> R, at |-> A]
        BY DEF StopRec
      <4>2. st.row = R /\ st.at = A
        BY <4>1
      <4>3. [[row |-> R, at |-> A] EXCEPT !.at[s] = 0] = [row |-> R, at |-> [A EXCEPT ![s] = 0]]
        OBVIOUS
      <4> QED BY <4>1, <4>2, <4>3
    <3> QED BY <3>1, Zenon DEF WithStop
  <2> HIDE DEF now, was
  <2> QED BY <2>1, <2>2, <2>3, <2>4 DEF StopRec
<1>3. WithoutStop(st, s) \in StopRec
  BY <1>1, PriceAssumption DEF WithoutStop, StopRec
<1> QED BY <1>2, <1>3 DEF StopStep, s

LEMMA StopLoopExists ==
  ASSUME bar \in 1..MaxBars, stops \in StopRec, NEW q \in Seq(DealRec)
  PROVE  /\ StopLoop(CHOOSE g : StopLoop(g, q), q)
         /\ StopsAfter(q) = (CHOOSE g : StopLoop(g, q))[Len(q)]
<1> DEFINE N == Len(q)
           body == [p \in StopRec \X (1..N) |-> StopStep(p[1], q[p[2]])]
<1>1. StopsAfter(q) = (CHOOSE g : StopLoop(g, q))[N]
  BY DEF StopsAfter, Loop, StopLoop, StopStep
<1>2. N \in Nat /\ \A n \in 1..N : q[n] \in DealRec
  OBVIOUS
<1>3. \A e \in StopRec, n \in 1..N : body[<<e, n>>] = StopStep(e, q[n]) /\ body[<<e, n>>] \in StopRec
  BY <1>2, StopStepType
<1>4. PICK g : Runs(g, body, stops, N, StopRec)
  <2>1. N \in Nat /\ StaysIn(body, N, StopRec)
    BY <1>2, <1>3 DEF StaysIn
  <2> HIDE DEF body, N
  <2> QED BY <2>1, LoopExists
<1>5. /\ g \in [0..N -> StopRec] /\ g[0] = stops
      /\ \A n \in 1..N : g[n] = body[<<g[n - 1], n>>]
  BY <1>4 DEF Runs
<1>6. \A n \in 1..N : body[<<g[n - 1], n>>] = StopStep(g[n - 1], q[n])
  <2> HIDE DEF body
  <2>1. \A n \in 1..N : g[n - 1] \in StopRec
    BY <1>2, <1>5
  <2> QED BY <1>3, <2>1
<1>7. StopLoop(g, q)
  <2>1. ASSUME NEW n \in 0..N PROVE g[n] = IF n = 0 THEN stops ELSE StopStep(g[n - 1], q[n])
    <3>1. n = 0 \/ n \in 1..N
      BY <1>2
    <3> HIDE DEF N, body
    <3> QED BY <1>5, <1>6, <3>1
  <2>2. g = [n \in 0..N |-> g[n]]
    BY <1>5
  <2> QED BY <2>1, <2>2, Zenon DEF StopLoop
<1> QED BY <1>1, <1>7

\* One deal more is one step more.
LEMMA StopsAfterAppend ==
  ASSUME bar \in 1..MaxBars, stops \in StopRec, NEW q \in Seq(DealRec), NEW deal \in DealRec
  PROVE  StopsAfter(Append(q, deal)) = StopStep(StopsAfter(q), deal)
<1> DEFINE r == Append(q, deal)
           g == CHOOSE g : StopLoop(g, q)
           h == CHOOSE h : StopLoop(h, r)
           Bad == {n \in Nat : n <= Len(q) /\ g[n] # h[n]}
<1>1. r \in Seq(DealRec) /\ Len(r) = Len(q) + 1 /\ Len(q) \in Nat /\ r[Len(r)] = deal
      /\ \A n \in 1..Len(q) : r[n] = q[n]
  OBVIOUS
<1>2. /\ StopLoop(g, q) /\ StopsAfter(q) = g[Len(q)]
      /\ StopLoop(h, r) /\ StopsAfter(r) = h[Len(r)]
  <2> HIDE DEF r
  <2> QED BY <1>1, StopLoopExists
<1> HIDE DEF r, g, h
<1>3. /\ g[0] = stops /\ \A n \in 1..Len(q) : g[n] = StopStep(g[n - 1], q[n])
      /\ h[0] = stops /\ \A n \in 1..Len(r) : h[n] = StopStep(h[n - 1], r[n])
  <2>1. \A x, p : StopLoop(x, p) /\ Len(p) \in Nat =>
                    x[0] = stops /\ \A n \in 1..Len(p) : x[n] = StopStep(x[n - 1], p[n])
    BY DEF StopLoop
  <2>2. Len(r) \in Nat
    BY <1>1
  <2> QED BY <1>1, <1>2, <2>1, <2>2, ZenonT(60)
<1>4. Bad = {}
  <2>1. SUFFICES ASSUME NEW n \in Bad, \A m \in Bad : n <= m PROVE FALSE
    BY SmallestNat
  <2>2. n # 0 /\ n \in 1..Len(q) /\ n \in 1..Len(r) /\ n - 1 \in Nat /\ n - 1 <= Len(q)
    BY <1>1, <1>3
  <2>3. g[n - 1] = h[n - 1]
    BY <2>1, <2>2
  <2> QED BY <1>1, <1>3, <2>2, <2>3
<1>5. g[Len(q)] = h[Len(q)]
  BY <1>1, <1>4
<1>6. h[Len(r)] = StopStep(h[Len(q)], deal)
  <2>1. Len(r) \in 1..Len(r) /\ Len(r) - 1 = Len(q)
    BY <1>1
  <2> QED BY <1>1, <1>3, <2>1
<1> QED BY <1>2, <1>5, <1>6 DEF r

\* No deal leaves the stops as they are, and any deals of their type.
LEMMA StopsAfterType ==
  ASSUME bar \in 1..MaxBars, stops \in StopRec
  PROVE  /\ StopsAfter(<<>>) = stops
         /\ \A q \in Seq(DealRec) : StopsAfter(q) \in StopRec
<1>1. StopsAfter(<<>>) = stops
  <2> DEFINE g == CHOOSE g : StopLoop(g, <<>>)
  <2>1. StopLoop(g, <<>>) /\ StopsAfter(<<>>) = g[Len(<<>>)]
    <3>1. <<>> \in Seq(DealRec)
      OBVIOUS
    <3> QED BY <3>1, StopLoopExists
  <2> HIDE DEF g
  <2> QED BY <2>1 DEF StopLoop
<1>2. ASSUME NEW q \in Seq(DealRec) PROVE StopsAfter(q) \in StopRec
  <2> DEFINE g == CHOOSE g : StopLoop(g, q)
  <2>1. StopLoop(g, q) /\ StopsAfter(q) = g[Len(q)]
    BY StopLoopExists
  <2> HIDE DEF g
  <2>2. g[0] = stops /\ \A n \in 1..Len(q) : g[n] = StopStep(g[n - 1], q[n])
    BY SMTT(30), <2>1 DEF StopLoop
  <2>3. \A n \in 1..Len(q) : g[n - 1] \in StopRec => g[n] \in StopRec
    <3>1. \A n \in 1..Len(q) : q[n] \in DealRec
      OBVIOUS
    <3> QED BY <2>2, <3>1, StopStepType
  <2> QED BY <2>1, <2>2, <2>3, LoopStays
<1> QED BY <1>1, <1>2

-----------------------------------------------------------------------------
(* The runner's invariant: the books, the stops and the cooldowns *)

FillRec == [key : JobKind \X (1..MaxBars) \X Symbol \X BOOLEAN \X Nat, deal : DealRec]
Sign == IF policy.short THEN -1 ELSE 1
EntriesIn(T, s, b) == {f \in T : f.deal.s = s /\ f.deal.entry /\ f.key[2] = b}
Flows(T) == SumFunction([f \in T |-> Flow(f.deal)])
Unspoiled == ~policy.live /\ ~met /\ ~stale
Booked(st, T) ==
  /\ st.cash = Capital + Flows(T)
  /\ \A s \in Symbol : Net(T, s) = Sign * st.pos[s].qty
\* A stop that waits belongs to what is held, a row has an entry, and the
\* position refers to a row that was written.
Covered(st, T, sp) ==
  \A s \in Symbol :
    /\ \A b \in 1..MaxBars : sp.row[s][b] = "waiting" => st.pos[s].qty > 0 /\ sp.at[s] = b
    /\ \A b \in 1..MaxBars : sp.row[s][b] # "none" => EntriesIn(T, s, b) # {}
    /\ sp.at[s] # 0 => sp.row[s][sp.at[s]] # "none"
    /\ policy.sl > 0 /\ st.pos[s].qty > 0 =>
         /\ sp.at[s] # 0
         /\ Cardinality(EntriesIn(T, s, sp.at[s])) = 1 => sp.row[s][sp.at[s]] = "waiting"
RunTyped ==
  /\ RunTypeOK
  /\ stops \in StopRec
  /\ IsFiniteSet(fills) /\ fills \subseteq FillRec
RunInv ==
  /\ RunTyped
  /\ Unspoiled => /\ Booked(state, fills) /\ Covered(state, fills, stops)
                  /\ Cardinality(Held([state |-> state])) <= policy.max_open
  /\ ~stale /\ ended => state.disabled
  /\ \A s \in Symbol : exits[s] <= evals
  /\ ~stale => \A s \in Symbol : exits[s] > 0 => exits[s] + policy.cooldown <= state.cool[s] + evals
  /\ audit.busy => ~policy.live

-----------------------------------------------------------------------------
(* What the steps of an evaluation do to a desk *)

DeskRec == [state : DeskState, deals : Seq(DealRec)]
QuoteRec == [close : Nat, fill : Nat, entry : BOOLEAN, exit : BOOLEAN]
Views == {v \in [Symbol -> QuoteRec] : \A s \in Symbol : v[s].entry => v[s].fill > 0}

\* From one desk to the next: what the positions remember has changed, one of them
\* has been closed, or opened.
MarkedAs(e, f) ==
  /\ e \in DeskRec /\ f \in DeskRec /\ f.deals = e.deals
  /\ f.state.cash = e.state.cash /\ f.state.cool = e.state.cool
  /\ f.state.disabled = e.state.disabled
  /\ \A s \in Symbol : f.state.pos[s].qty = e.state.pos[s].qty
DealtWith(e, f, x) ==
  /\ e \in DeskRec /\ f \in DeskRec /\ x \in DealRec
  /\ f.deals = Append(e.deals, x) /\ x.idx = Len(e.deals)
  /\ f.state.cash = e.state.cash + Flow(x)
  /\ f.state.disabled = e.state.disabled
  /\ \A s \in Symbol \ {x.s} : f.state.pos[s].qty = e.state.pos[s].qty
ClosedBy(e, f, x) ==
  /\ DealtWith(e, f, x) /\ ~x.entry
  /\ x.qty = e.state.pos[x.s].qty /\ f.state.pos[x.s].qty = 0
  /\ f.state.cool = [e.state.cool EXCEPT ![x.s] = OrZero(policy.cooldown, @)]
OpenedBy(e, f, x) ==
  /\ DealtWith(e, f, x) /\ x.entry
  /\ e.state.pos[x.s].qty = 0 /\ f.state.pos[x.s].qty = x.qty
  /\ f.state.cool = e.state.cool
ExitStep(e, f) == \E m \in DeskRec : MarkedAs(e, m) /\ (f = m \/ \E x \in DealRec : ClosedBy(m, f, x))

\* A desk, by its parts.
Sheet(q, c, p, k, d, t) ==
  [state |-> [cash |-> c, pos |-> p, cool |-> k, disabled |-> d, peak |-> t], deals |-> q]

LEMMA SheetParts ==
  ASSUME NEW q, NEW c, NEW p, NEW k, NEW d, NEW t
  PROVE  LET e == Sheet(q, c, p, k, d, t)
         IN  /\ e.deals = q /\ e.state.cash = c /\ e.state.pos = p /\ e.state.cool = k
             /\ e.state.disabled = d /\ e.state.peak = t
BY DEF Sheet

LEMMA MakeDesk ==
  ASSUME NEW q \in Seq(DealRec), NEW c \in Int, NEW p \in [Symbol -> Position],
         NEW k \in [Symbol -> Nat], NEW d \in BOOLEAN, NEW t \in Int
  PROVE  Sheet(q, c, p, k, d, t) \in DeskRec
BY DEF DeskRec, DeskState, Sheet

LEMMA DeskIs ==
  ASSUME NEW e \in DeskRec
  PROVE  \E q \in Seq(DealRec), c \in Int, p \in [Symbol -> Position], k \in [Symbol -> Nat],
            d \in BOOLEAN, t \in Int : e = Sheet(q, c, p, k, d, t)
<1> DEFINE st == e.state
<1>1. /\ st.cash \in Int /\ st.pos \in [Symbol -> Position] /\ st.cool \in [Symbol -> Nat]
      /\ st.disabled \in BOOLEAN /\ st.peak \in Int /\ e.deals \in Seq(DealRec)
  BY DEF DeskRec, DeskState
<1>2. e = [state |-> e.state, deals |-> e.deals]
  BY DEF DeskRec
<1>3. st = [cash |-> st.cash, pos |-> st.pos, cool |-> st.cool, disabled |-> st.disabled,
            peak |-> st.peak]
  BY DEF DeskRec, DeskState
<1>4. e = Sheet(e.deals, st.cash, st.pos, st.cool, st.disabled, st.peak)
  BY <1>2, <1>3, Zenon DEF Sheet
<1> QED BY <1>1, <1>4

LEMMA FlowIsInt ==
  ASSUME NEW x, x.qty \in Nat, x.price \in Nat
  PROVE  Flow(x) \in Int
<1>1. \A a \in {1, -1} : a * x.qty \in Int
  OBVIOUS
<1>2. \A a \in Int : a * x.price \in Int
  OBVIOUS
<1> QED BY <1>1, <1>2 DEF Flow

\* Closing a position that is held is one deal.
LEMMA ClosedShape ==
  ASSUME policy \in PolicyType, NEW e \in DeskRec, NEW s \in Symbol, NEW price \in Nat
  PROVE  Closed(e, s, price) = e \/ \E x \in DealRec : ClosedBy(e, Closed(e, s, price), x)
<1>1. PICK q \in Seq(DealRec), c \in Int, p \in [Symbol -> Position], k \in [Symbol -> Nat],
         d \in BOOLEAN, t \in Int : e = Sheet(q, c, p, k, d, t)
  BY DeskIs
<1> DEFINE x == [s |-> s, entry |-> FALSE, qty |-> p[s].qty, price |-> price, idx |-> Len(q)]
           pos == [p EXCEPT ![s].qty = 0]
           cool == [k EXCEPT ![s] = OrZero(policy.cooldown, @)]
           f == Closed(e, s, price)
<1>2. /\ e.deals = q /\ e.state.cash = c /\ e.state.pos = p /\ e.state.cool = k
      /\ e.state.disabled = d
  BY <1>1, SheetParts
<1>3. CASE s \notin Held(e)
  BY <1>3 DEF Closed
<1>4. CASE s \in Held(e)
  <2>1. p[s] \in Position /\ p[s].qty > 0 /\ p[s].qty \in Nat
    BY <1>2, <1>4 DEF Held, Position
  <2>2. x \in DealRec /\ Deal(e, s, FALSE, e.state.pos[s].qty, price) = x
    BY <1>2, <2>1 DEF DealRec, Deal
  <2>3. x.s = s /\ x.entry = FALSE /\ x.qty = p[s].qty /\ x.idx = Len(q)
    OBVIOUS
  <2>4. x.qty \in Nat /\ x.price \in Nat
    BY <2>1
  <2> HIDE DEF x
  <2>5. Flow(x) \in Int /\ c + Flow(x) \in Int
    BY <2>4, FlowIsInt
  <2>6. f = Sheet(Append(q, x), c + Flow(x), pos, cool, d, t)
    <3>1. f = [deals |-> Append(e.deals, x),
               state |-> [e.state EXCEPT !.cash = @ + Flow(x), !.pos[s].qty = 0,
                                         !.cool[s] = OrZero(policy.cooldown, @)]]
      BY <1>4, <2>2, Zenon DEF Closed
    <3> HIDE DEF f
    <3> QED BY <1>1, <3>1 DEF Sheet
  <2>7. /\ pos \in [Symbol -> Position] /\ pos[s].qty = 0
        /\ \A r \in Symbol \ {s} : pos[r].qty = p[r].qty
    BY <2>1 DEF Position
  <2>8. cool \in [Symbol -> Nat]
    BY DEF OrZero, PolicyType
  <2>9. Append(q, x) \in Seq(DealRec)
    BY <2>2
  <2> HIDE DEF f, pos, cool
  <2>10. f \in DeskRec
    BY <2>5, <2>6, <2>7, <2>8, <2>9, MakeDesk
  <2>11. /\ f.deals = Append(q, x) /\ f.state.cash = c + Flow(x) /\ f.state.pos = pos
         /\ f.state.cool = cool /\ f.state.disabled = d
    BY <2>6 DEF Sheet
  <2>12. ClosedBy(e, f, x)
    BY <1>2, <2>2, <2>3, <2>7, <2>10, <2>11 DEF ClosedBy, DealtWith, cool
  <2> QED BY <2>2, <2>12 DEF f
<1> QED BY <1>3, <1>4

\* Opening one that is not held is one deal, too.
LEMMA OpenedShape ==
  ASSUME policy \in PolicyType, NEW e \in DeskRec, NEW s \in Symbol, s \notin Held(e),
         NEW price \in Nat, NEW qty \in Nat \ {0}
  PROVE  \E x \in DealRec : OpenedBy(e, Opened(e, s, qty, price), x) /\ x.s = s
<1>1. PICK q \in Seq(DealRec), c \in Int, p \in [Symbol -> Position], k \in [Symbol -> Nat],
         d \in BOOLEAN, t \in Int : e = Sheet(q, c, p, k, d, t)
  BY DeskIs
<1> DEFINE x == [s |-> s, entry |-> TRUE, qty |-> qty, price |-> price, idx |-> Len(q)]
           new == [qty |-> qty, entry |-> price, peak |-> price, trough |-> price, held |-> 0,
                   top |-> p[s].top]
           pos == [p EXCEPT ![s] = new]
           f == Opened(e, s, qty, price)
<1>2. /\ e.deals = q /\ e.state.cash = c /\ e.state.pos = p /\ e.state.cool = k
      /\ e.state.disabled = d
  BY <1>1, SheetParts
<1>3. p[s] \in Position /\ p[s].qty = 0 /\ new \in Position /\ new.qty = qty
  BY <1>2 DEF Held, Position
<1>4. x \in DealRec /\ Deal(e, s, TRUE, qty, price) = x
  BY <1>2 DEF DealRec, Deal
<1>5. x.s = s /\ x.entry = TRUE /\ x.qty = qty /\ x.idx = Len(q)
  OBVIOUS
<1>6. x.qty \in Nat /\ x.price \in Nat
  OBVIOUS
<1> HIDE DEF x
<1>7. Flow(x) \in Int /\ c + Flow(x) \in Int
  BY <1>6, FlowIsInt
<1>8. f = Sheet(Append(q, x), c + Flow(x), pos, k, d, t)
  <2>1. f = [deals |-> Append(e.deals, x),
             state |-> [e.state EXCEPT !.cash = @ + Flow(x),
                          !.pos[s] = [qty |-> qty, entry |-> price, peak |-> price,
                                      trough |-> price, held |-> 0, top |-> @.top]]]
    BY <1>4, Zenon DEF Opened
  <2> HIDE DEF f
  <2> QED BY <1>1, <2>1 DEF Sheet
<1>9. /\ pos \in [Symbol -> Position] /\ pos[s].qty = qty
      /\ \A r \in Symbol \ {s} : pos[r].qty = p[r].qty
  <2> HIDE DEF new
  <2> QED BY <1>3
<1>10. Append(q, x) \in Seq(DealRec)
  BY <1>4
<1> HIDE DEF f, pos, new
<1>11. f \in DeskRec
  BY <1>7, <1>8, <1>9, <1>10, MakeDesk
<1>12. /\ f.deals = Append(q, x) /\ f.state.cash = c + Flow(x) /\ f.state.pos = pos
       /\ f.state.cool = k /\ f.state.disabled = d
  BY <1>8 DEF Sheet
<1>13. OpenedBy(e, f, x)
  BY <1>2, <1>3, <1>4, <1>5, <1>9, <1>11, <1>12 DEF OpenedBy, DealtWith
<1> QED BY <1>4, <1>5, <1>13 DEF f

\* A position that remembers something else is marked.
LEMMA MarkedShape ==
  ASSUME NEW e \in DeskRec, NEW s \in Symbol, NEW new \in Position, new.qty = e.state.pos[s].qty
  PROVE  MarkedAs(e, [e EXCEPT !.state.pos[s] = new])
<1>1. PICK q, c, p, k, d, t :
        /\ e = Sheet(q, c, p, k, d, t) /\ p \in [Symbol -> Position]
        /\ q \in Seq(DealRec) /\ c \in Int /\ k \in [Symbol -> Nat] /\ d \in BOOLEAN /\ t \in Int
  BY DeskIs, Zenon
<1> DEFINE pos == [p EXCEPT ![s] = new]
           f == [e EXCEPT !.state.pos[s] = new]
<1>2. /\ e.deals = q /\ e.state.cash = c /\ e.state.pos = p /\ e.state.cool = k
      /\ e.state.disabled = d
  BY <1>1, SheetParts
<1>3. f = Sheet(q, c, pos, k, d, t)
  <2>1. [Sheet(q, c, p, k, d, t) EXCEPT !.state.pos[s] = new] = Sheet(q, c, pos, k, d, t)
    <3>1. p \in [Symbol -> Position]
      BY <1>1
    <3> QED BY <3>1 DEF Sheet
  <2> HIDE DEF pos
  <2> QED BY <1>1, <2>1, Zenon
<1>4. pos \in [Symbol -> Position] /\ \A r \in Symbol : pos[r].qty = p[r].qty
  BY <1>1, <1>2
<1> HIDE DEF f, pos
<1>5. f \in DeskRec
  BY <1>1, <1>3, <1>4, MakeDesk
<1>6. /\ f.deals = q /\ f.state.cash = c /\ f.state.pos = pos /\ f.state.cool = k
      /\ f.state.disabled = d
  BY <1>3 DEF Sheet
<1>7. MarkedAs(e, f)
  BY <1>2, <1>4, <1>5, <1>6 DEF MarkedAs
<1> QED BY <1>7 DEF f

LEMMA MarkedSelf ==
  ASSUME NEW e \in DeskRec
  PROVE  MarkedAs(e, e) /\ ExitStep(e, e)
BY DEF MarkedAs, ExitStep

\* A body that may mark the position and then may close it.
LEMMA ExitShape ==
  ASSUME policy \in PolicyType, NEW e \in DeskRec, NEW m \in DeskRec, MarkedAs(e, m), NEW s \in Symbol,
         NEW price \in Nat
  PROVE  ExitStep(e, m) /\ ExitStep(e, Closed(m, s, price))
BY ClosedShape DEF ExitStep

LEMMA ExitStepIsDesk ==
  ASSUME NEW e, NEW f, ExitStep(e, f)
  PROVE  f \in DeskRec
BY DEF ExitStep, ClosedBy, DealtWith

\* The bodies of the loops that take leave of positions.
LEMMA BodiesExit ==
  ASSUME policy \in PolicyType, NEW view \in Views, NEW e \in DeskRec, NEW s \in Symbol
  PROVE  /\ ExitStep(e, Closed(e, s, OrZero(view[s].close, e.state.pos[s].entry)))
         /\ ExitStep(e, RiskExit(e, s, view))
         /\ \A kind : ExitStep(e, SignalExit(e, s, kind, view))
         /\ ExitStep(e, IF Quoted(view, s) THEN Closed(e, s, view[s].close) ELSE e)
         /\ \A eq \in Int : ExitStep(e, TradeGuard(e, s, eq, view))
<1>1. /\ view[s].close \in Nat /\ view[s].fill \in Nat
  BY DEF Views, QuoteRec
<1>2. e.state.pos[s] \in Position
  BY DEF DeskRec, DeskState
<1>3. MarkedAs(e, e) /\ ExitStep(e, e)
  BY MarkedSelf
<1>4. \A price \in Nat : ExitStep(e, Closed(e, s, price))
  BY <1>3, ExitShape
<1>5. ASSUME NEW new \in Position, new.qty = e.state.pos[s].qty, NEW m, m = [e EXCEPT !.state.pos[s] = new]
      PROVE  ExitStep(e, m) /\ \A price \in Nat : ExitStep(e, Closed(m, s, price))
  <2>1. MarkedAs(e, m)
    BY <1>5, MarkedShape
  <2>2. m \in DeskRec
    BY <2>1 DEF MarkedAs
  <2> QED BY <2>1, <2>2, ExitShape
<1>6. ExitStep(e, Closed(e, s, OrZero(view[s].close, e.state.pos[s].entry)))
  <2>1. OrZero(view[s].close, e.state.pos[s].entry) \in Nat
    BY <1>1, <1>2 DEF OrZero, Position
  <2> QED BY <2>1, <1>4
<1>7. ExitStep(e, RiskExit(e, s, view))
  <2> DEFINE c == view[s].close
             p == [e.state.pos[s] EXCEPT !.peak = Larger(OrZero(@, c), c), !.trough = Smaller(OrZero(@, c), c)]
             m == [e EXCEPT !.state.pos[s] = p]
  <2>1. p \in Position /\ p.qty = e.state.pos[s].qty
    BY <1>1, <1>2 DEF Position, Larger, Smaller, OrZero
  <2>2. RiskExit(e, s, view) = IF s \notin Held(e) \/ ~Quoted(view, s) THEN e
                               ELSE IF p.entry > 0 /\ Stopped(p, c) THEN Closed(m, s, view[s].fill) ELSE m
    BY Zenon DEF RiskExit
  <2> HIDE DEF p
  <2>3. m = [e EXCEPT !.state.pos[s] = p]
    OBVIOUS
  <2> HIDE DEF m
  <2>4. ExitStep(e, m) /\ ExitStep(e, Closed(m, s, view[s].fill))
    BY <1>1, <1>5, <2>1, <2>3
  <2> QED BY <1>3, <2>2, <2>4
<1>8. ASSUME NEW kind PROVE ExitStep(e, SignalExit(e, s, kind, view))
  BY <1>1, <1>3, <1>4 DEF SignalExit
<1>9. ExitStep(e, IF Quoted(view, s) THEN Closed(e, s, view[s].close) ELSE e)
  BY <1>1, <1>3, <1>4
<1>10. ASSUME NEW eq \in Int PROVE ExitStep(e, TradeGuard(e, s, eq, view))
  <2> DEFINE top == Larger(OrZero(e.state.pos[s].top, eq), eq)
             p == [e.state.pos[s] EXCEPT !.top = top]
             m == [e EXCEPT !.state.pos[s] = p]
  <2>1. p \in Position /\ p.qty = e.state.pos[s].qty
    BY <1>2 DEF Position, Larger, OrZero
  <2>2. TradeGuard(e, s, eq, view)
          = IF s \notin Held(e) \/ policy.dd_trade = 0 THEN e
            ELSE IF Drawdown(eq, top, policy.dd_trade) /\ Quoted(view, s)
            THEN Closed(m, s, view[s].close) ELSE m
    BY Zenon DEF TradeGuard
  <2> HIDE DEF p
  <2>3. m = [e EXCEPT !.state.pos[s] = p]
    OBVIOUS
  <2> HIDE DEF m
  <2>4. ExitStep(e, m) /\ ExitStep(e, Closed(m, s, view[s].close))
    BY <1>1, <1>5, <2>1, <2>3
  <2> QED BY <1>3, <2>2, <2>4
<1> QED BY <1>6, <1>7, <1>8, <1>9, <1>10

-----------------------------------------------------------------------------
(* The orders of an evaluation *)

\* The deals are numbered from 0, in the order they were made in.
Numbered(q) == \A i \in 1..Len(q) : q[i].idx = i - 1
Order(kind, x) == [key |-> Key(kind, x), deal |-> x]

LEMMA OrderType ==
  ASSUME bar \in 1..MaxBars, NEW kind \in JobKind, NEW x \in DealRec
  PROVE  Order(kind, x) \in FillRec /\ Order(kind, x).deal = x /\ Order(kind, x).key[2] = bar
BY DEF Order, Key, FillRec, DealRec

LEMMA KeyedIs ==
  ASSUME NEW kind, NEW q \in Seq(DealRec)
  PROVE  Keyed(kind, q) = {Order(kind, q[i]) : i \in 1..Len(q)}
BY DEF Keyed, Order

LEMMA KeyedType ==
  ASSUME bar \in 1..MaxBars, NEW kind \in JobKind, NEW q \in Seq(DealRec)
  PROVE  Keyed(kind, q) \subseteq FillRec /\ IsFiniteSet(Keyed(kind, q))
<1> DEFINE K == Keyed(kind, q)
           m == [i \in 1..Len(q) |-> Order(kind, q[i])]
<1>1. Len(q) \in Nat /\ \A i \in 1..Len(q) : q[i] \in DealRec
  OBVIOUS
<1>2. K \subseteq FillRec
  BY <1>1, KeyedIs, OrderType
<1>3. m \in Surjection(1..Len(q), K)
  BY KeyedIs DEF Surjection
<1>4. IsFiniteSet(1..Len(q))
  BY <1>1, FS_Interval
<1> HIDE DEF m, K
<1> QED BY <1>2, <1>3, <1>4, FS_Surjection DEF K

LEMMA NothingKeyed ==
  ASSUME NEW kind
  PROVE  Keyed(kind, <<>>) = {}
BY DEF Keyed

\* With one deal more there is one order more, with an id of its own.
LEMMA KeyedAppend ==
  ASSUME NEW kind \in JobKind, NEW q \in Seq(DealRec), Numbered(q), NEW x \in DealRec,
         x.idx = Len(q)
  PROVE  LET r == Append(q, x)
         IN  /\ r \in Seq(DealRec) /\ Numbered(r)
             /\ Keyed(kind, r) = Keyed(kind, q) \cup {Order(kind, x)}
             /\ Order(kind, x) \notin Keyed(kind, q)
             /\ Known(kind, r) = {} => Known(kind, q) = {} /\ Order(kind, x) \notin fills
<1> DEFINE r == Append(q, x)
           new == Order(kind, x)
<1>1. /\ r \in Seq(DealRec) /\ Len(r) = Len(q) + 1 /\ Len(q) \in Nat /\ r[Len(r)] = x
      /\ \A i \in 1..Len(q) : r[i] = q[i]
  OBVIOUS
<1> HIDE DEF r
<1>2. Numbered(r)
  BY <1>1 DEF Numbered
<1>3. Keyed(kind, r) = Keyed(kind, q) \cup {new}
  <2>1. Keyed(kind, r) = {Order(kind, r[i]) : i \in 1..Len(r)}
    BY <1>1, KeyedIs
  <2>2. Keyed(kind, q) = {Order(kind, q[i]) : i \in 1..Len(q)}
    BY KeyedIs
  <2>3. 1..Len(r) = (1..Len(q)) \cup {Len(r)}
    BY <1>1
  <2> QED BY <1>1, <2>1, <2>2, <2>3
<1>4. new \notin Keyed(kind, q)
  <2>1. SUFFICES ASSUME NEW i \in 1..Len(q), new = Order(kind, q[i]) PROVE FALSE
    BY KeyedIs
  <2>2. x = q[i]
    BY <2>1 DEF Order
  <2> QED BY <1>1, <2>2 DEF Numbered
<1>5. Known(kind, r) = {} => Known(kind, q) = {} /\ new \notin fills
  BY <1>3 DEF Known
<1> QED BY <1>1, <1>2, <1>3, <1>4, <1>5 DEF r

-----------------------------------------------------------------------------
(* The books grow with the orders *)

NetTerm(f) == (IF f.deal.entry = policy.short THEN -1 ELSE 1) * f.deal.qty

LEMMA TermsAreInt ==
  ASSUME NEW f \in FillRec
  PROVE  NetTerm(f) \in Int /\ Flow(f.deal) \in Int /\ f.deal \in DealRec
<1>1. f.deal \in DealRec /\ f.deal.qty \in Nat /\ f.deal.price \in Nat
  BY DEF FillRec, DealRec
<1> QED BY <1>1, FlowIsInt DEF NetTerm

LEMMA FlowsGrow ==
  ASSUME NEW T \in SUBSET FillRec, IsFiniteSet(T), NEW f \in FillRec \ T
  PROVE  Flows(T) \in Int /\ Flow(f.deal) \in Int /\ Flows(T \cup {f}) = Flows(T) + Flow(f.deal)
<1> DEFINE g == [x \in T |-> Flow(x.deal)]
           h == [x \in T \cup {f} |-> Flow(x.deal)]
<1>1. \A x \in FillRec : Flow(x.deal) \in Int
  BY TermsAreInt
<1>2. (\A x \in T : g[x] \in Int /\ h[x] = g[x]) /\ h[f] = Flow(f.deal) /\ h[f] \in Int
  BY <1>1
<1>3. Flows(T) = SumFunctionOnSet(g, T) /\ Flows(T \cup {f}) = SumFunctionOnSet(h, T \cup {f})
  BY Zenon DEF Flows, SumFunction
<1> HIDE DEF g, h
<1>4. SumFunctionOnSet(h, T \cup {f}) = SumFunctionOnSet(g, T) + h[f]
  BY ZenonT(60), <1>2, SumGains
<1>5. SumFunctionOnSet(g, T) \in Int
  BY <1>2, SumIsInt
<1> QED BY <1>2, <1>3, <1>4, <1>5

LEMMA NetGrows ==
  ASSUME NEW T \in SUBSET FillRec, IsFiniteSet(T), NEW f \in FillRec \ T, NEW s \in Symbol
  PROVE  /\ Net(T, s) \in Int /\ NetTerm(f) \in Int
         /\ Net(T \cup {f}, s) = Net(T, s) + (IF f.deal.s = s THEN NetTerm(f) ELSE 0)
<1> DEFINE A == {x \in T : x.deal.s = s}
           B == {x \in T \cup {f} : x.deal.s = s}
           g == [x \in A |-> NetTerm(x)]
           h == [x \in B |-> NetTerm(x)]
<1>1. \A x \in FillRec : NetTerm(x) \in Int
  BY TermsAreInt
<1>2. IsFiniteSet(A) /\ A \subseteq FillRec /\ f \notin A
  BY FS_Subset
<1>3. Net(T, s) = SumFunctionOnSet(g, A) /\ Net(T \cup {f}, s) = SumFunctionOnSet(h, B)
  BY Zenon DEF Net, SumFunction, NetTerm
<1>4. \A x \in A : g[x] \in Int /\ g[x] = NetTerm(x)
  BY <1>1, <1>2
<1>5. Net(T, s) \in Int
  <2> HIDE DEF A, g
  <2> QED BY <1>2, <1>3, <1>4, SumIsInt
<1>6. CASE f.deal.s = s
  <2>1. B = A \cup {f}
    BY <1>6
  <2>2. (\A x \in A : h[x] = g[x]) /\ h[f] = NetTerm(f)
    BY <1>6
  <2> HIDE DEF A, B, g, h
  <2>3. SumFunctionOnSet(h, A \cup {f}) = SumFunctionOnSet(g, A) + h[f]
    BY <1>1, <1>2, <1>4, <2>2, SumGains
  <2> QED BY <1>1, <1>3, <1>5, <1>6, <2>1, <2>2, <2>3
<1>7. CASE f.deal.s # s
  <2>1. B = A
    BY <1>7
  <2>2. Net(T \cup {f}, s) = Net(T, s)
    <3>1. h = g
      BY <2>1
    <3> HIDE DEF A, B, g, h
    <3> QED BY <1>3, <2>1, <3>1
  <2> QED BY <1>1, <1>5, <1>7, <2>2
<1> QED BY <1>6, <1>7

LEMMA DeskQty ==
  ASSUME NEW e \in DeskRec, NEW s \in Symbol
  PROVE  e.state.pos[s].qty \in Nat
BY DEF DeskRec, DeskState, Position

\* Closing or opening a position keeps the books in step with the orders.
LEMMA BookedDeal ==
  ASSUME policy \in PolicyType, bar \in 1..MaxBars, NEW kind \in JobKind,
         NEW e, NEW f, NEW x, ClosedBy(e, f, x) \/ OpenedBy(e, f, x),
         NEW T \in SUBSET FillRec, IsFiniteSet(T), Order(kind, x) \notin T, Booked(e.state, T)
  PROVE  Booked(f.state, T \cup {Order(kind, x)})
<1> DEFINE o == Order(kind, x)
           U == T \cup {o}
<1>1. DealtWith(e, f, x)
  BY DEF ClosedBy, OpenedBy
<1>2. o \in FillRec \ T /\ o.deal = x /\ x \in DealRec /\ x.s \in Symbol /\ x.qty \in Nat /\ x.entry \in BOOLEAN
  BY <1>1, OrderType DEF DealtWith, DealRec
<1>3. e \in DeskRec /\ f \in DeskRec
  BY <1>1 DEF DealtWith
<1>4. policy.short \in BOOLEAN
  BY DEF PolicyType
<1> HIDE DEF o
<1>5. f.state.cash = Capital + Flows(U)
  <2>1. Flows(U) = Flows(T) + Flow(x) /\ Flows(T) \in Int /\ Flow(x) \in Int
    BY <1>2, FlowsGrow
  <2>2. f.state.cash = e.state.cash + Flow(x) /\ e.state.cash = Capital + Flows(T)
    BY <1>1 DEF DealtWith, Booked
  <2> HIDE DEF U
  <2> QED BY <2>1, <2>2, PriceAssumption
<1>6. ASSUME NEW s \in Symbol PROVE Net(U, s) = Sign * f.state.pos[s].qty
  <2>1. /\ Net(T, s) \in Int /\ NetTerm(o) \in Int
        /\ Net(U, s) = Net(T, s) + (IF x.s = s THEN NetTerm(o) ELSE 0)
    BY <1>2, NetGrows
  <2>2. Net(T, s) = Sign * e.state.pos[s].qty
    BY DEF Booked
  <2>3. e.state.pos[s].qty \in Nat /\ f.state.pos[s].qty \in Nat
    BY <1>3, DeskQty
  <2>4. CASE x.s # s
    <3>1. f.state.pos[s].qty = e.state.pos[s].qty
      BY <1>1, <2>4 DEF DealtWith
    <3> QED BY <2>1, <2>2, <2>4, <3>1
  <2>5. CASE x.s = s
    <3>1. NetTerm(o) = (IF x.entry = policy.short THEN -1 ELSE 1) * x.qty
      BY <1>2 DEF NetTerm
    <3>2. CASE ClosedBy(e, f, x)
      <4>1. x.entry = FALSE /\ x.qty = e.state.pos[s].qty /\ f.state.pos[s].qty = 0
        BY <1>2, <2>5, <3>2 DEF ClosedBy
      <4>2. Sign * e.state.pos[s].qty + NetTerm(o) = 0
        <5>1. CASE policy.short = TRUE
          <6>1. NetTerm(o) = 1 * x.qty /\ Sign = -1
            BY <3>1, <4>1, <5>1 DEF Sign
          <6> QED BY <2>3, <4>1, <6>1
        <5>2. CASE policy.short = FALSE
          <6>1. NetTerm(o) = (-1) * x.qty /\ Sign = 1
            BY <3>1, <4>1, <5>2 DEF Sign
          <6> QED BY <2>3, <4>1, <6>1
        <5> QED BY <1>4, <5>1, <5>2
      <4>3. Sign * f.state.pos[s].qty = 0
        BY <4>1 DEF Sign
      <4> QED BY <2>1, <2>2, <2>5, <4>2, <4>3
    <3>3. CASE OpenedBy(e, f, x)
      <4>1. x.entry = TRUE /\ e.state.pos[s].qty = 0 /\ f.state.pos[s].qty = x.qty
        BY <1>2, <2>5, <3>3 DEF OpenedBy
      <4>2. NetTerm(o) = Sign * x.qty
        <5>1. CASE policy.short = TRUE
          BY <3>1, <4>1, <5>1 DEF Sign
        <5>2. CASE policy.short = FALSE
          BY <3>1, <4>1, <5>2 DEF Sign
        <5> QED BY <1>4, <5>1, <5>2
      <4>3. Sign * e.state.pos[s].qty = 0
        BY <4>1 DEF Sign
      <4> QED BY <2>1, <2>2, <2>5, <4>1, <4>2, <4>3
    <3> QED BY <3>2, <3>3
  <2> QED BY <2>4, <2>5
<1> QED BY <1>5, <1>6 DEF Booked, o

\* What the books have to do with a desk are its cash and its quantities.
LEMMA BookedMarked ==
  ASSUME NEW e, NEW f, MarkedAs(e, f), NEW T, Booked(e.state, T)
  PROVE  Booked(f.state, T)
BY DEF MarkedAs, Booked

LEMMA CoveredMarked ==
  ASSUME NEW e, NEW f, MarkedAs(e, f), NEW T, NEW sp, Covered(e.state, T, sp)
  PROVE  Covered(f.state, T, sp)
BY Zenon DEF MarkedAs, Covered

\* The entries of a position's bar, with one order more.
LEMMA EntriesGrow ==
  ASSUME bar \in 1..MaxBars, NEW kind \in JobKind, NEW x \in DealRec, NEW T, NEW s, NEW b
  PROVE  EntriesIn(T \cup {Order(kind, x)}, s, b)
           = IF x.s = s /\ x.entry /\ b = bar THEN EntriesIn(T, s, b) \cup {Order(kind, x)} ELSE EntriesIn(T, s, b)
BY OrderType DEF EntriesIn

\* Closing a position cancels its stop.
LEMMA CoveredClosed ==
  ASSUME policy \in PolicyType, bar \in 1..MaxBars, NEW kind \in JobKind,
         NEW e, NEW f, NEW x, ClosedBy(e, f, x),
         NEW T, NEW sp \in StopRec, Covered(e.state, T, sp)
  PROVE  Covered(f.state, T \cup {Order(kind, x)}, WithoutStop(sp, x.s))
<1> DEFINE U == T \cup {Order(kind, x)}
           r == x.s
           sq == WithoutStop(sp, r)
<1>1. /\ e \in DeskRec /\ f \in DeskRec /\ x \in DealRec /\ r \in Symbol /\ ~x.entry
      /\ f.state.pos[r].qty = 0
      /\ \A s \in Symbol \ {r} : f.state.pos[s].qty = e.state.pos[s].qty
  BY DEF ClosedBy, DealtWith, DealRec
<1>2. ASSUME NEW s, NEW b PROVE EntriesIn(U, s, b) = EntriesIn(T, s, b)
  <2>1. Order(kind, x).deal = x
    BY <1>1, OrderType
  <2> QED BY <1>1, <2>1 DEF EntriesIn
<1>3. \A s \in Symbol \ {r} : sq.row[s] = sp.row[s] /\ sq.at[s] = sp.at[s]
  BY <1>1 DEF WithoutStop, StopRec
<1>4. /\ sq.at[r] = 0
      /\ \A b \in 1..MaxBars : sq.row[r][b] = IF b = sp.at[r] THEN "cancelled" ELSE sp.row[r][b]
  <2>1. sp.at[r] \in 0..MaxBars /\ sp.row[r] \in [1..MaxBars -> {"none", "waiting", "cancelled"}]
    BY <1>1 DEF StopRec
  <2>2. CASE sp.at[r] = 0
    BY <2>1, <2>2, PriceAssumption DEF WithoutStop
  <2>3. CASE sp.at[r] # 0
    BY <1>1, <2>1, <2>3, PriceAssumption DEF WithoutStop, StopRec
  <2> QED BY <2>2, <2>3
<1> HIDE DEF U, sq
<1>5. ASSUME NEW s \in Symbol
      PROVE  /\ \A b \in 1..MaxBars : sq.row[s][b] = "waiting" => f.state.pos[s].qty > 0 /\ sq.at[s] = b
             /\ \A b \in 1..MaxBars : sq.row[s][b] # "none" => EntriesIn(U, s, b) # {}
             /\ sq.at[s] # 0 => sq.row[s][sq.at[s]] # "none"
             /\ policy.sl > 0 /\ f.state.pos[s].qty > 0 =>
                  /\ sq.at[s] # 0
                  /\ Cardinality(EntriesIn(U, s, sq.at[s])) = 1 => sq.row[s][sq.at[s]] = "waiting"
  <2>1. CASE s # r
    <3>1. sq.row[s] = sp.row[s] /\ sq.at[s] = sp.at[s] /\ f.state.pos[s].qty = e.state.pos[s].qty
      BY <1>1, <1>3, <2>1
    <3>2. /\ \A b \in 1..MaxBars : sp.row[s][b] = "waiting" => e.state.pos[s].qty > 0 /\ sp.at[s] = b
          /\ \A b \in 1..MaxBars : sp.row[s][b] # "none" => EntriesIn(T, s, b) # {}
          /\ sp.at[s] # 0 => sp.row[s][sp.at[s]] # "none"
          /\ policy.sl > 0 /\ e.state.pos[s].qty > 0 =>
               /\ sp.at[s] # 0
               /\ Cardinality(EntriesIn(T, s, sp.at[s])) = 1 => sp.row[s][sp.at[s]] = "waiting"
      BY Zenon DEF Covered
    <3>3. \A b : EntriesIn(U, s, b) = EntriesIn(T, s, b)
      BY <1>2
    <3> QED BY <3>1, <3>2, <3>3
  <2>2. CASE s = r
    <3>1. ASSUME NEW b \in 1..MaxBars PROVE sq.row[s][b] # "waiting"
      BY <1>1, <1>4, <2>2 DEF Covered
    <3>2. ASSUME NEW b \in 1..MaxBars, sq.row[s][b] # "none" PROVE EntriesIn(U, s, b) # {}
      BY <1>1, <1>2, <1>4, <2>2, <3>2 DEF Covered
    <3> QED BY <1>1, <1>4, <2>2, <3>1, <3>2
  <2> QED BY <2>1, <2>2
<1>6. Covered(f.state, U, sq)
  BY <1>5, Zenon DEF Covered
<1> QED BY <1>6 DEF U, sq

\* Opening a position places its stop, unless one had been placed in this bar.
LEMMA CoveredOpened ==
  ASSUME policy \in PolicyType, bar \in 1..MaxBars, NEW kind \in JobKind,
         NEW e, NEW f, NEW x, OpenedBy(e, f, x),
         NEW T \in SUBSET FillRec, IsFiniteSet(T), Order(kind, x) \notin T,
         NEW sp \in StopRec, Covered(e.state, T, sp)
  PROVE  Covered(f.state, T \cup {Order(kind, x)}, WithStop(sp, x.s))
<1> DEFINE o == Order(kind, x)
           U == T \cup {o}
           r == x.s
           sq == WithStop(sp, r)
<1>1. /\ e \in DeskRec /\ f \in DeskRec /\ x \in DealRec /\ r \in Symbol /\ x.entry = TRUE
      /\ e.state.pos[r].qty = 0
      /\ \A s \in Symbol \ {r} : f.state.pos[s].qty = e.state.pos[s].qty
  BY DEF OpenedBy, DealtWith, DealRec
<1>2. f.state.pos[r].qty > 0
  BY <1>1 DEF OpenedBy, DealRec
<1>3. o.deal = x /\ o.key[2] = bar /\ o \notin T /\ bar \in Nat
  BY <1>1, OrderType, PriceAssumption
<1>4. /\ \A s \in Symbol \ {r}, b \in Nat : EntriesIn(U, s, b) = EntriesIn(T, s, b)
      /\ \A b \in Nat : EntriesIn(U, r, b) = IF b = bar THEN EntriesIn(T, r, b) \cup {o} ELSE EntriesIn(T, r, b)
  <2> HIDE DEF o
  <2> QED BY <1>1, <1>3 DEF EntriesIn
<1>5. \A s \in Symbol :
        /\ \A b \in 1..MaxBars : sp.row[s][b] = "waiting" => e.state.pos[s].qty > 0 /\ sp.at[s] = b
        /\ \A b \in 1..MaxBars : sp.row[s][b] # "none" => EntriesIn(T, s, b) # {}
        /\ sp.at[s] # 0 => sp.row[s][sp.at[s]] # "none"
        /\ policy.sl > 0 /\ e.state.pos[s].qty > 0 =>
             /\ sp.at[s] # 0
             /\ Cardinality(EntriesIn(T, s, sp.at[s])) = 1 => sp.row[s][sp.at[s]] = "waiting"
  BY Zenon DEF Covered
<1>6. \A s \in Symbol : sp.at[s] \in 0..MaxBars /\ sp.row[s] \in [1..MaxBars -> {"none", "waiting", "cancelled"}]
  BY DEF StopRec
<1>7. \A s \in Symbol \ {r} : sq.row[s] = sp.row[s] /\ sq.at[s] = sp.at[s]
  BY <1>1 DEF WithStop, StopRec
<1>8. IF policy.sl = 0 THEN sq.row[r] = sp.row[r] /\ sq.at[r] = 0
      ELSE /\ sq.at[r] = bar
           /\ \A b \in 1..MaxBars : sq.row[r][b] = IF b = bar /\ sp.row[r][b] = "none" THEN "waiting"
                                                   ELSE sp.row[r][b]
  <2>1. CASE policy.sl = 0
    BY <1>1, <2>1 DEF WithStop, StopRec
  <2>2. CASE policy.sl # 0
    BY <1>1, <1>6, <2>2 DEF WithStop, StopRec
  <2> QED BY <2>1, <2>2
<1>9. Cardinality(EntriesIn(U, r, bar)) = 1 => EntriesIn(T, r, bar) = {}
  <2> DEFINE A == EntriesIn(T, r, bar)
  <2>1. IsFiniteSet(A) /\ o \notin A
    BY <1>3, FS_Subset DEF EntriesIn
  <2>2. Cardinality(A \cup {o}) = Cardinality(A) + 1 /\ Cardinality(A) \in Nat
    BY <2>1, FS_AddElement, FS_CardinalityType
  <2>3. EntriesIn(U, r, bar) = A \cup {o}
    BY <1>3, <1>4
  <2>4. Cardinality(A) = 0 => A = {}
    BY <2>1, FS_EmptySet
  <2> HIDE DEF A
  <2>5. ASSUME Cardinality(EntriesIn(U, r, bar)) = 1 PROVE A = {}
    <3>1. Cardinality(A) + 1 = 1
      BY <2>2, <2>3, <2>5
    <3> QED BY <2>2, <2>4, <3>1
  <2> QED BY <2>5 DEF A
<1> HIDE DEF U, sq, o
<1>10. ASSUME NEW s \in Symbol
       PROVE  /\ \A b \in 1..MaxBars : sq.row[s][b] = "waiting" => f.state.pos[s].qty > 0 /\ sq.at[s] = b
              /\ \A b \in 1..MaxBars : sq.row[s][b] # "none" => EntriesIn(U, s, b) # {}
              /\ sq.at[s] # 0 => sq.row[s][sq.at[s]] # "none"
              /\ policy.sl > 0 /\ f.state.pos[s].qty > 0 =>
                   /\ sq.at[s] # 0
                   /\ Cardinality(EntriesIn(U, s, sq.at[s])) = 1 => sq.row[s][sq.at[s]] = "waiting"
  <2>1. CASE s # r
    <3>1. sq.row[s] = sp.row[s] /\ sq.at[s] = sp.at[s] /\ f.state.pos[s].qty = e.state.pos[s].qty
      BY <1>1, <1>7, <2>1
    <3>2. sp.at[s] \in Nat /\ \A b \in 1..MaxBars : b \in Nat
      BY <1>6, PriceAssumption
    <3>3. \A b \in Nat : EntriesIn(U, s, b) = EntriesIn(T, s, b)
      BY <1>4, <2>1
    <3> QED BY <1>5, <3>1, <3>2, <3>3
  <2>2. CASE s = r
    <3>1. \A b \in 1..MaxBars : sp.row[r][b] # "waiting"
      BY <1>1, <1>5
    <3>2. \A b \in 1..MaxBars : b \in Nat /\ (sp.row[r][b] # "none" => EntriesIn(U, r, b) # {})
      <4>1. \A b \in 1..MaxBars : b \in Nat
        BY PriceAssumption
      <4>2. \A b \in Nat : EntriesIn(T, r, b) # {} => EntriesIn(U, r, b) # {}
        BY <1>4
      <4> QED BY <1>1, <1>5, <4>1, <4>2
    <3>3. CASE policy.sl = 0
      BY <1>2, <1>8, <2>2, <3>1, <3>2, <3>3
    <3>4. CASE policy.sl # 0
      <4>1. EntriesIn(U, r, bar) # {}
        BY <1>3, <1>4
      <4>2. sq.at[r] = bar /\ bar # 0
        BY <1>8, <3>4, PriceAssumption
      <4>3. \A b \in 1..MaxBars : sq.row[r][b] = IF b = bar /\ sp.row[r][b] = "none" THEN "waiting"
                                                ELSE sp.row[r][b]
        BY <1>8, <3>4
      <4>4. \A b \in 1..MaxBars : /\ sq.row[r][b] = "waiting" => b = bar
                                  /\ sq.row[r][b] # "none" => EntriesIn(U, r, b) # {}
        BY <3>1, <3>2, <4>1, <4>3
      <4>5. sq.row[r][bar] # "none"
        BY <4>3
      <4>6. Cardinality(EntriesIn(U, r, bar)) = 1 => sq.row[r][bar] = "waiting"
        BY <1>1, <1>5, <1>9, <4>3
      <4> QED BY <1>2, <2>2, <4>2, <4>4, <4>5, <4>6
    <3> QED BY <3>3, <3>4
  <2> QED BY <2>1, <2>2
<1>11. Covered(f.state, U, sq)
  BY <1>10, Zenon DEF Covered
<1> QED BY <1>11 DEF U, sq, o

-----------------------------------------------------------------------------
(* Desks that are in order *)

GoodDesk(kind) ==
  {e \in DeskRec :
     /\ Numbered(e.deals)
     /\ Unspoiled /\ Known(kind, e.deals) = {} =>
          /\ Booked(e.state, fills \cup Keyed(kind, e.deals))
          /\ Covered(e.state, fills \cup Keyed(kind, e.deals), StopsAfter(e.deals))}
\* What the lemmas below take from the invariant.
Setting ==
  /\ policy \in PolicyType /\ bar \in 1..MaxBars /\ stops \in StopRec
  /\ fills \subseteq FillRec /\ IsFiniteSet(fills)

LEMMA GoodMarked ==
  ASSUME NEW kind, NEW e \in GoodDesk(kind), NEW f, MarkedAs(e, f)
  PROVE  f \in GoodDesk(kind)
<1>1. f \in DeskRec /\ f.deals = e.deals
  BY DEF MarkedAs
<1> QED BY <1>1, BookedMarked, CoveredMarked DEF GoodDesk

LEMMA GoodDealt ==
  ASSUME Setting, NEW kind \in JobKind, NEW e \in GoodDesk(kind), NEW f, NEW x,
         ClosedBy(e, f, x) \/ OpenedBy(e, f, x)
  PROVE  f \in GoodDesk(kind)
<1> DEFINE o == Order(kind, x)
           q == e.deals
           T == fills \cup Keyed(kind, q)
<1>1. /\ f \in DeskRec /\ x \in DealRec /\ f.deals = Append(q, x) /\ x.idx = Len(q)
      /\ q \in Seq(DealRec) /\ Numbered(q)
  BY DEF ClosedBy, OpenedBy, DealtWith, GoodDesk, DeskRec
<1>2. /\ Numbered(f.deals) /\ Keyed(kind, f.deals) = Keyed(kind, q) \cup {o}
      /\ o \notin Keyed(kind, q)
      /\ Known(kind, f.deals) = {} => Known(kind, q) = {} /\ o \notin fills
  BY <1>1, KeyedAppend
<1>3. ASSUME Unspoiled, Known(kind, f.deals) = {}
      PROVE  /\ Booked(f.state, fills \cup Keyed(kind, f.deals))
             /\ Covered(f.state, fills \cup Keyed(kind, f.deals), StopsAfter(f.deals))
  <2>1. Booked(e.state, T) /\ Covered(e.state, T, StopsAfter(q))
    BY <1>2, <1>3 DEF GoodDesk
  <2>2. T \in SUBSET FillRec /\ IsFiniteSet(T) /\ o \notin T
    <3>1. Keyed(kind, q) \subseteq FillRec /\ IsFiniteSet(Keyed(kind, q))
      BY <1>1, KeyedType DEF Setting
    <3>2. IsFiniteSet(fills \cup Keyed(kind, q))
      BY <3>1, FS_Union DEF Setting
    <3> QED BY <1>2, <1>3, <3>1, <3>2 DEF Setting
  <2>3. fills \cup Keyed(kind, f.deals) = T \cup {o}
    BY <1>2
  <2>4. StopsAfter(f.deals) = StopStep(StopsAfter(q), x) /\ StopsAfter(q) \in StopRec
    BY <1>1, StopsAfterAppend, StopsAfterType DEF Setting
  <2> HIDE DEF T, o
  <2>5. Booked(f.state, T \cup {o})
    BY <2>1, <2>2, BookedDeal DEF Setting, o
  <2>6. Covered(f.state, T \cup {o}, StopsAfter(f.deals))
    <3>1. CASE ClosedBy(e, f, x)
      <4>1. StopsAfter(f.deals) = WithoutStop(StopsAfter(q), x.s)
        BY <2>4, <3>1 DEF StopStep, ClosedBy
      <4> QED BY <2>1, <2>4, <3>1, <4>1, CoveredClosed DEF Setting, o
    <3>2. CASE OpenedBy(e, f, x)
      <4>1. StopsAfter(f.deals) = WithStop(StopsAfter(q), x.s)
        BY <2>4, <3>2 DEF StopStep, OpenedBy
      <4> QED BY <2>1, <2>2, <2>4, <3>2, <4>1, CoveredOpened DEF Setting, o
    <3> QED BY <3>1, <3>2
  <2> QED BY <2>3, <2>5, <2>6
<1> QED BY <1>1, <1>2, <1>3 DEF GoodDesk

\* While positions are left: nothing is entered, what was held no longer grows,
\* the guard stays, and what has been left cools down.
Leaving(kind, b) ==
  {e \in GoodDesk(kind) :
     /\ \A i \in 1..Len(e.deals) : ~e.deals[i].entry /\ policy.cooldown <= e.state.cool[e.deals[i].s]
     /\ Held(e) \subseteq Held(b)
     /\ b.state.disabled => e.state.disabled
     /\ \A s \in Symbol : b.state.cool[s] <= e.state.cool[s] \/ policy.cooldown <= e.state.cool[s]}

LEMMA LeavingStays ==
  ASSUME Setting, NEW kind \in JobKind, NEW b, NEW e \in Leaving(kind, b), NEW f, ExitStep(e, f)
  PROVE  f \in Leaving(kind, b)
<1>1. PICK m \in DeskRec : MarkedAs(e, m) /\ (f = m \/ \E x \in DealRec : ClosedBy(m, f, x))
  BY DEF ExitStep
<1>2. m \in Leaving(kind, b)
  <2>1. m \in GoodDesk(kind)
    BY <1>1, GoodMarked DEF Leaving
  <2>2. /\ m.deals = e.deals /\ m.state.cool = e.state.cool /\ m.state.disabled = e.state.disabled
        /\ Held(m) = Held(e)
    BY <1>1 DEF MarkedAs, Held
  <2> QED BY <2>1, <2>2 DEF Leaving
<1>3. ASSUME NEW x \in DealRec, ClosedBy(m, f, x) PROVE f \in Leaving(kind, b)
  <2>1. f \in GoodDesk(kind)
    BY <1>2, <1>3, GoodDealt DEF Leaving
  <2>2. /\ m \in DeskRec /\ f \in DeskRec /\ f.deals = Append(m.deals, x) /\ ~x.entry /\ x.s \in Symbol
        /\ f.state.disabled = m.state.disabled /\ f.state.pos[x.s].qty = 0
        /\ \A s \in Symbol \ {x.s} : f.state.pos[s].qty = m.state.pos[s].qty
        /\ f.state.cool = [m.state.cool EXCEPT ![x.s] = OrZero(policy.cooldown, @)]
        /\ m.deals \in Seq(DealRec) /\ m.state.cool \in [Symbol -> Nat] /\ policy.cooldown \in Nat
    BY <1>3 DEF ClosedBy, DealtWith, DealRec, DeskRec, DeskState, Setting, PolicyType
  <2>3. Held(f) \subseteq Held(m)
    <3>1. ASSUME NEW s \in Held(f) PROVE s \in Held(m)
      <4>1. s \in Symbol /\ f.state.pos[s].qty > 0
        BY <3>1 DEF Held
      <4>2. s # x.s
        BY <2>2, <4>1
      <4>3. m.state.pos[s].qty > 0
        BY <2>2, <4>1, <4>2
      <4> QED BY <4>1, <4>3 DEF Held
    <3> QED BY <3>1
  <2>4. \A s \in Symbol : /\ f.state.cool[s] \in Nat
                          /\ f.state.cool[s] = m.state.cool[s] \/ policy.cooldown <= f.state.cool[s]
    BY <2>2 DEF OrZero
  <2>5. policy.cooldown <= f.state.cool[x.s]
    BY <2>2 DEF OrZero
  <2>6. ASSUME NEW i \in 1..Len(f.deals)
        PROVE  ~f.deals[i].entry /\ policy.cooldown <= f.state.cool[f.deals[i].s]
    <3>1. CASE i = Len(m.deals) + 1
      <4>1. f.deals[i] = x
        BY <2>2, <3>1
      <4> QED BY <2>2, <2>5, <4>1
    <3>2. CASE i # Len(m.deals) + 1
      <4>1. i \in 1..Len(m.deals) /\ f.deals[i] = m.deals[i] /\ m.deals[i].s \in Symbol
        <5>1. Len(m.deals) \in Nat /\ Len(f.deals) = Len(m.deals) + 1
          BY <2>2
        <5>2. i \in 1..Len(m.deals)
          BY <3>2, <5>1
        <5>3. f.deals[i] = m.deals[i] /\ m.deals[i] \in DealRec
          BY <2>2, <5>2
        <5> QED BY <5>2, <5>3 DEF DealRec
      <4>2. ~m.deals[i].entry /\ policy.cooldown <= m.state.cool[m.deals[i].s]
        BY <1>2, <4>1 DEF Leaving
      <4> QED BY <2>4, <4>1, <4>2
    <3> QED BY <3>1, <3>2
  <2>7. Held(m) \subseteq Held(b) /\ (b.state.disabled => m.state.disabled)
    BY <1>2 DEF Leaving
  <2>8. \A s \in Symbol : b.state.cool[s] <= f.state.cool[s] \/ policy.cooldown <= f.state.cool[s]
    <3>1. \A s \in Symbol : b.state.cool[s] <= m.state.cool[s] \/ policy.cooldown <= m.state.cool[s]
      BY <1>2 DEF Leaving
    <3> QED BY <2>4, <3>1
  <2> QED BY <2>1, <2>2, <2>3, <2>6, <2>7, <2>8 DEF Leaving
<1> QED BY <1>1, <1>2, <1>3

LEMMA LeavingIsDesk ==
  ASSUME NEW kind, NEW b, NEW e \in Leaving(kind, b)
  PROVE  e \in DeskRec /\ e \in GoodDesk(kind)
BY DEF Leaving, GoodDesk

LEMMA EquityIsInt ==
  ASSUME policy \in PolicyType, NEW view \in Views, NEW e \in DeskRec
  PROVE  Equity(e, view) \in Int
<1> DEFINE g == [s \in Symbol |-> Worth(e, s, view[s].close)]
<1>1. e.state.cash \in Int
  BY DEF DeskRec, DeskState
<1>2. IsFiniteSet(Held(e)) /\ Held(e) \subseteq Symbol
  BY SymbolsFact, FS_Subset DEF Held
<1>3. \A s \in Symbol : g[s] \in Int
  <2>1. ASSUME NEW s \in Symbol PROVE Worth(e, s, view[s].close) \in Int
    <3>1. e.state.pos[s].qty \in Nat /\ view[s].close \in Nat
      BY DeskQty DEF Views, QuoteRec
    <3>2. \A a \in {1, -1} : a * e.state.pos[s].qty \in Int
      BY <3>1
    <3>3. \A a \in Int : a * view[s].close \in Int
      BY <3>1
    <3> QED BY <3>2, <3>3 DEF Worth
  <2> QED BY <2>1
<1>4. Equity(e, view) = e.state.cash + SumFunctionOnSet(g, Held(e))
  BY Zenon DEF Equity
<1> HIDE DEF g
<1>5. SumFunctionOnSet(g, Held(e)) \in Int
  BY <1>2, <1>3, SumIsInt
<1> QED BY <1>1, <1>4, <1>5

\* Raising the peak of the equity, or ending trading.
LEMMA Raised ==
  ASSUME NEW e \in DeskRec, NEW peak \in Int, NEW f, f = [e EXCEPT !.state.peak = peak]
  PROVE  MarkedAs(e, f)
<1>1. PICK q, c, p, k, d, t :
        /\ e = Sheet(q, c, p, k, d, t) /\ p \in [Symbol -> Position]
        /\ q \in Seq(DealRec) /\ c \in Int /\ k \in [Symbol -> Nat] /\ d \in BOOLEAN /\ t \in Int
  BY DeskIs, Zenon
<1>2. f = Sheet(q, c, p, k, d, peak)
  <2>1. [Sheet(q, c, p, k, d, t) EXCEPT !.state.peak = peak] = Sheet(q, c, p, k, d, peak)
    BY DEF Sheet
  <2> QED BY <1>1, <2>1, Zenon
<1>3. f \in DeskRec
  BY SMTT(30), <1>1, <1>2, MakeDesk
<1>4. /\ f.deals = q /\ f.state.cash = c /\ f.state.pos = p /\ f.state.cool = k /\ f.state.disabled = d
      /\ e.deals = q /\ e.state.cash = c /\ e.state.pos = p /\ e.state.cool = k /\ e.state.disabled = d
  BY <1>1, <1>2 DEF Sheet
<1> QED BY <1>3, <1>4 DEF MarkedAs

LEMMA Ended ==
  ASSUME NEW kind, NEW b, NEW e \in Leaving(kind, b), NEW f, f = [e EXCEPT !.state.disabled = TRUE]
  PROVE  f \in Leaving(kind, b)
<1>1. PICK q, c, p, k, d, t :
        /\ e = Sheet(q, c, p, k, d, t) /\ p \in [Symbol -> Position]
        /\ q \in Seq(DealRec) /\ c \in Int /\ k \in [Symbol -> Nat] /\ d \in BOOLEAN /\ t \in Int
  BY LeavingIsDesk, DeskIs, Zenon
<1>2. f = Sheet(q, c, p, k, TRUE, t)
  <2>1. ASSUME NEW y PROVE [Sheet(q, c, p, k, d, t) EXCEPT !.state.disabled = y] = Sheet(q, c, p, k, y, t)
    BY DEF Sheet
  <2> QED BY <1>1, <2>1, Zenon
<1>3. f \in DeskRec
  <2>1. \A y \in BOOLEAN : Sheet(q, c, p, k, y, t) \in DeskRec
    BY <1>1, MakeDesk
  <2> QED BY <1>2, <2>1, Zenon
<1>4. /\ f.deals = e.deals /\ f.state.cash = e.state.cash /\ f.state.pos = e.state.pos
      /\ f.state.cool = e.state.cool /\ f.state.disabled = TRUE
  BY <1>1, <1>2 DEF Sheet
<1>5. f \in GoodDesk(kind)
  <2>1. e \in GoodDesk(kind)
    BY LeavingIsDesk
  <2>2. \A T : Booked(e.state, T) => Booked(f.state, T)
    BY <1>4 DEF Booked
  <2>3. \A T, sp : Covered(e.state, T, sp) => Covered(f.state, T, sp)
    BY <1>4, ZenonT(60) DEF Covered
  <2> QED BY <1>3, <1>4, <2>1, <2>2, <2>3 DEF GoodDesk
<1>6. Held(f) = Held(e)
  BY <1>4 DEF Held
<1> QED BY <1>4, <1>5, <1>6 DEF Leaving

\* Counting a bar changes what is remembered, and the cooldowns.
LEMMA CountedShape ==
  ASSUME policy \in PolicyType, NEW view \in Views, NEW e \in DeskRec, NEW kind,
         NEW f, f = Counted(e, kind, view)
  PROVE  /\ f \in DeskRec /\ f.deals = e.deals /\ f.state.cash = e.state.cash
         /\ f.state.disabled = e.state.disabled
         /\ \A s \in Symbol :
              /\ f.state.pos[s].qty = e.state.pos[s].qty
              /\ f.state.cool[s] = IF kind # "WINDOW" THEN Larger(0, e.state.cool[s] - 1)
                                   ELSE e.state.cool[s]
<1>1. PICK q, c, p, k, d, t :
        /\ e = Sheet(q, c, p, k, d, t) /\ p \in [Symbol -> Position]
        /\ q \in Seq(DealRec) /\ c \in Int /\ k \in [Symbol -> Nat] /\ d \in BOOLEAN /\ t \in Int
  BY DeskIs, Zenon
<1> DEFINE eq == Equity(e, view)
           peak == Larger(OrZero(e.state.peak, eq), eq)
           counts == kind # "WINDOW"
           pos == [s \in Symbol |->
                     IF counts /\ s \in Held(e) THEN [e.state.pos[s] EXCEPT !.held = @ + 1]
                     ELSE e.state.pos[s]]
           cool == [s \in Symbol |-> IF counts THEN Larger(0, e.state.cool[s] - 1) ELSE e.state.cool[s]]
<1>2. /\ e.deals = q /\ e.state.cash = c /\ e.state.pos = p /\ e.state.cool = k
      /\ e.state.disabled = d /\ e.state.peak = t
  BY <1>1 DEF Sheet
<1>3. f = Sheet(q, c, pos, cool, d, peak)
  <2>1. f = [e EXCEPT !.state = [@ EXCEPT !.peak = peak, !.pos = pos, !.cool = cool]]
    BY Zenon DEF Counted
  <2>2. ASSUME NEW a, NEW b, NEW g
        PROVE  [Sheet(q, c, p, k, d, t) EXCEPT !.state = [@ EXCEPT !.peak = a, !.pos = b, !.cool = g]]
                 = Sheet(q, c, b, g, d, a)
    <3> DEFINE was == [cash |-> c, pos |-> p, cool |-> k, disabled |-> d, peak |-> t]
               now == [cash |-> c, pos |-> b, cool |-> g, disabled |-> d, peak |-> a]
    <3>1. [was EXCEPT !.peak = a, !.pos = b, !.cool = g] = now
      <4>1. [was EXCEPT !.peak = a] = [cash |-> c, pos |-> p, cool |-> k, disabled |-> d, peak |-> a]
        OBVIOUS
      <4>2. [[cash |-> c, pos |-> p, cool |-> k, disabled |-> d, peak |-> a] EXCEPT !.pos = b]
              = [cash |-> c, pos |-> b, cool |-> k, disabled |-> d, peak |-> a]
        OBVIOUS
      <4>3. [[cash |-> c, pos |-> b, cool |-> k, disabled |-> d, peak |-> a] EXCEPT !.cool = g] = now
        OBVIOUS
      <4> QED BY <4>1, <4>2, <4>3, Zenon
    <3> HIDE DEF was, now
    <3>2. [[state |-> was, deals |-> q] EXCEPT !.state = [@ EXCEPT !.peak = a, !.pos = b, !.cool = g]]
            = [state |-> now, deals |-> q]
      BY <3>1
    <3> QED BY <3>2 DEF Sheet, was, now
  <2> HIDE DEF peak, pos, cool
  <2> QED BY <1>1, <2>1, <2>2, Zenon
<1>4. peak \in Int
  BY <1>1, <1>2, EquityIsInt DEF Larger, OrZero
<1>5. pos \in [Symbol -> Position] /\ \A s \in Symbol : pos[s].qty = p[s].qty
  <2>1. ASSUME NEW s \in Symbol PROVE pos[s] \in Position /\ pos[s].qty = p[s].qty
    <3>1. p[s] \in Position
      BY <1>1
    <3>2. [p[s] EXCEPT !.held = @ + 1] \in Position /\ [p[s] EXCEPT !.held = @ + 1].qty = p[s].qty
      BY <3>1 DEF Position
    <3> QED BY <1>2, <3>1, <3>2
  <2> QED BY <2>1
<1>6. cool \in [Symbol -> Nat]
  BY <1>1, <1>2 DEF Larger
<1>7. \A s \in Symbol : cool[s] = IF kind # "WINDOW" THEN Larger(0, k[s] - 1) ELSE k[s]
  BY <1>2
<1> HIDE DEF peak, pos, cool
<1>8. f \in DeskRec
  <2>1. \A y \in Int, a \in [Symbol -> Position], b \in [Symbol -> Nat] : Sheet(q, c, a, b, d, y) \in DeskRec
    BY <1>1, MakeDesk
  <2> QED BY <1>3, <1>4, <1>5, <1>6, <2>1
<1>9. /\ f.deals = q /\ f.state.cash = c /\ f.state.pos = pos /\ f.state.cool = cool
      /\ f.state.disabled = d
  BY <1>3 DEF Sheet
<1> QED BY <1>2, <1>5, <1>7, <1>8, <1>9

\* Before anything is dealt the desk is in order.
Start == [state |-> state, deals |-> <<>>]

LEMMA CountedLeaves ==
  ASSUME Setting, state \in DeskState,
         Unspoiled => Booked(state, fills) /\ Covered(state, fills, stops),
         NEW view \in Views, NEW kind, NEW f, f = Counted(Start, kind, view)
  PROVE  f \in Leaving(kind, f)
<1>1. Start \in DeskRec /\ Start.state = state /\ Start.deals = <<>>
  BY DEF Start, DeskRec
<1>2. /\ f \in DeskRec /\ f.deals = <<>> /\ f.state.cash = state.cash
      /\ \A s \in Symbol : f.state.pos[s].qty = state.pos[s].qty
  BY <1>1, CountedShape DEF Setting
<1>3. Keyed(kind, <<>>) = {} /\ StopsAfter(<<>>) = stops
  <2>1. StopsAfter(<<>>) = stops
    <3>1. StopLoop(CHOOSE g : StopLoop(g, <<>>), <<>>)
          /\ StopsAfter(<<>>) = (CHOOSE g : StopLoop(g, <<>>))[Len(<<>>)]
      <4>1. <<>> \in Seq(DealRec)
        OBVIOUS
      <4> QED BY <4>1, StopLoopExists DEF Setting
    <3> DEFINE g == CHOOSE g : StopLoop(g, <<>>)
    <3> HIDE DEF g
    <3>2. g[0] = stops
      BY <3>1 DEF StopLoop, g
    <3> QED BY <3>1, <3>2 DEF g
  <2> QED BY <2>1, NothingKeyed
<1>4. Unspoiled => Booked(f.state, fills) /\ Covered(f.state, fills, stops)
  <2>1. \A T : Booked(state, T) => Booked(f.state, T)
    BY <1>2 DEF Booked
  <2>2. \A T, sp : Covered(state, T, sp) => Covered(f.state, T, sp)
    BY <1>2, ZenonT(60) DEF Covered
  <2> QED BY <2>1, <2>2
<1>5. fills \cup {} = fills /\ Len(<<>>) = 0
  OBVIOUS
<1>6. f \in GoodDesk(kind)
  <2>1. Numbered(<<>>)
    BY <1>5 DEF Numbered
  <2> QED BY <1>2, <1>3, <1>4, <1>5, <2>1 DEF GoodDesk
<1>7. \A s \in Symbol : f.state.cool[s] <= f.state.cool[s]
  BY <1>2 DEF DeskRec, DeskState
<1> QED BY <1>2, <1>6, <1>7 DEF Leaving

\* The exits, and the guards, only take leave of positions.
LEMMA LeftLeaves ==
  ASSUME Setting, NEW kind \in JobKind, NEW view \in Views, NEW b, NEW e \in Leaving(kind, b)
  PROVE  /\ Exited(e, kind, view) \in Leaving(kind, b)
         /\ SignalExits(e, kind, view) \in Leaving(kind, b)
         /\ Guarded(e, view) \in Leaving(kind, b)
<1> DEFINE L == Leaving(kind, b)
<1>1. \A d \in L : d \in DeskRec
  BY LeavingIsDesk
<1>2. \A d \in L : \A f : ExitStep(d, f) => f \in L
  BY LeavingStays
<1> HIDE DEF L
<1>3. ASSUME NEW d \in L, NEW s \in Symbol
      PROVE  /\ Closed(d, s, OrZero(view[s].close, d.state.pos[s].entry)) \in L
             /\ RiskExit(d, s, view) \in L
             /\ SignalExit(d, s, kind, view) \in L
             /\ (IF Quoted(view, s) THEN Closed(d, s, view[s].close) ELSE d) \in L
             /\ \A eq \in Int : TradeGuard(d, s, eq, view) \in L
  BY <1>1, <1>2, BodiesExit DEF Setting
<1>4. \A d \in L : /\ Flattened(d, view) \in L /\ RiskExits(d, view) \in L
                   /\ SignalExits(d, kind, view) \in L /\ AllClosed(d, view) \in L
  <2> TAKE d \in L
  <2>1. Flattened(d, view) \in L
    BY <1>3, FlattenedStays
  <2>2. RiskExits(d, view) \in L
    BY <1>3, RiskExitsStays
  <2>3. SignalExits(d, kind, view) \in L
    BY <1>3, SignalExitsStays
  <2>4. AllClosed(d, view) \in L
    BY <1>3, AllClosedStays
  <2> QED BY <2>1, <2>2, <2>3, <2>4
<1>5. e \in L /\ Equity(e, view) \in Int
  BY <1>1, EquityIsInt DEF L, Setting
<1>6. GuardedGlobally(e, view) \in L
  <2> DEFINE eq == Equity(e, view)
             peak == Larger(OrZero(e.state.peak, eq), eq)
             risen == [e EXCEPT !.state.peak = peak]
             over == [risen EXCEPT !.state.disabled = TRUE]
  <2>1. GuardedGlobally(e, view) = IF ~Drawdown(eq, peak, policy.dd_global) THEN risen
                                   ELSE AllClosed(over, view)
    BY Zenon DEF GuardedGlobally
  <2>2. peak \in Int
    BY <1>1, <1>5 DEF DeskRec, DeskState, Larger, OrZero
  <2> HIDE DEF peak
  <2>3. risen \in L
    <3>1. MarkedAs(e, risen)
      BY <1>1, <1>5, <2>2, Raised
    <3>2. risen \in DeskRec
      BY <3>1 DEF MarkedAs
    <3>3. ExitStep(e, risen)
      BY <3>1, <3>2 DEF ExitStep
    <3> QED BY <1>2, <1>5, <3>3
  <2> HIDE DEF risen
  <2>4. over \in L
    BY <2>3, Ended DEF L
  <2> HIDE DEF over
  <2> QED BY <1>4, <2>1, <2>3, <2>4
<1>7. Guarded(e, view) \in L
  <2>1. \A d \in L, eq \in Int : GuardedByTrade(d, eq, view) \in L
    <3> TAKE d \in L, eq \in Int
    <3> QED BY <1>3, GuardedByTradeStays
  <2> QED BY <1>5, <1>6, <2>1 DEF Guarded
<1>8. Exited(e, kind, view) \in L
  BY <1>4, <1>5 DEF Exited
<1> QED BY <1>4, <1>5, <1>7, <1>8 DEF L

\* While positions are entered: the free slots are enough for what is entered, and
\* nothing is entered that is cooling down.
Entering(kind, b) ==
  {r \in [slots : Nat, desk : GoodDesk(kind)] :
     /\ r.desk.state.cool = b.state.cool /\ r.desk.state.disabled = b.state.disabled
     /\ Cardinality(Held(r.desk)) + r.slots <= Larger(policy.max_open, Cardinality(Held(b)))
     /\ \A i \in 1..Len(r.desk.deals) :
          IF r.desk.deals[i].entry THEN b.state.cool[r.desk.deals[i].s] = 0
          ELSE policy.cooldown <= b.state.cool[r.desk.deals[i].s]}

LEMMA HeldIsFinite ==
  ASSUME NEW e
  PROVE  IsFiniteSet(Held(e)) /\ Cardinality(Held(e)) \in Nat /\ Held(e) \subseteq Symbol
BY SymbolsFact, FS_Subset, FS_CardinalityType DEF Held

LEMMA OpenedHolds ==
  ASSUME NEW e, NEW f, NEW x, OpenedBy(e, f, x)
  PROVE  Cardinality(Held(f)) = Cardinality(Held(e)) + 1
<1>1. /\ e \in DeskRec /\ f \in DeskRec /\ x \in DealRec /\ x.s \in Symbol
      /\ e.state.pos[x.s].qty = 0 /\ f.state.pos[x.s].qty > 0
      /\ \A s \in Symbol \ {x.s} : f.state.pos[s].qty = e.state.pos[s].qty
  BY DEF OpenedBy, DealtWith, DealRec
<1>2. x.s \notin Held(e)
  BY <1>1 DEF Held
<1>3. Held(f) = Held(e) \cup {x.s}
  BY <1>1 DEF Held
<1> QED BY <1>2, <1>3, HeldIsFinite, FS_AddElement

LEMMA AdmittedKeeps ==
  ASSUME Setting, NEW kind \in JobKind, NEW view \in Views, NEW b, NEW r \in Entering(kind, b),
         NEW s \in Symbol
  PROVE  Admitted(r, s, view) \in Entering(kind, b)
<1> DEFINE e == r.desk
           f == Enter(e, s, view)
           bound == Larger(policy.max_open, Cardinality(Held(b)))
           Slow(q) == \A i \in 1..Len(q) : IF q[i].entry THEN b.state.cool[q[i].s] = 0
                                           ELSE policy.cooldown <= b.state.cool[q[i].s]
<1>1. /\ r.slots \in Nat /\ e \in GoodDesk(kind) /\ e \in DeskRec
      /\ e.state.cool = b.state.cool /\ e.state.disabled = b.state.disabled
      /\ Cardinality(Held(e)) + r.slots <= bound
      /\ Slow(e.deals)
  BY DEF Entering, GoodDesk
<1>2. bound \in Nat /\ Cardinality(Held(e)) \in Nat
  BY HeldIsFinite DEF Larger, Setting, PolicyType
<1> HIDE DEF bound, Slow
<1>3. CASE ~view[s].entry \/ r.slots = 0
  BY <1>3 DEF Admitted
<1>4. CASE view[s].entry /\ r.slots # 0
  <2>1. Admitted(r, s, view) = [slots |-> r.slots - 1, desk |-> f]
    BY <1>4, Zenon DEF Admitted
  <2>2. SUFFICES /\ f \in GoodDesk(kind)
                 /\ f.state.cool = b.state.cool /\ f.state.disabled = b.state.disabled
                 /\ Cardinality(Held(f)) <= Cardinality(Held(e)) + 1
                 /\ Slow(f.deals)
    <3> HIDE DEF f, e
    <3>1. Cardinality(Held(f)) \in Nat /\ r.slots - 1 \in Nat
      BY <1>1, <1>4, HeldIsFinite
    <3>2. Cardinality(Held(f)) + (r.slots - 1) <= bound
      BY <1>1, <1>2, <2>2, <3>1
    <3>3. [slots |-> r.slots - 1, desk |-> f] \in Entering(kind, b)
      BY <2>2, <3>1, <3>2 DEF Entering, bound, Slow
    <3> QED BY <2>1, <3>3
  <2> DEFINE money == OrZero(Equity(e, view), e.state.cash)
             amount == money * policy.size
             price == view[s].fill
             qty == amount \div (100 * price)
  <2>3. f = IF e.state.cool[s] > 0 \/ s \in Held(e) \/ qty <= 0 THEN e ELSE Opened(e, s, qty, price)
    BY Zenon DEF Enter
  <2>4. CASE e.state.cool[s] > 0 \/ s \in Held(e) \/ qty <= 0
    <3>1. f = e
      BY <2>3, <2>4, Zenon
    <3> HIDE DEF f, e
    <3> QED BY <1>1, <1>2, <3>1
  <2>5. CASE ~(e.state.cool[s] > 0) /\ s \notin Held(e) /\ ~(qty <= 0)
    <3>1. price \in Nat /\ price > 0
      BY <1>4 DEF Views, QuoteRec
    <3>2. amount \in Int
      <4>1. Equity(e, view) \in Int /\ e.state.cash \in Int
        BY <1>1, EquityIsInt DEF Setting, DeskRec, DeskState
      <4>2. money \in Int /\ policy.size \in Int
        BY <4>1 DEF OrZero, Setting, PolicyType
      <4> HIDE DEF money
      <4> QED BY <4>2
    <3>3. qty \in Nat \ {0}
      <4>1. 100 * price \in Nat /\ 100 * price > 0
        BY <3>1
      <4>2. \A a \in Int, d \in Nat \ {0} : a \div d \in Int
        OBVIOUS
      <4> HIDE DEF amount, price
      <4>3. qty \in Int
        BY <3>2, <4>1, <4>2
      <4> QED BY <2>5, <4>3
    <3> HIDE DEF qty, price
    <3>4. PICK x \in DealRec : OpenedBy(e, Opened(e, s, qty, price), x) /\ x.s = s
      BY <1>1, <2>5, <3>1, <3>3, OpenedShape DEF Setting
    <3>5. OpenedBy(e, f, x)
      BY <2>3, <2>5, <3>4
    <3> HIDE DEF f, e
    <3>6. f \in GoodDesk(kind) /\ Cardinality(Held(f)) = Cardinality(Held(e)) + 1
      BY <1>1, <3>5, GoodDealt, OpenedHolds
    <3>7. /\ f.state.cool = e.state.cool /\ f.state.disabled = e.state.disabled
          /\ f.deals = Append(e.deals, x) /\ x.entry = TRUE /\ e.deals \in Seq(DealRec)
      BY <3>4, <3>5 DEF OpenedBy, DealtWith, DealRec, DeskRec
    <3>8. b.state.cool[s] = 0
      <4>1. e.state.cool[s] \in Nat
        BY <1>1 DEF DeskRec, DeskState
      <4> QED BY <1>1, <2>5, <4>1
    <3>9. Slow(f.deals)
      <4>1. /\ Len(e.deals) \in Nat /\ Len(f.deals) = Len(e.deals) + 1 /\ f.deals[Len(e.deals) + 1] = x
            /\ \A i \in 1..Len(e.deals) : f.deals[i] = e.deals[i]
        BY <3>7
      <4>2. ASSUME NEW i \in 1..Len(f.deals)
            PROVE  IF f.deals[i].entry THEN b.state.cool[f.deals[i].s] = 0
                   ELSE policy.cooldown <= b.state.cool[f.deals[i].s]
        <5>1. CASE i = Len(e.deals) + 1
          BY <3>4, <3>7, <3>8, <4>1, <5>1
        <5>2. CASE i # Len(e.deals) + 1
          <6>1. i \in 1..Len(e.deals)
            BY <4>1, <5>2
          <6> QED BY <1>1, <4>1, <6>1 DEF Slow
        <5> QED BY <5>1, <5>2
      <4> QED BY <4>2 DEF Slow
    <3>10. Cardinality(Held(f)) <= Cardinality(Held(e)) + 1
      BY <1>2, <3>6
    <3> QED BY <1>1, <3>6, <3>7, <3>9, <3>10
  <2> QED BY <2>4, <2>5
<1> QED BY <1>3, <1>4

\* What the entries add to a desk that has taken leave of positions.
LEMMA EntriesFact ==
  ASSUME Setting, NEW kind \in JobKind, NEW view \in Views, NEW c, NEW b \in Leaving(kind, c),
         NEW f, f = Entries(b, kind, view)
  PROVE  /\ f \in GoodDesk(kind)
         /\ f.state.cool = b.state.cool /\ f.state.disabled = b.state.disabled
         /\ Cardinality(Held(f)) <= Larger(policy.max_open, Cardinality(Held(b)))
         /\ \A i \in 1..Len(f.deals) :
              IF f.deals[i].entry
              THEN b.state.cool[f.deals[i].s] = 0 /\ ~b.state.disabled /\ kind # "WINDOW"
              ELSE policy.cooldown <= b.state.cool[f.deals[i].s]
<1> DEFINE free == Larger(0, policy.max_open - Cardinality(Held(b)))
           start == [slots |-> free, desk |-> b]
           end == AllAdmitted(start, view)
<1>1. /\ b \in GoodDesk(kind)
      /\ \A i \in 1..Len(b.deals) : ~b.deals[i].entry /\ policy.cooldown <= b.state.cool[b.deals[i].s]
  BY DEF Leaving
<1>2. Cardinality(Held(b)) \in Nat /\ policy.max_open \in Nat
  BY HeldIsFinite DEF Setting, PolicyType
<1>3. f = IF b.state.disabled \/ ~Signals(kind) THEN b ELSE end.desk
  BY Zenon DEF Entries
<1>4. CASE b.state.disabled \/ ~Signals(kind)
  <2>1. f = b
    BY <1>3, <1>4, Zenon
  <2> QED BY <1>1, <1>2, <2>1 DEF Larger
<1>5. CASE ~(b.state.disabled \/ ~Signals(kind))
  <2>1. start \in Entering(kind, b)
    <3>1. free \in Nat /\ Cardinality(Held(b)) + free <= Larger(policy.max_open, Cardinality(Held(b)))
      BY <1>2 DEF Larger
    <3> HIDE DEF free
    <3> QED BY <1>1, <3>1 DEF Entering
  <2>2. end \in Entering(kind, b)
    <3> DEFINE D == Entering(kind, b)
    <3>1. \A r \in D, s \in Symbol : Admitted(r, s, view) \in D
      BY AdmittedKeeps
    <3> HIDE DEF D, start
    <3>2. start \in D
      BY <2>1 DEF D
    <3>3. end \in D
      BY <3>1, <3>2, AllAdmittedStays
    <3> QED BY <3>3 DEF D
  <2>3. f = end.desk
    BY <1>3, <1>5, Zenon
  <2>4. kind # "WINDOW"
    BY <1>5 DEF Signals
  <2> HIDE DEF end
  <2>5. /\ end.slots \in Nat /\ f \in GoodDesk(kind)
        /\ f.state.cool = b.state.cool /\ f.state.disabled = b.state.disabled
        /\ Cardinality(Held(f)) + end.slots <= Larger(policy.max_open, Cardinality(Held(b)))
        /\ \A i \in 1..Len(f.deals) :
             IF f.deals[i].entry THEN b.state.cool[f.deals[i].s] = 0
             ELSE policy.cooldown <= b.state.cool[f.deals[i].s]
    BY <2>2, <2>3 DEF Entering
  <2>6. Cardinality(Held(f)) <= Larger(policy.max_open, Cardinality(Held(b)))
    <3>1. Cardinality(Held(f)) \in Nat /\ Larger(policy.max_open, Cardinality(Held(b))) \in Nat
      BY <1>2, HeldIsFinite DEF Larger
    <3> QED BY <2>5, <3>1
  <2> QED BY <1>5, <2>4, <2>5, <2>6
<1> QED BY <1>4, <1>5

\* A whole evaluation.
LEMMA EvaluatedFact ==
  ASSUME Setting, state \in DeskState,
         Unspoiled => Booked(state, fills) /\ Covered(state, fills, stops),
         NEW kind \in JobKind, NEW view \in Views, NEW d, d = Evaluated(kind, view)
  PROVE  /\ d \in GoodDesk(kind) /\ d \in DeskRec
         /\ Cardinality(Held(d)) <= Larger(policy.max_open, Cardinality(Held([state |-> state])))
         /\ \A i \in 1..Len(d.deals) :
              IF d.deals[i].entry
              THEN d.state.cool[d.deals[i].s] = 0 /\ ~state.disabled /\ kind # "WINDOW"
              ELSE policy.cooldown <= d.state.cool[d.deals[i].s]
         /\ state.disabled => d.state.disabled
         /\ \A s \in Symbol :
              \/ state.cool[s] - (IF kind = "WINDOW" THEN 0 ELSE 1) <= d.state.cool[s]
              \/ policy.cooldown <= d.state.cool[s]
<1> DEFINE c == Counted(Start, kind, view)
           left == SignalExits(Exited(c, kind, view), kind, view)
           b == Guarded(left, view)
<1>1. d = Entries(b, kind, view)
  BY Zenon DEF Evaluated, Start
<1>2. Start \in DeskRec /\ Start.state = state
  BY DEF Start, DeskRec
<1>3. /\ c.state.disabled = state.disabled
      /\ \A s \in Symbol : /\ c.state.pos[s].qty = state.pos[s].qty
                           /\ c.state.cool[s] = IF kind # "WINDOW" THEN Larger(0, state.cool[s] - 1)
                                                ELSE state.cool[s]
  BY <1>2, CountedShape DEF Setting
<1>4. c \in Leaving(kind, c)
  BY CountedLeaves
<1> HIDE DEF c
<1>5. b \in Leaving(kind, c)
  <2>1. Exited(c, kind, view) \in Leaving(kind, c)
    BY <1>4, LeftLeaves
  <2>2. left \in Leaving(kind, c)
    BY <2>1, LeftLeaves
  <2> HIDE DEF left
  <2> QED BY <2>2, LeftLeaves
<1> HIDE DEF b
<1>6. /\ d \in GoodDesk(kind) /\ d.state.cool = b.state.cool /\ d.state.disabled = b.state.disabled
      /\ Cardinality(Held(d)) <= Larger(policy.max_open, Cardinality(Held(b)))
      /\ \A i \in 1..Len(d.deals) :
           IF d.deals[i].entry
           THEN b.state.cool[d.deals[i].s] = 0 /\ ~b.state.disabled /\ kind # "WINDOW"
           ELSE policy.cooldown <= b.state.cool[d.deals[i].s]
  BY <1>1, <1>5, EntriesFact
<1>7. /\ Held(b) \subseteq Held(c) /\ (c.state.disabled => b.state.disabled)
      /\ \A s \in Symbol : c.state.cool[s] <= b.state.cool[s] \/ policy.cooldown <= b.state.cool[s]
  BY <1>5 DEF Leaving
<1>8. d \in DeskRec
  BY <1>6 DEF GoodDesk
<1>9. Cardinality(Held(d)) <= Larger(policy.max_open, Cardinality(Held([state |-> state])))
  <2>1. Held(c) = Held([state |-> state])
    BY <1>3 DEF Held
  <2>2. Cardinality(Held(b)) <= Cardinality(Held([state |-> state]))
    BY <1>7, <2>1, HeldIsFinite, FS_Subset
  <2>3. /\ Cardinality(Held(b)) \in Nat /\ Cardinality(Held([state |-> state])) \in Nat
        /\ Cardinality(Held(d)) \in Nat /\ policy.max_open \in Nat
    BY HeldIsFinite DEF Setting, PolicyType
  <2> QED BY <1>6, <2>2, <2>3 DEF Larger
<1>10. ASSUME NEW s \in Symbol
       PROVE  \/ state.cool[s] - (IF kind = "WINDOW" THEN 0 ELSE 1) <= d.state.cool[s]
              \/ policy.cooldown <= d.state.cool[s]
  <2>1. state.cool[s] \in Nat /\ d.state.cool[s] \in Nat
    BY <1>8 DEF DeskRec, DeskState
  <2>2. d.state.cool[s] = b.state.cool[s]
    BY <1>6
  <2>3. c.state.cool[s] <= d.state.cool[s] \/ policy.cooldown <= d.state.cool[s]
    BY <1>7, <2>2
  <2>4. c.state.cool[s] = IF kind # "WINDOW" THEN Larger(0, state.cool[s] - 1) ELSE state.cool[s]
    BY <1>3
  <2> QED BY <2>1, <2>3, <2>4 DEF Larger
<1> QED BY <1>3, <1>6, <1>7, <1>8, <1>9, <1>10

\* Every view of the market that a job can have.
LEMMA ViewsAre ==
  ASSUME market \in Markets, NEW kind, NEW missing \in SUBSET Symbol
  PROVE  View(kind, missing) \in Views
<1> DEFINE v == View(kind, missing)
           Seen(s) == IF s \in missing THEN NoQuote
                      ELSE [market[s] EXCEPT !.fill = IF kind = "BAR_CLOSED" THEN @ ELSE market[s].close]
<1>1. v = [s \in Symbol |-> Seen(s)]
  BY Zenon DEF View
<1>2. ASSUME NEW s \in Symbol
      PROVE  Seen(s) \in QuoteRec /\ (Seen(s).entry => Seen(s).fill > 0)
  <2>1. market[s] \in Quote
    BY MarketAssumption
  <2>2. market[s].close \in Nat \ {0} /\ market[s].fill \in Nat \ {0}
    BY <2>1, PriceAssumption DEF Quote
  <2>3. CASE s \in missing
    BY <2>3 DEF NoQuote, QuoteRec
  <2>4. CASE s \notin missing
    BY <2>1, <2>2, <2>4 DEF Quote, QuoteRec
  <2> QED BY <2>3, <2>4
<1> HIDE DEF Seen
<1> QED BY <1>1, <1>2 DEF Views

-----------------------------------------------------------------------------
(* The runner's steps *)

\* The books are read with a policy that does not change.
LEMMA SamePolicy ==
  ASSUME policy' = policy
  PROVE  /\ Booked(state, fills)' <=> Booked(state', fills')
         /\ Covered(state, fills, stops)' <=> Covered(state', fills', stops')
         /\ Held([state |-> state])' = Held([state |-> state'])
<1>1. Held([state |-> state])' = Held([state |-> state'])
  BY DEF Held
<1>2. Covered(state, fills, stops)' <=> Covered(state', fills', stops')
  BY Zenon DEF Covered, EntriesIn
<1>3. Flows(fills)' = Flows(fills')
  BY Zenon DEF Flows, Flow
<1>4. \A s : Net(fills, s)' = Net(fills', s)
  BY Zenon DEF Net
<1>5. Booked(state, fills)' <=> Booked(state', fills')
  BY <1>3, <1>4, Zenon DEF Booked, Sign
<1> QED BY <1>1, <1>2, <1>5

\* Orders of the type are what the type invariant asks for.
LEMMA FillsAre ==
  ASSUME NEW f \in FillRec
  PROVE  f.key[2] \in 1..MaxBars /\ f.deal.qty > 0 /\ f.deal.price \in Nat /\ f.deal \in DealRec
BY DEF FillRec, DealRec

LEMMA SettingHolds ==
  ASSUME RunTyped
  PROVE  Setting /\ policy \in PolicyType /\ state \in DeskState /\ market \in Markets
BY PolicyAssumption DEF RunTyped, RunTypeOK, Setting

LEMMA NetIsInt ==
  ASSUME NEW T \in SUBSET FillRec, IsFiniteSet(T), NEW s \in Symbol
  PROVE  Net(T, s) \in Int
<1> DEFINE A == {x \in T : x.deal.s = s}
           g == [x \in A |-> NetTerm(x)]
<1>1. IsFiniteSet(A) /\ \A x \in A : g[x] \in Int
  <2>1. IsFiniteSet(A)
    BY FS_Subset
  <2> QED BY <2>1, TermsAreInt
<1>2. Net(T, s) = SumFunctionOnSet(g, A)
  BY Zenon DEF Net, SumFunction, NetTerm
<1> HIDE DEF A, g
<1> QED BY <1>1, <1>2, SumIsInt

LEMMA EmptySum ==
  ASSUME NEW f
  PROVE  SumFunctionOnSet(f, {}) = 0
BY SumStep, FS_EmptySet

LEMMA RunInvInit == RunInit => RunInv
<1> SUFFICES ASSUME RunInit PROVE RunInv
  OBVIOUS
<1>1. /\ policy \in Policies /\ state = NewState /\ active = TRUE /\ fills = {} /\ stops = NoStops
      /\ bar = 1 /\ market \in Markets /\ audit = [busy |-> FALSE, state |-> NewState]
      /\ met = FALSE /\ stale = FALSE /\ ended = FALSE /\ exits = [s \in Symbol |-> 0]
      /\ evals = 0 /\ drops = 0
  BY DEF RunInit
<1>2. policy \in PolicyType
  BY <1>1, PolicyAssumption
<1>3. NewState \in DeskState
  BY PriceAssumption DEF NewState, NoPosition, DeskState, Position
<1>4. NoStops \in StopRec
  BY PriceAssumption DEF NoStops, StopRec
<1>5. RunTyped
  <2>1. audit \in [busy : BOOLEAN, state : DeskState]
    BY <1>1, <1>3
  <2>2. bar \in 1..MaxBars /\ evals \in 0..MaxEvals /\ drops \in 0..MaxDrops /\ exits \in [Symbol -> 0..MaxEvals]
    BY <1>1, PriceAssumption
  <2>3. active \in BOOLEAN /\ {met, stale, ended} \subseteq BOOLEAN
    BY <1>1
  <2>4. IsFiniteSet(fills) /\ fills \subseteq FillRec /\ fills = {}
    BY <1>1, FS_EmptySet
  <2> QED BY <1>1, <1>3, <1>4, <2>1, <2>2, <2>3, <2>4 DEF RunTyped, RunTypeOK, StopRec
<1>6. Booked(state, fills)
  <2>1. Flows({}) = 0
    <3>1. Flows({}) = SumFunctionOnSet([f \in {} |-> Flow(f.deal)], {})
      BY Zenon DEF Flows, SumFunction
    <3> QED BY <3>1, EmptySum, Zenon
  <2>2. ASSUME NEW s \in Symbol PROVE Net({}, s) = 0
    <3> DEFINE A == {x \in {} : x.deal.s = s}
               g == [x \in A |-> NetTerm(x)]
    <3>1. Net({}, s) = SumFunctionOnSet(g, A) /\ A = {}
      BY Zenon DEF Net, SumFunction, NetTerm
    <3> HIDE DEF A, g
    <3> QED BY <3>1, EmptySum
  <2>3. ASSUME NEW s \in Symbol PROVE Sign * state.pos[s].qty = 0
    BY <1>1 DEF NewState, NoPosition, Sign
  <2>4. state.cash = Capital + 0
    BY <1>1, PriceAssumption DEF NewState
  <2> QED BY <1>1, <2>1, <2>2, <2>3, <2>4 DEF Booked
<1>7. Covered(state, fills, stops)
  BY <1>1 DEF Covered, NewState, NoPosition, NoStops
<1>8. Cardinality(Held([state |-> state])) <= policy.max_open
  <2>1. Held([state |-> state]) = {}
    BY <1>1 DEF Held, NewState, NoPosition
  <2>2. Cardinality(Held([state |-> state])) = 0
    BY <2>1, FS_EmptySet
  <2> QED BY <1>2, <2>2 DEF PolicyType
<1> QED BY <1>1, <1>5, <1>6, <1>7, <1>8 DEF RunInv

\* The orders of an evaluation that are new.
LEMMA NewFills ==
  ASSUME Setting, NEW kind \in JobKind, NEW q \in Seq(DealRec), NEW T,
         T = fills \cup (Keyed(kind, q) \ Known(kind, q))
  PROVE  /\ IsFiniteSet(T) /\ T \subseteq FillRec
         /\ \A f \in T \ fills : \E i \in 1..Len(q) : f.deal = q[i]
<1>1. Keyed(kind, q) \subseteq FillRec /\ IsFiniteSet(Keyed(kind, q))
  BY KeyedType DEF Setting
<1>2. IsFiniteSet(Keyed(kind, q) \ Known(kind, q))
  BY <1>1, FS_Subset
<1>3. IsFiniteSet(T) /\ T \subseteq FillRec
  BY <1>1, <1>2, FS_Union DEF Setting
<1>4. ASSUME NEW f \in T \ fills PROVE \E i \in 1..Len(q) : f.deal = q[i]
  BY <1>4, KeyedIs DEF Order
<1> QED BY <1>3, <1>4

\* What RunInv takes from a bar's evaluation, and says of its entries.
LEMMA EvaluationFact ==
  ASSUME RunInv, NEW kind \in JobKind, NEW missing \in SUBSET Symbol,
         NEW d, d = Evaluated(kind, View(kind, missing))
  PROVE  /\ d \in GoodDesk(kind) /\ d \in DeskRec /\ d.deals \in Seq(DealRec)
         /\ Unspoiled => Cardinality(Held(d)) <= policy.max_open
         /\ \A i \in 1..Len(d.deals) :
              /\ d.deals[i].s \in Symbol
              /\ d.deals[i].entry /\ ~stale =>
                   /\ ~ended /\ kind # "WINDOW"
                   /\ exits[d.deals[i].s] > 0 => evals + 1 >= exits[d.deals[i].s] + policy.cooldown
              /\ ~d.deals[i].entry => policy.cooldown <= d.state.cool[d.deals[i].s]
         /\ state.disabled => d.state.disabled
         /\ \A s \in Symbol :
              \/ state.cool[s] - (IF kind = "WINDOW" THEN 0 ELSE 1) <= d.state.cool[s]
              \/ policy.cooldown <= d.state.cool[s]
<1>1. RunTyped /\ Setting /\ policy \in PolicyType /\ state \in DeskState
  BY SettingHolds DEF RunInv
<1>2. View(kind, missing) \in Views
  BY SettingHolds, ViewsAre DEF RunInv
<1>3. Unspoiled => Booked(state, fills) /\ Covered(state, fills, stops)
  BY DEF RunInv
<1>4. /\ d \in GoodDesk(kind) /\ d \in DeskRec
      /\ Cardinality(Held(d)) <= Larger(policy.max_open, Cardinality(Held([state |-> state])))
      /\ \A i \in 1..Len(d.deals) :
           IF d.deals[i].entry
           THEN d.state.cool[d.deals[i].s] = 0 /\ ~state.disabled /\ kind # "WINDOW"
           ELSE policy.cooldown <= d.state.cool[d.deals[i].s]
      /\ state.disabled => d.state.disabled
      /\ \A s \in Symbol :
           \/ state.cool[s] - (IF kind = "WINDOW" THEN 0 ELSE 1) <= d.state.cool[s]
           \/ policy.cooldown <= d.state.cool[s]
  BY <1>1, <1>2, <1>3, EvaluatedFact
<1>5. d.deals \in Seq(DealRec) /\ \A i \in 1..Len(d.deals) : d.deals[i].s \in Symbol
  <2>1. d.deals \in Seq(DealRec)
    BY <1>4 DEF DeskRec
  <2>2. \A i \in 1..Len(d.deals) : d.deals[i] \in DealRec
    BY <2>1
  <2> QED BY <2>1, <2>2 DEF DealRec
<1>6. Unspoiled => Cardinality(Held(d)) <= policy.max_open
  <2>1. Unspoiled => Cardinality(Held([state |-> state])) <= policy.max_open
    BY DEF RunInv
  <2>2. /\ Cardinality(Held([state |-> state])) \in Nat /\ Cardinality(Held(d)) \in Nat
        /\ policy.max_open \in Nat
    BY <1>1, HeldIsFinite DEF PolicyType
  <2> QED BY <1>4, <2>1, <2>2 DEF Larger
<1>7. ASSUME NEW i \in 1..Len(d.deals), d.deals[i].entry, ~stale
      PROVE  /\ ~ended /\ kind # "WINDOW"
             /\ exits[d.deals[i].s] > 0 => evals + 1 >= exits[d.deals[i].s] + policy.cooldown
  <2> DEFINE s == d.deals[i].s
  <2>1. s \in Symbol /\ d.state.cool[s] = 0 /\ ~state.disabled /\ kind # "WINDOW"
    BY <1>4, <1>5, <1>7
  <2> HIDE DEF s
  <2>2. ~ended
    BY <1>7, <2>1 DEF RunInv
  <2>3. state.cool[s] - 1 <= 0 \/ policy.cooldown <= 0
    BY <1>4, <2>1
  <2>4. exits[s] <= evals /\ (exits[s] > 0 => exits[s] + policy.cooldown <= state.cool[s] + evals)
    BY <1>7, <2>1 DEF RunInv
  <2>5. exits[s] \in Nat /\ evals \in Nat /\ policy.cooldown \in Nat /\ state.cool[s] \in Nat
    <3>1. exits \in [Symbol -> 0..MaxEvals] /\ evals \in 0..MaxEvals /\ MaxEvals \in Nat
      BY <1>1, PriceAssumption DEF RunTyped, RunTypeOK
    <3> QED BY <1>1, <2>1, <3>1 DEF PolicyType, DeskState
  <2>6. exits[s] > 0 => evals + 1 >= exits[s] + policy.cooldown
    BY <2>3, <2>4, <2>5
  <2> QED BY <2>1, <2>2, <2>6 DEF s
<1>8. ASSUME NEW i \in 1..Len(d.deals), ~d.deals[i].entry
      PROVE  policy.cooldown <= d.state.cool[d.deals[i].s]
  BY <1>4, <1>8
<1> QED BY <1>4, <1>5, <1>6, <1>7, <1>8

LEMMA EvaluateKeeps ==
  ASSUME RunInv, NEW kind \in JobKind, Evaluate(kind)
  PROVE  RunInv'
<1>1. PICK missing \in SUBSET Symbol :
        LET d == Evaluated(kind, View(kind, missing))
            new == Keyed(kind, d.deals) \ Known(kind, d.deals)
        IN  /\ state' = d.state
            /\ fills' = fills \cup new
            /\ stops' = StopsAfter(d.deals)
            /\ met' = (met \/ Known(kind, d.deals) # {})
            /\ ended' = (ended \/ d.state.disabled)
            /\ exits' = [s \in Symbol |-> IF \E f \in new : f.deal.s = s /\ ~f.deal.entry
                                          THEN evals' ELSE exits[s]]
  BY DEF Evaluate
<1> DEFINE d == Evaluated(kind, View(kind, missing))
           q == d.deals
           new == Keyed(kind, q) \ Known(kind, q)
<1>2. /\ IF kind = "WINDOW" THEN drops < MaxDrops /\ drops' = drops + 1 /\ evals' = evals
         ELSE evals < MaxEvals /\ evals' = evals + 1 /\ drops' = drops
      /\ policy' = policy /\ active' = active /\ bar' = bar /\ market' = market /\ audit' = audit
      /\ stale' = stale
  BY DEF Evaluate, MayEvaluate
<1>3. /\ d \in GoodDesk(kind) /\ d \in DeskRec /\ q \in Seq(DealRec)
      /\ Unspoiled => Cardinality(Held(d)) <= policy.max_open
      /\ \A i \in 1..Len(q) :
           /\ q[i].s \in Symbol
           /\ ~q[i].entry => policy.cooldown <= d.state.cool[q[i].s]
      /\ state.disabled => d.state.disabled
      /\ \A s \in Symbol :
           \/ state.cool[s] - (IF kind = "WINDOW" THEN 0 ELSE 1) <= d.state.cool[s]
           \/ policy.cooldown <= d.state.cool[s]
  BY EvaluationFact
<1>4. /\ state' = d.state /\ fills' = fills \cup new /\ stops' = StopsAfter(q)
      /\ met' = (met \/ Known(kind, q) # {})
      /\ ended' = (ended \/ d.state.disabled)
      /\ exits' = [s \in Symbol |-> IF \E f \in new : f.deal.s = s /\ ~f.deal.entry
                                    THEN evals' ELSE exits[s]]
  BY <1>1
<1> HIDE DEF d, q
<1>5. Setting /\ RunTyped /\ RunTypeOK /\ policy \in PolicyType
  BY SettingHolds DEF RunInv, RunTyped
<1>6. state' \in DeskState /\ d.state \in DeskState
  BY <1>3, <1>4 DEF DeskRec
<1>7. /\ evals' \in 0..MaxEvals /\ drops' \in 0..MaxDrops /\ evals \in Nat /\ evals' \in Nat
      /\ evals' = evals + (IF kind = "WINDOW" THEN 0 ELSE 1)
  BY <1>2, <1>5, PriceAssumption DEF RunTypeOK
<1>8. exits' \in [Symbol -> 0..MaxEvals] /\ \A s \in Symbol : exits[s] \in Nat /\ exits[s] <= evals
  BY <1>4, <1>5, <1>7, PriceAssumption DEF RunTypeOK, RunInv
<1>9. IsFiniteSet(fills') /\ fills' \subseteq FillRec /\ \A f \in new : \E i \in 1..Len(q) : f.deal = q[i]
  <2>1. \A f \in fills' \ fills : \E i \in 1..Len(q) : f.deal = q[i]
    BY <1>3, <1>4, <1>5, NewFills
  <2>2. \A f \in new : \E i \in 1..Len(q) : f.deal = q[i]
    BY <1>3, KeyedIs DEF Order
  <2> QED BY <1>3, <1>4, <1>5, <2>2, NewFills
<1>10. stops' \in StopRec
  BY <1>3, <1>4, <1>5, StopsAfterType DEF Setting
<1>11. RunTyped'
  <2>1. {met', stale', ended'} \subseteq BOOLEAN
    BY <1>2, <1>4, <1>5, <1>6 DEF RunTypeOK, DeskState
  <2>2. \A f \in fills' : f.key[2] \in 1..MaxBars /\ f.deal.qty > 0 /\ f.deal.price \in Nat
    BY <1>9, FillsAre
  <2> HIDE DEF new
  <2>3. RunTypeOK'
    BY <1>2, <1>5, <1>6, <1>7, <1>8, <1>10, <2>1, <2>2 DEF RunTypeOK, StopRec
  <2> QED BY <1>9, <1>10, <2>3 DEF RunTyped
<1>12. ASSUME Unspoiled'
       PROVE  /\ Booked(state, fills)' /\ Covered(state, fills, stops)'
              /\ Cardinality(Held([state |-> state])') <= policy.max_open
  <2>1. Unspoiled /\ Known(kind, q) = {}
    <3>1. ~met /\ Known(kind, q) = {}
      BY <1>4, <1>12 DEF Unspoiled
    <3> QED BY <1>2, <1>12, <3>1 DEF Unspoiled
  <2>2. fills' = fills \cup Keyed(kind, q)
    BY <1>4, <2>1
  <2>3. Booked(d.state, fills \cup Keyed(kind, q)) /\ Covered(d.state, fills \cup Keyed(kind, q), StopsAfter(q))
    BY <1>3, <2>1 DEF GoodDesk, q
  <2>4. Held([state |-> state']) = Held(d)
    BY <1>4 DEF Held
  <2> QED BY <1>2, <1>3, <1>4, <2>1, <2>2, <2>3, <2>4, SamePolicy
<1>13. ~stale' /\ ended' => state'.disabled
  BY <1>2, <1>3, <1>4 DEF RunInv
<1>14. ASSUME NEW s \in Symbol
       PROVE  /\ exits'[s] <= evals'
              /\ ~stale' /\ exits'[s] > 0 => exits'[s] + policy.cooldown <= state'.cool[s] + evals'
  <2>1. exits'[s] = IF \E f \in new : f.deal.s = s /\ ~f.deal.entry THEN evals' ELSE exits[s]
    BY <1>4
  <2>2. state'.cool[s] \in Nat /\ state.cool[s] \in Nat /\ policy.cooldown \in Nat
    BY <1>5, <1>6, SettingHolds DEF DeskState, PolicyType
  <2>3. CASE \E f \in new : f.deal.s = s /\ ~f.deal.entry
    <3>1. PICK f \in new : f.deal.s = s /\ ~f.deal.entry
      BY <2>3
    <3>2. PICK i \in 1..Len(q) : f.deal = q[i]
      BY <1>9
    <3>3. policy.cooldown <= d.state.cool[s]
      BY <1>3, <3>1, <3>2
    <3> QED BY <1>4, <1>7, <2>1, <2>2, <2>3, <3>3
  <2>4. CASE ~ \E f \in new : f.deal.s = s /\ ~f.deal.entry
    <3>1. exits'[s] = exits[s]
      BY <2>1, <2>4
    <3>2. ~stale /\ exits[s] > 0 => exits[s] + policy.cooldown <= state.cool[s] + evals
      BY DEF RunInv
    <3>3. \/ state.cool[s] - (IF kind = "WINDOW" THEN 0 ELSE 1) <= state'.cool[s]
          \/ policy.cooldown <= state'.cool[s]
      BY <1>3, <1>4
    <3> QED BY <1>2, <1>7, <1>8, <2>2, <3>1, <3>2, <3>3
  <2> QED BY <2>3, <2>4
<1>15. audit'.busy => ~policy'.live
  BY <1>2 DEF RunInv
<1> HIDE DEF new
<1> QED BY <1>2, <1>11, <1>12, <1>13, <1>14, <1>15 DEF RunInv

\* What a failed evaluation has committed is a beginning of its orders.
LEMMA FailureKeeps ==
  ASSUME RunInv, NEW kind \in JobKind, EvaluationFails(kind)
  PROVE  /\ RunInv'
         /\ \A f \in fills' \ fills : f.deal.entry /\ ~stale =>
              ~ended /\ (exits[f.deal.s] > 0 => evals + 1 >= exits[f.deal.s] + policy.cooldown)
<1>1. PICK missing \in SUBSET Symbol :
        LET deals == Evaluated(kind, View(kind, missing)).deals
        IN  \E n \in 1..Len(deals) - 1 :
              LET kept == SubSeq(deals, 1, n)
              IN  /\ stops' = [stops EXCEPT !.row = StopsAfter(kept).row]
                  /\ fills' = fills \cup (Keyed(kind, kept) \ Known(kind, kept))
                  /\ met' = (met \/ Known(kind, kept) # {})
  BY DEF EvaluationFails
<1> DEFINE d == Evaluated(kind, View(kind, missing))
           q == d.deals
<1>2. PICK n \in 1..Len(q) - 1 :
        LET kept == SubSeq(q, 1, n)
        IN  /\ stops' = [stops EXCEPT !.row = StopsAfter(kept).row]
            /\ fills' = fills \cup (Keyed(kind, kept) \ Known(kind, kept))
            /\ met' = (met \/ Known(kind, kept) # {})
  BY <1>1
<1> DEFINE kept == SubSeq(q, 1, n)
<1>3. /\ stops' = [stops EXCEPT !.row = StopsAfter(kept).row]
      /\ fills' = fills \cup (Keyed(kind, kept) \ Known(kind, kept))
      /\ met' = (met \/ Known(kind, kept) # {})
  BY <1>2
<1>4. /\ policy.live /\ drops < MaxDrops /\ drops' = drops + 1
      /\ policy' = policy /\ state' = state /\ active' = active /\ bar' = bar /\ market' = market
      /\ audit' = audit /\ stale' = stale /\ ended' = ended /\ exits' = exits /\ evals' = evals
  BY DEF EvaluationFails
<1>5. /\ q \in Seq(DealRec)
      /\ \A i \in 1..Len(q) : q[i].entry /\ ~stale =>
           ~ended /\ (exits[q[i].s] > 0 => evals + 1 >= exits[q[i].s] + policy.cooldown)
  BY EvaluationFact
<1> HIDE DEF d, q
<1>6. /\ kept \in Seq(DealRec) /\ Len(kept) = n /\ Len(q) \in Nat
      /\ \A i \in 1..n : i \in 1..Len(q) /\ kept[i] = q[i]
  BY <1>5
<1> HIDE DEF kept
<1>7. Setting /\ RunTyped /\ RunTypeOK
  BY SettingHolds DEF RunInv, RunTyped
<1>8. /\ IsFiniteSet(fills') /\ fills' \subseteq FillRec
      /\ \A f \in fills' \ fills : \E i \in 1..n : f.deal = kept[i]
  BY <1>3, <1>6, <1>7, NewFills
<1>9. ASSUME NEW f \in fills' \ fills, f.deal.entry, ~stale
      PROVE  ~ended /\ (exits[f.deal.s] > 0 => evals + 1 >= exits[f.deal.s] + policy.cooldown)
  <2>1. PICK i \in 1..n : f.deal = kept[i]
    BY <1>8
  <2> QED BY <1>5, <1>6, <1>9, <2>1
<1>10. stops' \in StopRec
  <2>1. StopsAfter(kept) \in StopRec
    BY <1>6, <1>7, StopsAfterType DEF Setting
  <2> QED BY <1>3, <1>7, <2>1 DEF Setting, StopRec
<1>11. RunTyped'
  <2>1. met' \in BOOLEAN
    BY <1>3, <1>7 DEF RunTypeOK
  <2>2. \A f \in fills' : f.key[2] \in 1..MaxBars /\ f.deal.qty > 0 /\ f.deal.price \in Nat
    BY <1>8, FillsAre
  <2>3. drops' \in 0..MaxDrops
    BY <1>4, <1>7, PriceAssumption DEF RunTypeOK
  <2>4. RunTypeOK'
    BY <1>4, <1>7, <1>10, <2>1, <2>2, <2>3 DEF RunTypeOK, StopRec
  <2> QED BY <1>8, <1>10, <2>4 DEF RunTyped
<1>12. ~Unspoiled'
  BY <1>4 DEF Unspoiled
<1>13. RunInv'
  BY <1>4, <1>11, <1>12 DEF RunInv
<1> QED BY <1>9, <1>13

\* What is left alone by the others.
LEMMA BooksLeft ==
  ASSUME RunInv, policy' = policy, state' = state, fills' = fills, met' = met, stale' = stale,
         stops' = stops, Unspoiled'
  PROVE  /\ Booked(state, fills)' /\ Covered(state, fills, stops)'
         /\ Cardinality(Held([state |-> state])') <= policy.max_open
<1>1. Unspoiled
  BY DEF Unspoiled
<1>2. Booked(state, fills) /\ Covered(state, fills, stops) /\ Cardinality(Held([state |-> state])) <= policy.max_open
  BY <1>1 DEF RunInv
<1>3. Booked(state', fills') /\ Covered(state', fills', stops')
      /\ Held([state |-> state']) = Held([state |-> state])
  BY <1>2, Zenon
<1> QED BY <1>2, <1>3, SamePolicy

\* A reconciliation either loses something, or nothing that the others rely on.
LEMMA AuditKeeps ==
  ASSUME RunInv, AuditWrite
  PROVE  RunInv'
<1>1. /\ audit.busy /\ audit' = [busy |-> FALSE, state |-> NewState]
      /\ policy' = policy /\ fills' = fills /\ bar' = bar /\ market' = market /\ met' = met
      /\ ended' = ended /\ exits' = exits /\ evals' = evals /\ drops' = drops
  BY DEF AuditWrite
<1>2. Setting /\ RunTyped /\ RunTypeOK /\ state \in DeskState /\ audit.state \in DeskState
  BY SettingHolds DEF RunInv, RunTyped, RunTypeOK
<1>3. audit' \in [busy : BOOLEAN, state : DeskState]
  <2>1. NewState \in DeskState
    BY PriceAssumption DEF NewState, NoPosition, DeskState, Position
  <2> QED BY <1>1, <2>1
<1>4. CASE Mismatch(audit.state)
  <2>1. /\ state' = Rebuilt(audit.state) /\ active' = FALSE /\ stops' = [stops EXCEPT !.at = NoStops.at]
        /\ stale' = (stale \/ audit.state # state \/ policy.short)
    BY <1>4 DEF AuditWrite
  <2>2. state' \in DeskState /\ state'.cool = audit.state.cool /\ state'.disabled = audit.state.disabled
    <3> DEFINE pos == [s \in Symbol |-> [NoPosition EXCEPT !.qty = Larger(0, Net(fills, s))]]
    <3>1. \A s \in Symbol : Larger(0, Net(fills, s)) \in Nat
      BY <1>2, NetIsInt DEF Larger, Setting
    <3>2. pos \in [Symbol -> Position]
      BY <3>1 DEF NoPosition, Position
    <3>3. state' = [audit.state EXCEPT !.pos = pos]
      BY <2>1 DEF Rebuilt
    <3> HIDE DEF pos
    <3>4. audit.state \in DeskState
      BY <1>2
    <3>5. state' \in DeskState
      BY <3>2, <3>3, <3>4 DEF DeskState
    <3>6. state'.cool = audit.state.cool /\ state'.disabled = audit.state.disabled
      BY <3>3, <3>4 DEF DeskState
    <3> QED BY <3>5, <3>6
  <2>3. stops' \in StopRec
    <3>1. stops \in StopRec
      BY <1>2 DEF Setting
    <3>2. NoStops.at \in [Symbol -> 0..MaxBars]
      BY PriceAssumption DEF NoStops
    <3> QED BY <2>1, <3>1, <3>2 DEF StopRec
  <2>4. stale' \in BOOLEAN
    BY <1>2, <2>1 DEF RunTypeOK
  <2>5. RunTyped'
    <3>1. RunTypeOK'
      BY <1>1, <1>2, <1>3, <2>1, <2>2, <2>3, <2>4 DEF RunTypeOK, StopRec
    <3> QED BY <1>1, <1>2, <2>3, <3>1 DEF RunTyped
  <2>6. ~stale' => audit.state = state /\ ~policy.short /\ ~stale
    BY <2>1
  <2>7. ~Unspoiled'
    <3>1. SUFFICES ASSUME Unspoiled' PROVE FALSE
      OBVIOUS
    <3>2. Unspoiled /\ audit.state = state /\ ~policy.short
      BY <1>1, <2>6, <3>1 DEF Unspoiled
    <3>3. PICK s \in Symbol : Net(fills, s) # state.pos[s].qty
      BY <1>4, <3>2 DEF Mismatch, Traded
    <3>4. Net(fills, s) = 1 * state.pos[s].qty
      BY <3>2 DEF RunInv, Booked, Sign
    <3>5. state.pos[s].qty \in Nat
      BY <1>2 DEF DeskState, Position
    <3> QED BY <3>3, <3>4, <3>5
  <2>8. /\ ~stale' /\ ended' => state'.disabled
        /\ ~stale' => \A s \in Symbol : exits'[s] > 0 => exits'[s] + policy'.cooldown <= state'.cool[s] + evals'
        /\ \A s \in Symbol : exits'[s] <= evals'
    BY <1>1, <2>2, <2>6 DEF RunInv
  <2>9. audit'.busy => ~policy'.live
    BY <1>1
  <2> QED BY <2>5, <2>7, <2>8, <2>9 DEF RunInv
<1>5. CASE ~Mismatch(audit.state)
  <2>1. state' = state /\ active' = active /\ stops' = stops /\ stale' = stale
    BY <1>5 DEF AuditWrite
  <2>2. RunTyped'
    <3>1. RunTypeOK'
      BY <1>1, <1>2, <1>3, <2>1 DEF RunTypeOK
    <3> QED BY <1>1, <1>2, <2>1, <3>1 DEF RunTyped
  <2>3. ~audit'.busy
    BY <1>1
  <2> QED BY <1>1, <2>1, <2>2, <2>3, BooksLeft DEF RunInv
<1> QED BY <1>4, <1>5

LEMMA RunInvNext == RunInv /\ [RunNext]_runVars => RunInv'
<1> SUFFICES ASSUME RunInv, [RunNext]_runVars PROVE RunInv'
  OBVIOUS
<1>1. RunTyped /\ RunTypeOK
  BY DEF RunInv, RunTyped
<1>2. CASE \E kind \in JobKind : Evaluate(kind) \/ EvaluationFails(kind)
  BY <1>2, EvaluateKeeps, FailureKeeps
<1>3. CASE NextBarComes
  <2>1. /\ bar' \in 1..MaxBars /\ market' \in Markets
        /\ policy' = policy /\ state' = state /\ active' = active /\ fills' = fills /\ stops' = stops
        /\ audit' = audit /\ met' = met /\ stale' = stale /\ ended' = ended /\ exits' = exits
        /\ evals' = evals /\ drops' = drops
    BY <1>1, <1>3, PriceAssumption DEF NextBarComes, RunTypeOK
  <2>2. RunTyped'
    BY <1>1, <2>1 DEF RunTyped, RunTypeOK
  <2> QED BY <2>1, <2>2, BooksLeft DEF RunInv
<1>4. CASE AuditRead
  <2>1. /\ ~policy.live /\ audit' = [busy |-> TRUE, state |-> state] /\ drops' \in 0..MaxDrops
        /\ policy' = policy /\ state' = state /\ active' = active /\ fills' = fills /\ stops' = stops
        /\ bar' = bar /\ market' = market /\ met' = met /\ stale' = stale /\ ended' = ended
        /\ exits' = exits /\ evals' = evals
    BY <1>1, <1>4, PriceAssumption DEF AuditRead, RunTypeOK
  <2>2. audit' \in [busy : BOOLEAN, state : DeskState]
    BY <1>1, <2>1 DEF RunTypeOK
  <2>3. RunTyped'
    BY <1>1, <2>1, <2>2 DEF RunTyped, RunTypeOK
  <2> QED BY <2>1, <2>3, BooksLeft DEF RunInv
<1>5. CASE AuditWrite
  BY <1>5, AuditKeeps
<1>6. CASE Resumed \/ UNCHANGED runVars
  <2>1. /\ active' \in BOOLEAN
        /\ policy' = policy /\ state' = state /\ fills' = fills /\ stops' = stops /\ bar' = bar
        /\ market' = market /\ audit' = audit /\ met' = met /\ stale' = stale /\ ended' = ended
        /\ exits' = exits /\ evals' = evals /\ drops' = drops
    BY <1>1, <1>6 DEF Resumed, runVars, RunTypeOK
  <2>2. RunTyped'
    BY <1>1, <2>1 DEF RunTyped, RunTypeOK
  <2> QED BY <2>1, <2>2, BooksLeft DEF RunInv
<1> QED BY <1>2, <1>3, <1>4, <1>5, <1>6 DEF RunNext

-----------------------------------------------------------------------------
(* The runner's theorems *)

\* The runner's state keeps its types: quantities, prices and cooldowns are never
\* negative, and what is ordered is positive.
THEOREM RunnerTyped == RunSpec => []RunTypeOK
<1>1. RunInv => RunTypeOK
  BY DEF RunInv, RunTyped
<1> QED BY <1>1, RunInvInit, RunInvNext, PTL DEF RunSpec

\* For every policy, portfolio and market: what a paper deployment holds and its
\* cash are what its orders add up to, and it never holds more positions than
\* max_open, until an order id is met twice or a reconciliation loses something.
THEOREM BooksAddUp == RunSpec => []BooksMatch
<1>1. ASSUME RunInv PROVE BooksMatch
  <2>1. SUFFICES ASSUME ~policy.live /\ ~met /\ ~stale
                 PROVE  /\ \A s \in Symbol : Net(fills, s) = Sign * state.pos[s].qty
                        /\ state.cash = Capital + Flows(fills)
                        /\ Cardinality({s \in Symbol : Net(fills, s) # 0}) <= policy.max_open
    BY Zenon DEF BooksMatch, Flows, Sign
  <2>2. /\ Booked(state, fills) /\ Cardinality(Held([state |-> state])) <= policy.max_open
        /\ state \in DeskState
    BY <1>1, <2>1, SettingHolds DEF RunInv, Unspoiled
  <2>3. \A s \in Symbol : Net(fills, s) = Sign * state.pos[s].qty /\ state.pos[s].qty \in Nat
    BY <2>2 DEF Booked, DeskState, Position
  <2>4. {s \in Symbol : Net(fills, s) # 0} = Held([state |-> state])
    <3>1. \A s \in Symbol : (Net(fills, s) # 0) <=> state.pos[s].qty > 0
      BY <2>3 DEF Sign
    <3> QED BY <3>1 DEF Held
  <2> QED BY <2>2, <2>3, <2>4 DEF Booked
<1> QED BY <1>1, RunInvInit, RunInvNext, PTL DEF RunSpec

\* Until then, too: a disaster stop waits only for a position that is held and
\* refers to it, and a position entered once in its bar has one.
THEOREM StopsFollowPositions == RunSpec => []StopsFollow
<1>1. ASSUME RunInv PROVE StopsFollow
  <2>1. SUFFICES ASSUME ~policy.live /\ ~met /\ ~stale, NEW s \in Symbol
                 PROVE  /\ \A b \in 1..MaxBars : stops.row[s][b] = "waiting" =>
                             s \in Held([state |-> state]) /\ stops.at[s] = b
                        /\ policy.sl > 0 /\ s \in Held([state |-> state])
                           /\ Cardinality(Entered(s, stops.at[s])) = 1 => stops.row[s][stops.at[s]] = "waiting"
    BY Zenon DEF StopsFollow
  <2>2. Covered(state, fills, stops)
    BY <1>1, <2>1 DEF RunInv, Unspoiled
  <2>3. s \in Held([state |-> state]) <=> state.pos[s].qty > 0
    BY DEF Held
  <2>4. Entered(s, stops.at[s]) = EntriesIn(fills, s, stops.at[s])
    BY DEF Entered, EntriesIn
  <2> QED BY <2>2, <2>3, <2>4 DEF Covered
<1> QED BY <1>1, RunInvInit, RunInvNext, PTL DEF RunSpec

\* And for LIVE deployments, too: once the drawdown guard has ended trading nothing
\* is entered, and after an exit nothing before the cooldown is over, also by an
\* evaluation that fails, until a reconciliation loses something.
THEOREM EntriesKeepGuards == RunSpec => EntriesAreGuarded
<1> DEFINE Guarding == ~stale => \A s \in Symbol : EntryOf(s) =>
                         /\ ~ended
                         /\ exits[s] > 0 => evals + 1 >= exits[s] + policy.cooldown
<1>1. ASSUME RunInv, [RunNext]_runVars PROVE Guarding
  <2>1. SUFFICES ASSUME NEW f \in fills' \ fills, f.deal.entry, ~stale
                 PROVE  ~ended /\ (exits[f.deal.s] > 0 => evals + 1 >= exits[f.deal.s] + policy.cooldown)
    BY DEF EntryOf
  <2>2. CASE \E kind \in JobKind : EvaluationFails(kind)
    BY <1>1, <2>1, <2>2, FailureKeeps
  <2>3. CASE \E kind \in JobKind : Evaluate(kind)
    <3>1. PICK kind \in JobKind : Evaluate(kind)
      BY <2>3
    <3>2. PICK missing \in SUBSET Symbol :
            fills' = fills \cup (Keyed(kind, Evaluated(kind, View(kind, missing)).deals)
                                   \ Known(kind, Evaluated(kind, View(kind, missing)).deals))
      BY <3>1 DEF Evaluate
    <3> DEFINE q == Evaluated(kind, View(kind, missing)).deals
    <3>3. /\ q \in Seq(DealRec)
          /\ \A i \in 1..Len(q) : q[i].entry /\ ~stale =>
               ~ended /\ (exits[q[i].s] > 0 => evals + 1 >= exits[q[i].s] + policy.cooldown)
      BY <1>1, EvaluationFact
    <3>4. Setting
      BY <1>1, SettingHolds DEF RunInv
    <3> HIDE DEF q
    <3>5. PICK i \in 1..Len(q) : f.deal = q[i]
      BY <2>1, <3>2, <3>3, <3>4, NewFills DEF q
    <3> QED BY <2>1, <3>3, <3>5
  <2>4. CASE fills' = fills
    BY <2>1, <2>4
  <2> QED BY <1>1, <2>2, <2>3, <2>4
          DEF RunNext, NextBarComes, AuditRead, AuditWrite, Resumed, runVars
<1> QED BY <1>1, RunInvInit, RunInvNext, PTL DEF RunSpec, EntriesAreGuarded
=============================================================================
