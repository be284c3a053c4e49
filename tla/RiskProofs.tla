------------------------------ MODULE RiskProofs ------------------------------
(* Theorems about RiskEngine, for every value of its constants: what the risk *)
(* engine judges by adds up, and what it admits stays within the limits.      *)
EXTENDS PortfolioProofs, RiskEngine

-----------------------------------------------------------------------------
(* More about sums over finite sets *)

\* What holds of the empty set, and of any with one element more, holds of all.
LEMMA BySize ==
  ASSUME NEW S, IsFiniteSet(S), NEW Z, {} \in Z,
         \A T \in SUBSET S, x \in S : T \in Z /\ x \notin T => T \cup {x} \in Z
  PROVE  S \in Z
<1> DEFINE Bad == {n \in Nat : \E T \in SUBSET S : Cardinality(T) = n /\ T \notin Z}
<1>1. SUFFICES Bad = {}
  <2>1. S \in SUBSET S /\ Cardinality(S) \in Nat
    BY FS_CardinalityType
  <2> QED BY <2>1
<1>2. SUFFICES ASSUME NEW n \in Bad, \A m \in Bad : n <= m PROVE FALSE
  BY SmallestNat
<1>3. PICK T \in SUBSET S : Cardinality(T) = n /\ T \notin Z
  OBVIOUS
<1>4. PICK x \in T : TRUE
  BY <1>3
<1> DEFINE U == T \ {x}
<1>5. IsFiniteSet(T)
  BY FS_Subset
<1>6. Cardinality(U) \in Nat /\ Cardinality(U) = n - 1 /\ n \in Nat
  BY <1>3, <1>5, OneLess
<1>7. U \in SUBSET S /\ x \notin U /\ U \cup {x} = T
  BY <1>4
<1> HIDE DEF U
<1>8. U \in Z
  BY <1>2, <1>6, <1>7
<1> QED BY <1>3, <1>4, <1>7, <1>8

LEMMA SumNothing ==
  ASSUME NEW f
  PROVE  SumFunctionOnSet(f, {}) = 0
BY SumStep, FS_EmptySet

LEMMA SumWith ==
  ASSUME NEW S, IsFiniteSet(S), NEW x, x \notin S, NEW f, \A y \in S \cup {x} : f[y] \in Int
  PROVE  SumFunctionOnSet(f, S \cup {x}) = f[x] + SumFunctionOnSet(f, S)
<1>1. IsFiniteSet(S \cup {x}) /\ (S \cup {x}) \ {x} = S
  BY FS_AddElement
<1> QED BY <1>1, SumTakes

\* Sums of what is the same, sums of sums, sums over two parts.
LEMMA SumSame ==
  ASSUME NEW S, IsFiniteSet(S), NEW f, NEW g, \A x \in S : f[x] \in Int /\ f[x] = g[x]
  PROVE  SumFunctionOnSet(f, S) = SumFunctionOnSet(g, S)
<1> DEFINE Z == {T \in SUBSET S : SumFunctionOnSet(f, T) = SumFunctionOnSet(g, T)}
<1>1. {} \in Z
  BY SumNothing
<1>2. ASSUME NEW T \in Z, NEW x \in S, x \notin T PROVE T \cup {x} \in Z
  <2>1. IsFiniteSet(T)
    BY FS_Subset
  <2>2. /\ SumFunctionOnSet(f, T \cup {x}) = f[x] + SumFunctionOnSet(f, T)
        /\ SumFunctionOnSet(g, T \cup {x}) = g[x] + SumFunctionOnSet(g, T)
    BY <1>2, <2>1, SumWith
  <2> QED BY <2>2
<1>3. S \in Z
  <2> HIDE DEF Z
  <2> QED BY <1>1, <1>2, BySize
<1> QED BY <1>3

LEMMA SumSplits ==
  ASSUME NEW S, IsFiniteSet(S), NEW f, NEW g, NEW h,
         \A x \in S : f[x] \in Int /\ g[x] \in Int /\ h[x] = f[x] + g[x]
  PROVE  SumFunctionOnSet(h, S) = SumFunctionOnSet(f, S) + SumFunctionOnSet(g, S)
<1> DEFINE Z == {T \in SUBSET S :
                   SumFunctionOnSet(h, T) = SumFunctionOnSet(f, T) + SumFunctionOnSet(g, T)}
<1>1. {} \in Z
  BY SumNothing
<1>2. ASSUME NEW T \in Z, NEW x \in S, x \notin T PROVE T \cup {x} \in Z
  <2>1. IsFiniteSet(T)
    BY FS_Subset
  <2>2. \A y \in S : h[y] \in Int
    OBVIOUS
  <2>3. /\ SumFunctionOnSet(f, T \cup {x}) = f[x] + SumFunctionOnSet(f, T)
        /\ SumFunctionOnSet(g, T \cup {x}) = g[x] + SumFunctionOnSet(g, T)
        /\ SumFunctionOnSet(h, T \cup {x}) = h[x] + SumFunctionOnSet(h, T)
    BY <1>2, <2>1, <2>2, SumWith
  <2>4. SumFunctionOnSet(f, T) \in Int /\ SumFunctionOnSet(g, T) \in Int
    BY <2>1, SumIsInt
  <2> QED BY <2>3, <2>4
<1>3. S \in Z
  <2> HIDE DEF Z
  <2> QED BY <1>1, <1>2, BySize
<1> QED BY <1>3

LEMMA SumUnites ==
  ASSUME NEW S, IsFiniteSet(S), NEW R, IsFiniteSet(R), S \cap R = {},
         NEW f, \A x \in S \cup R : f[x] \in Int
  PROVE  SumFunctionOnSet(f, S \cup R) = SumFunctionOnSet(f, S) + SumFunctionOnSet(f, R)
<1> DEFINE Z == {T \in SUBSET R :
                   SumFunctionOnSet(f, S \cup T) = SumFunctionOnSet(f, S) + SumFunctionOnSet(f, T)}
<1>1. {} \in Z
  <2>1. SumFunctionOnSet(f, S) \in Int
    BY SumIsInt
  <2>2. SumFunctionOnSet(f, {}) = 0 /\ S \cup {} = S /\ {} \in SUBSET R
    BY SumNothing
  <2> QED BY <2>1, <2>2
<1>2. ASSUME NEW T \in Z, NEW x \in R, x \notin T PROVE T \cup {x} \in Z
  <2> DEFINE both == S \cup T
             more == T \cup {x}
             all == S \cup more
  <2>1. IsFiniteSet(T) /\ IsFiniteSet(both) /\ x \notin both /\ all = both \cup {x}
    BY <1>2, FS_Subset, FS_Union
  <2>2. \A y \in both \cup {x} : f[y] \in Int
    OBVIOUS
  <2>3. SumFunctionOnSet(f, both) = SumFunctionOnSet(f, S) + SumFunctionOnSet(f, T) /\ f[x] \in Int
    OBVIOUS
  <2>4. SumFunctionOnSet(f, more) = f[x] + SumFunctionOnSet(f, T)
    BY <1>2, <2>1, SumWith
  <2>5. SumFunctionOnSet(f, S) \in Int /\ SumFunctionOnSet(f, T) \in Int
    BY <2>1, SumIsInt
  <2>6. SumFunctionOnSet(f, all) = SumFunctionOnSet(f, S) + SumFunctionOnSet(f, more)
    <3> HIDE DEF both, more, all, Z
    <3>1. SumFunctionOnSet(f, all) = f[x] + SumFunctionOnSet(f, both)
      BY <2>1, <2>2, SumWith
    <3> QED BY <3>1, <2>3, <2>4, <2>5
  <2> QED BY <2>6
<1>3. R \in Z
  <2> HIDE DEF Z
  <2> QED BY <1>1, <1>2, BySize
<1> QED BY <1>3

LEMMA ImageIsFinite ==
  ASSUME NEW S, IsFiniteSet(S), NEW m
  PROVE  IsFiniteSet({m[x] : x \in S})
<1> DEFINE T == {m[x] : x \in S}
           f == [x \in S |-> m[x]]
<1>1. f \in Surjection(S, T)
  BY DEF Surjection
<1> QED BY <1>1, FS_Surjection

\* A sum over what a set maps to one to one.
LEMMA SumMaps ==
  ASSUME NEW S, IsFiniteSet(S), NEW m, \A x, y \in S : m[x] = m[y] => x = y,
         NEW f, \A x \in S : f[m[x]] \in Int
  PROVE  SumFunctionOnSet([x \in S |-> f[m[x]]], S) = SumFunctionOnSet(f, {m[x] : x \in S})
<1> DEFINE g == [x \in S |-> f[m[x]]]
           Z == {T \in SUBSET S :
                   SumFunctionOnSet(g, T) = SumFunctionOnSet(f, {m[x] : x \in T})}
<1>1. {} \in Z
  <2>1. {m[x] : x \in {}} = {}
    OBVIOUS
  <2> QED BY <2>1, SumNothing
<1>2. ASSUME NEW T \in Z, NEW a \in S, a \notin T PROVE T \cup {a} \in Z
  <2> DEFINE M == {m[x] : x \in T}
  <2>1. IsFiniteSet(T)
    BY FS_Subset
  <2>2. IsFiniteSet(M)
    BY <2>1, ImageIsFinite
  <2>3. m[a] \notin M /\ \A y \in M \cup {m[a]} : f[y] \in Int
    BY <1>2
  <2>4. {m[x] : x \in T \cup {a}} = M \cup {m[a]}
    OBVIOUS
  <2>5. \A y \in T \cup {a} : g[y] \in Int
    OBVIOUS
  <2>6. g[a] = f[m[a]]
    OBVIOUS
  <2> HIDE DEF M, g
  <2>7. SumFunctionOnSet(f, M \cup {m[a]}) = f[m[a]] + SumFunctionOnSet(f, M)
    BY <2>2, <2>3, SumWith
  <2>8. SumFunctionOnSet(g, T \cup {a}) = g[a] + SumFunctionOnSet(g, T)
    BY <1>2, <2>1, <2>5, SumWith
  <2>9. SumFunctionOnSet(g, T) = SumFunctionOnSet(f, M)
    BY DEF M
  <2> QED BY <2>4, <2>6, <2>7, <2>8, <2>9
<1>3. S \in Z
  <2> HIDE DEF Z
  <2> QED BY <1>1, <1>2, BySize
<1> QED BY <1>3

LEMMA SumChanges ==
  ASSUME NEW S, IsFiniteSet(S), NEW R, IsFiniteSet(R), NEW x, S \ {x} = R \ {x}, NEW f, NEW g,
         \A y \in S : f[y] \in Int, \A y \in R : g[y] \in Int, \A y \in S \ {x} : f[y] = g[y]
  PROVE  SumFunctionOnSet(g, R) - (IF x \in R THEN g[x] ELSE 0)
           = SumFunctionOnSet(f, S) - (IF x \in S THEN f[x] ELSE 0)
<1> DEFINE T == S \ {x}
<1>1. IsFiniteSet(T) /\ x \notin T /\ (\A y \in T : f[y] \in Int /\ g[y] \in Int /\ f[y] = g[y])
  BY FS_Subset
<1>2. SumFunctionOnSet(f, T) = SumFunctionOnSet(g, T) /\ SumFunctionOnSet(f, T) \in Int
  <2> HIDE DEF T
  <2> QED BY <1>1, SumSame, SumIsInt
<1>3. SumFunctionOnSet(f, S) = (IF x \in S THEN f[x] ELSE 0) + SumFunctionOnSet(f, T)
  <2>1. CASE x \in S
    BY <2>1, SumTakes
  <2>2. CASE x \notin S
    <3>1. T = S
      BY <2>2
    <3> HIDE DEF T
    <3> QED BY <1>2, <2>2, <3>1
  <2> QED BY <2>1, <2>2
<1>4. SumFunctionOnSet(g, R) = (IF x \in R THEN g[x] ELSE 0) + SumFunctionOnSet(g, T)
  <2>1. CASE x \in R
    BY <2>1, SumTakes
  <2>2. CASE x \notin R
    <3>1. T = R
      BY <2>2
    <3> HIDE DEF T
    <3> QED BY <1>2, <2>2, <3>1
  <2> QED BY <2>1, <2>2
<1>5. (x \in S => f[x] \in Int) /\ (x \in R => g[x] \in Int)
  OBVIOUS
<1> HIDE DEF T
<1> QED BY <1>2, <1>3, <1>4, <1>5

-----------------------------------------------------------------------------
(* Numbers *)

LEMMA LargestOf ==
  ASSUME NEW S, IsFiniteSet(S), S # {}, S \subseteq Int
  PROVE  Max(S) \in S /\ \A y \in S : y <= Max(S)
<1> DEFINE Z == {T \in SUBSET S : T # {} => \E x \in T : \A y \in T : y <= x}
<1>1. {} \in Z
  OBVIOUS
<1>2. ASSUME NEW T \in Z, NEW a \in S, a \notin T PROVE T \cup {a} \in Z
  <2>1. CASE T = {}
    BY <2>1
  <2>2. CASE T # {}
    <3>1. PICK x \in T : \A y \in T : y <= x
      BY <2>2
    <3>2. CASE a <= x
      BY <3>1, <3>2
    <3>3. CASE x < a
      BY <3>1, <3>3
    <3> QED BY <3>2, <3>3
  <2> QED BY <2>1, <2>2
<1>3. S \in Z
  <2> HIDE DEF Z
  <2> QED BY <1>1, <1>2, BySize
<1>4. \E x \in S : \A y \in S : x >= y
  BY <1>3
<1> QED BY <1>4 DEF Max

LEMMA LargerOf ==
  ASSUME NEW a \in Int, NEW b \in Int
  PROVE  /\ Max({a, b}) = IF a >= b THEN a ELSE b
         /\ Min({a, b}) = IF a <= b THEN a ELSE b
<1>1. \A x \in {a, b} : (\A y \in {a, b} : x >= y) <=> x = (IF a >= b THEN a ELSE b)
  OBVIOUS
<1>2. \A x \in {a, b} : (\A y \in {a, b} : x <= y) <=> x = (IF a <= b THEN a ELSE b)
  OBVIOUS
<1> QED BY <1>1, <1>2 DEF Max, Min

LEMMA IntQuotient ==
  ASSUME NEW a \in Nat, NEW b \in Nat \ {0}
  PROVE  /\ a \div b \in Nat /\ b * (a \div b) <= a
         /\ a % b = 0 => b * (a \div b) = a
OBVIOUS

LEMMA DaysGrow ==
  ASSUME NEW a \in Nat, NEW b \in Nat, a <= b
  PROVE  DayOf(a) \in Nat /\ DayOf(a) <= DayOf(b) /\ BarOf(a) \in Nat
<1>1. BarsADay \in Nat \ {0}
  BY RiskAssumption
<1>2. /\ DayOf(a) \in Nat /\ DayOf(b) \in Nat /\ BarOf(a) \in Nat /\ BarOf(b) \in Nat
      /\ BarOf(a) < BarsADay /\ BarOf(b) < BarsADay
      /\ a = BarsADay * DayOf(a) + BarOf(a) /\ b = BarsADay * DayOf(b) + BarOf(b)
  BY <1>1 DEF DayOf, BarOf
<1>3. \A x, y, n, c \in Nat : n # 0 /\ y + 1 <= x => n * x >= n * y + n
  OBVIOUS
<1>4. SUFFICES ASSUME DayOf(b) < DayOf(a) PROVE FALSE
  BY <1>2
<1>5. BarsADay * DayOf(a) >= BarsADay * DayOf(b) + BarsADay
  BY <1>1, <1>2, <1>3, <1>4
<1>6. BarsADay * DayOf(a) \in Nat /\ BarsADay * DayOf(b) \in Nat
  BY <1>1, <1>2
<1> HIDE DEF DayOf, BarOf
<1> QED BY <1>1, <1>2, <1>5, <1>6

-----------------------------------------------------------------------------
(* The orders *)

\* Where an order may be stored: in its place, or after the last.
Places == 1..(Len(asked) + 1)

LEMMA StoredFact ==
  ASSUME asked \in Seq(RiskOrder), NEW i \in Places, NEW o \in RiskOrder
  PROVE  /\ Stored(i, o) \in Seq(RiskOrder) /\ DOMAIN Stored(i, o) = DOMAIN asked \cup {i}
         /\ Stored(i, o)[i] = o /\ \A j \in DOMAIN asked : j # i => Stored(i, o)[j] = asked[j]
         /\ Len(Stored(i, o)) = IF i > Len(asked) THEN i ELSE Len(asked)
         /\ IsFiniteSet(DOMAIN asked) /\ IsFiniteSet(DOMAIN Stored(i, o))
<1>1. Len(asked) \in Nat /\ DOMAIN asked = 1..Len(asked)
  BY LenProperties
<1>0. IsFiniteSet(DOMAIN asked) /\ IsFiniteSet(DOMAIN asked \cup {i})
  <2>1. IsFiniteSet(1..Len(asked))
    BY <1>1, FS_Interval
  <2> QED BY <1>1, <2>1, FS_AddElement
<1>2. CASE i > Len(asked)
  <2>1. i = Len(asked) + 1
    BY <1>1, <1>2 DEF Places
  <2>2. /\ Stored(i, o) \in Seq(RiskOrder) /\ Len(Stored(i, o)) = i /\ Stored(i, o)[i] = o
        /\ \A j \in 1..Len(asked) : Stored(i, o)[j] = asked[j]
    BY <1>2, <2>1, AppendProperties DEF Stored
  <2>3. DOMAIN Stored(i, o) = 1..i /\ 1..i = DOMAIN asked \cup {i}
    BY <1>1, <2>1, <2>2, LenProperties
  <2> QED BY <1>0, <1>1, <1>2, <2>1, <2>2, <2>3
<1>3. CASE ~(i > Len(asked))
  <2>1. i \in 1..Len(asked)
    BY <1>1, <1>3 DEF Places
  <2>2. Stored(i, o) = [asked EXCEPT ![i] = o]
    BY <1>3 DEF Stored
  <2>3. /\ Stored(i, o) \in Seq(RiskOrder) /\ Len(Stored(i, o)) = Len(asked)
    BY <2>1, <2>2, ExceptSeq
  <2>4. DOMAIN Stored(i, o) = DOMAIN asked /\ DOMAIN asked = DOMAIN asked \cup {i}
    BY <1>1, <2>1, <2>3, LenProperties
  <2>5. Stored(i, o)[i] = o /\ \A j \in DOMAIN asked : j # i => Stored(i, o)[j] = asked[j]
    BY <1>1, <2>1, <2>2
  <2> QED BY <1>0, <1>1, <1>3, <2>1, <2>3, <2>4, <2>5
<1> QED BY <1>2, <1>3

-----------------------------------------------------------------------------
(* The types of what the operators make *)

LEMMA IntProducts ==
  /\ \A a, b \in Nat : a * b \in Nat
  /\ \A a, b \in Int : a * b \in Int
OBVIOUS

LEMMA UnsentIsInt ==
  Unsent \in Int /\ Unsent + 1 = 0
BY DEF Unsent

LEMMA FreshTyped ==
  FreshScope \in ScopeState /\ FreshScope.qty = 0 /\ FreshScope.avg = 0 /\ FreshScope.gain = 0
<1>1. FreshScope.bar \in Int /\ FreshScope.loss \in Int
  BY UnsentIsInt DEF FreshScope
<1> QED BY <1>1 DEF FreshScope, ScopeState

LEMMA ProfileTyped ==
  ASSUME risk \in RiskSettings, NEW o \in RiskOrder
  PROVE  Profile(o) \in RiskProfile \cup {NoProfile}
<1>1. o.src \in Source /\ o.product \in Product
  BY DEF RiskOrder
<1> QED BY <1>1, SettingsAssumption DEF Profile

LEMMA OrderFields ==
  ASSUME NEW o \in RiskOrder
  PROVE  /\ o.qty \in Nat \ {0} /\ o.price \in Nat /\ Signed(o) \in Int /\ Signed(o) # 0
         /\ Magnitude(Signed(o)) = o.qty /\ o.made \in Nat /\ o.sent \in Int
         /\ HoldingOf(o) \in Holding /\ ScopeOf(o) \in Scope /\ HoldingOf(o)[2] = o.product
         /\ ScopeOf(o)[2] = HoldingOf(o) /\ o.src \in Source /\ o.sym \in Instrument /\ o.product \in Product
<1>1. /\ o.qty \in Nat \ {0} /\ o.price \in Nat /\ o.made \in Nat /\ o.src \in Source
      /\ o.sym \in Instrument /\ o.product \in Product
  BY DEF RiskOrder
<1>2. o.sent \in Int
  BY UnsentIsInt DEF RiskOrder
<1>3. Signed(o) \in Int /\ Signed(o) # 0 /\ Magnitude(Signed(o)) = o.qty
  BY <1>1 DEF Signed, Magnitude
<1>4. HoldingOf(o) \in Holding /\ HoldingOf(o)[2] = o.product
  BY <1>1 DEF HoldingOf, Holding
<1>5. ScopeOf(o) \in Scope /\ ScopeOf(o)[2] = HoldingOf(o)
  BY <1>1, <1>4 DEF ScopeOf, Scope
<1> QED BY <1>1, <1>2, <1>3, <1>4, <1>5

\* What an execution makes of the position of a scope.
LEMMA PostTradeIs ==
  ASSUME NEW s0 \in ScopeState, NEW o \in RiskOrder, NEW t \in Nat
  PROVE  /\ PostTrade(s0, o, t) \in ScopeState
         /\ PostTrade(s0, o, t).qty = s0.qty + Signed(o)
         /\ LET v == Valued(s0, o, s0.qty + Signed(o), TRUE)
            IN  /\ PostTrade(s0, o, t).avg = IF s0.qty + Signed(o) = 0 THEN 0 ELSE v.avg
                /\ PostTrade(s0, o, t).gain = IF s0.qty + Signed(o) = 0 THEN 0 ELSE v.gain
                /\ v.avg \in Nat /\ v.gain \in Int
         /\ LET s == NewDay(s0, t) IN
              /\ s \in ScopeState /\ s.qty = s0.qty /\ s.avg = s0.avg /\ s.gain = s0.gain
              /\ Closes(s, o) = Closes(s0, o) /\ ClosedGain(s, o) = ClosedGain(s0, o)
              /\ ClosedGain(s, o) \in Int
<1> DEFINE s == NewDay(s0, t)
           new == s.qty + Signed(o)
           u == Streak(s, o, t)
           v == Valued(s, o, new, TRUE)
<1>1. DayOf(t) \in Nat /\ BarOf(t) \in Nat
  BY DaysGrow
<1>2. s \in ScopeState /\ s.qty = s0.qty /\ s.avg = s0.avg /\ s.gain = s0.gain
  BY <1>1, UnsentIsInt DEF NewDay, ScopeState
<1>3. s.qty \in Int /\ s.avg \in Nat /\ s.gain \in Int /\ new \in Int
  BY <1>2, OrderFields DEF ScopeState
<1>4. o.qty \in Nat \ {0} /\ o.price \in Nat /\ Signed(o) \in Int /\ Magnitude(Signed(o)) = o.qty
  BY OrderFields
<1>5. Magnitude(s.qty) \in Nat /\ Magnitude(new) \in Nat /\ (new # 0 => Magnitude(new) # 0)
  BY <1>3 DEF Magnitude
<1>6. \A n \in Nat : Made(s, o.price, n) \in Int
  BY <1>3, <1>4, IntProducts DEF Made
<1>7. ClosedGain(s, o) \in Int
  BY <1>3, <1>5, <1>6 DEF ClosedGain
<1>8. Closes(s, o) = Closes(s0, o) /\ ClosedGain(s, o) = ClosedGain(s0, o)
  BY <1>2 DEF Closes, ClosedGain, Made
<1>9. v = Valued(s0, o, s0.qty + Signed(o), TRUE)
  BY <1>2, <1>8 DEF Valued, Made
<1>10. v.avg \in Nat /\ v.gain \in Int
  <2>1. s.gain + Made(s, o.price, o.qty) \in Int
    BY <1>3, <1>4, <1>6
  <2>2. ASSUME s.qty * Signed(o) > 0
        PROVE  (s.avg * Magnitude(s.qty) + o.price * o.qty) \div Magnitude(new) \in Nat
    <3>1. new # 0
      <4>1. s.qty * Signed(o) > 0 => ~(s.qty > 0 /\ Signed(o) < 0) /\ ~(s.qty < 0 /\ Signed(o) > 0)
                                     /\ s.qty # 0
        BY <1>3, <1>4
      <4> QED BY <1>3, <1>4, <2>2, <4>1
    <3>2. s.avg * Magnitude(s.qty) \in Nat /\ o.price * o.qty \in Nat
      BY <1>3, <1>4, <1>5, IntProducts
    <3>3. s.avg * Magnitude(s.qty) + o.price * o.qty \in Nat
      BY <3>2
    <3> QED BY <1>5, <3>1, <3>3, IntQuotient
  <2> HIDE DEF s, new
  <2> QED BY <2>1, <2>2, <1>3, <1>4 DEF Valued
<1>11. u \in ScopeState /\ u.qty = s.qty /\ u.avg = s.avg /\ u.gain = s.gain
  <2> HIDE DEF s
  <2>1. CASE ~Closes(s, o)
    BY <1>2, <2>1 DEF Streak
  <2>2. CASE Closes(s, o) /\ ClosedGain(s, o) < 0
    <3>1. u = [s EXCEPT !.streak = s.streak + 1, !.loss = BarOf(t)]
      BY <2>2 DEF Streak
    <3>2. s.streak + 1 \in Nat /\ BarOf(t) \in Int
      BY <1>1, <1>2 DEF ScopeState
    <3> HIDE DEF u
    <3> QED BY <1>2, <3>1, <3>2 DEF ScopeState
  <2>3. CASE Closes(s, o) /\ ~(ClosedGain(s, o) < 0)
    <3>1. u = [s EXCEPT !.streak = 0, !.loss = Unsent]
      BY <2>3 DEF Streak
    <3> HIDE DEF u
    <3> QED BY <1>2, <3>1, UnsentIsInt DEF ScopeState
  <2> QED BY <2>1, <2>2, <2>3
<1>12. PostTrade(s0, o, t) = Entered0(u, new, v, t)
  BY DEF PostTrade, ScopeAfter
<1>13. /\ Entered0(u, new, v, t) \in ScopeState /\ Entered0(u, new, v, t).qty = new
       /\ Entered0(u, new, v, t).avg = (IF new = 0 THEN 0 ELSE v.avg)
       /\ Entered0(u, new, v, t).gain = (IF new = 0 THEN 0 ELSE v.gain)
  <2> DEFINE avg == IF new = 0 THEN 0 ELSE v.avg
             gain == IF new = 0 THEN 0 ELSE v.gain
             trades == IF Magnitude(new) > Magnitude(u.qty) THEN u.trades + 1 ELSE u.trades
             latest == IF Magnitude(new) > Magnitude(u.qty) THEN BarOf(t) ELSE u.bar
  <2>1. avg \in Nat /\ gain \in Int /\ trades \in Nat /\ latest \in Int
    <3> HIDE DEF u, v, new
    <3> QED BY <1>1, <1>3, <1>10, <1>11 DEF ScopeState
  <2>2. Entered0(u, new, v, t) = [u EXCEPT !.qty = new, !.avg = avg, !.gain = gain, !.trades = trades, !.bar = latest]
    BY DEF Entered0
  <2> HIDE DEF u, v, new, avg, gain, trades, latest
  <2> QED BY <1>3, <1>11, <2>1, <2>2 DEF avg, gain, ScopeState
<1> HIDE DEF u
<1> QED BY <1>2, <1>7, <1>8, <1>9, <1>10, <1>12, <1>13

LEMMA AtBrokerIs ==
  ASSUME risk \in RiskSettings, NEW b \in Lot, NEW o \in RiskOrder
  PROVE  /\ AtBroker(b, o) \in Lot /\ AtBroker(b, o).qty = b.qty + Signed(o)
         /\ LET s == [FreshScope EXCEPT !.qty = b.qty, !.avg = b.avg]
                f == [o EXCEPT !.price = FillPrice(o)]
            IN  /\ s \in ScopeState /\ f \in RiskOrder /\ Signed(f) = Signed(o) /\ f.price = FillPrice(o)
                /\ f.qty = o.qty /\ FillPrice(o) \in Nat
                /\ AtBroker(b, o).avg = IF b.qty + Signed(o) = 0 THEN 0
                                        ELSE Valued(s, f, b.qty + Signed(o), TRUE).avg
<1> DEFINE s == [FreshScope EXCEPT !.qty = b.qty, !.avg = b.avg]
           f == [o EXCEPT !.price = FillPrice(o)]
<1>1. s \in ScopeState /\ s.qty = b.qty /\ s.avg = b.avg
  <2>2. b.qty \in Int /\ b.avg \in Nat
    BY DEF Lot
  <2> QED BY <2>2, FreshTyped DEF ScopeState
<1>2. FillPrice(o) \in Nat
  BY OrderFields, SettingsAssumption DEF FillPrice
<1>3. f \in RiskOrder /\ Signed(f) = Signed(o) /\ f.price = FillPrice(o) /\ f.qty = o.qty
  BY <1>2 DEF RiskOrder, Signed
<1>4. 0 \in Nat
  OBVIOUS
<1>5. /\ PostTrade(s, f, 0) \in ScopeState /\ PostTrade(s, f, 0).qty = s.qty + Signed(f)
      /\ PostTrade(s, f, 0).avg = IF s.qty + Signed(f) = 0 THEN 0 ELSE Valued(s, f, s.qty + Signed(f), TRUE).avg
  <2> HIDE DEF s, f
  <2> QED BY <1>1, <1>3, <1>4, PostTradeIs
<1>6. AtBroker(b, o) = [qty |-> PostTrade(s, f, 0).qty, avg |-> PostTrade(s, f, 0).avg]
  BY DEF AtBroker
<1> HIDE DEF s, f
<1>7. AtBroker(b, o) \in Lot
  BY <1>5, <1>6 DEF Lot, ScopeState
<1>8. /\ AtBroker(b, o).qty = b.qty + Signed(o)
      /\ AtBroker(b, o).avg = IF b.qty + Signed(o) = 0 THEN 0 ELSE Valued(s, f, b.qty + Signed(o), TRUE).avg
  <2>1. s.qty + Signed(f) = b.qty + Signed(o)
    BY <1>1, <1>3
  <2>2. AtBroker(b, o).qty = PostTrade(s, f, 0).qty /\ AtBroker(b, o).avg = PostTrade(s, f, 0).avg
    BY <1>6
  <2> QED BY <1>5, <2>1, <2>2
<1>9. /\ AtBroker(b, o) \in Lot /\ AtBroker(b, o).qty = b.qty + Signed(o)
      /\ s \in ScopeState /\ f \in RiskOrder /\ Signed(f) = Signed(o) /\ f.price = FillPrice(o)
      /\ f.qty = o.qty /\ FillPrice(o) \in Nat
      /\ AtBroker(b, o).avg = IF b.qty + Signed(o) = 0 THEN 0 ELSE Valued(s, f, b.qty + Signed(o), TRUE).avg
  BY <1>1, <1>2, <1>3, <1>7, <1>8
<1> QED BY <1>9 DEF s, f

\* The gains of round trips, and the account they make.
LEMMA TripsAreFinite ==
  ASSUME asked \in Seq(RiskOrder), trips \subseteq [entry : DOMAIN asked, exit : DOMAIN asked]
  PROVE  IsFiniteSet(trips) /\ \A t \in trips : TripGain(t) \in Int
<1> DEFINE D == DOMAIN asked
           T == D \X D
           m == [x \in T |-> [entry |-> x[1], exit |-> x[2]]]
<1>1. IsFiniteSet(D)
  BY LenProperties, FS_Interval
<1>2. IsFiniteSet(T)
  BY <1>1, FS_Product
<1>3. IsFiniteSet({m[x] : x \in T})
  <2> HIDE DEF T, m
  <2> QED BY <1>2, ImageIsFinite
<1>4. trips \subseteq {m[x] : x \in T}
  <2> SUFFICES ASSUME NEW t \in trips PROVE \E x \in T : t = m[x]
    OBVIOUS
  <2>1. t.entry \in D /\ t.exit \in D /\ t = [entry |-> t.entry, exit |-> t.exit]
    OBVIOUS
  <2>2. <<t.entry, t.exit>> \in T /\ t = m[<<t.entry, t.exit>>]
    BY <2>1
  <2> QED BY <2>2
<1>5. IsFiniteSet(trips)
  BY <1>3, <1>4, FS_Subset
<1>6. ASSUME NEW t \in trips PROVE TripGain(t) \in Int
  <2>1. asked[t.exit] \in RiskOrder /\ asked[t.entry] \in RiskOrder
    BY ElementOfSeq, LenProperties
  <2>2. asked[t.exit].price \in Nat /\ asked[t.entry].price \in Nat /\ asked[t.exit].qty \in Nat
    BY <2>1, OrderFields
  <2> QED BY <2>2, IntProducts DEF TripGain
<1> QED BY <1>5, <1>6

LEMMA GainsTyped ==
  ASSUME asked \in Seq(RiskOrder), trips \subseteq [entry : DOMAIN asked, exit : DOMAIN asked],
         NEW closed \in SUBSET trips
  PROVE  GainOf(closed) \in Int
<1> DEFINE f == [t \in trips |-> TripGain(t)]
<1>1. IsFiniteSet(closed) /\ \A t \in closed : f[t] \in Int
  BY TripsAreFinite, FS_Subset
<1> HIDE DEF f
<1> QED BY <1>1, SumIsInt DEF GainOf, f

LEMMA AccountTyped ==
  ASSUME asked \in Seq(RiskOrder), trips \subseteq [entry : DOMAIN asked, exit : DOMAIN asked]
  PROVE  /\ Account.now \in Int /\ Account.peak \in Nat /\ Account.peak > 0
         /\ Account.now <= Account.peak
         /\ Account.today \in Int /\ Account.streak \in Nat
<1> DEFINE E == [n \in 0..Len(asked) |-> EquityAfter(n)]
           S == {E[n] : n \in 0..Len(asked)}
<1>1. Len(asked) \in Nat /\ DOMAIN asked = 1..Len(asked)
  BY LenProperties
<1>2. \A n \in 0..Len(asked) : EquityAfter(n) \in Int
  BY GainsTyped, RiskAssumption DEF EquityAfter
<1>3. EquityAfter(0) = Baseline
  <2>1. {t \in trips : t.exit <= 0} = {}
    BY <1>1
  <2>2. GainOf({t \in trips : t.exit <= 0}) = 0
    BY <2>1, SumNothing DEF GainOf
  <2> QED BY <2>2, RiskAssumption DEF EquityAfter
<1>4. S = {EquityAfter(n) : n \in 0..Len(asked)}
  OBVIOUS
<1>5. IsFiniteSet(S) /\ S \subseteq Int /\ S # {}
  <2>1. IsFiniteSet(0..Len(asked))
    BY <1>1, FS_Interval
  <2>2. IsFiniteSet(S)
    <3> HIDE DEF E
    <3> QED BY <2>1, ImageIsFinite
  <2>3. 0 \in 0..Len(asked)
    BY <1>1
  <2> QED BY <1>2, <2>2, <2>3
<1>6. Baseline \in S /\ EquityAfter(Len(asked)) \in S
  BY <1>1, <1>3
<1>7. /\ Account.now = EquityAfter(Len(asked)) /\ Account.peak = Max(S)
      /\ Account.today = GainOf({t \in trips : DayOf(asked[t.exit].made) = DayOf(moment)})
      /\ Account.streak = Cardinality({t \in trips : \A u \in trips : u.exit >= t.exit => TripGain(u) < 0})
  BY <1>4 DEF Account
<1>8. Account.today \in Int
  BY <1>7, GainsTyped
<1>9. Account.streak \in Nat
  BY <1>7, TripsAreFinite, FS_Subset, FS_CardinalityType
<1> HIDE DEF S
<1>10. Max(S) \in Int /\ Baseline <= Max(S) /\ EquityAfter(Len(asked)) <= Max(S)
  BY <1>5, <1>6, LargestOf
<1>11. EquityAfter(Len(asked)) \in Int /\ Baseline \in Nat \ {0}
  BY <1>1, <1>2, RiskAssumption
<1> QED BY <1>7, <1>8, <1>9, <1>10, <1>11

-----------------------------------------------------------------------------
(* Sizing *)

LEMMA ProfileFields ==
  ASSUME NEW p \in RiskProfile
  PROVE  /\ p.capital \in Nat /\ p.slots \in Nat /\ p.exposure \in Nat /\ p.hard \in Nat /\ p.daily \in Nat
         /\ p.fallback \in Nat /\ p.near \in Nat /\ p.far \in Nat /\ p.mult \in Nat
         /\ p.max_qty \in Nat /\ p.max_value \in Nat /\ p.risk \in Nat /\ p.hard_risk \in Nat
         /\ p.hard_daily \in Nat
BY DEF RiskProfile

LEMMA SizedTyped ==
  ASSUME risk \in RiskSettings, NEW o \in RiskOrder, NEW p \in RiskProfile, NEW a
  PROVE  Sized(o, p, a) \in Nat
<1> USE OrderFields, ProfileFields
<1>1. \A b, c \in Nat : Max({b, c}) \in Nat /\ Min({b, c}) \in Nat
  BY LargerOf
<1>2. \A qty, limit, unit \in Nat : CapTo(qty, limit, unit) \in Nat
  <2> SUFFICES ASSUME NEW qty \in Nat, NEW limit \in Nat, NEW unit \in Nat, qty * unit > limit
               PROVE  limit \div unit \in Nat
    BY DEF CapTo
  <2>1. unit # 0
    OBVIOUS
  <2> QED BY <2>1, IntQuotient
<1>3. Wanted(o, p, a) \in Nat
  <2>1. TenthsOfCapital(a, p) \in Nat
    BY IntProducts DEF TenthsOfCapital
  <2>2. o.price # 0 => 10 * o.price \in Nat \ {0}
    OBVIOUS
  <2>3. o.price # 0 => TenthsOfCapital(a, p) \div (10 * o.price) \in Nat
    BY <2>1, <2>2, IntQuotient
  <2> QED BY <2>3 DEF Wanted
<1>4. \A qty \in Nat : WithinCount(p, qty) \in Nat /\ WithinValue(o, p, qty) \in Nat
  BY <1>1, <1>2 DEF WithinCount, WithinValue
<1>5. StopDistance(o, p) \in Nat
  <2>1. risk.atr[o.sym] \in Nat
    BY SettingsAssumption
  <2>2. /\ o.price * p.near \in Nat /\ o.price * p.far \in Nat /\ o.price * p.fallback \in Nat
        /\ 100 * risk.atr[o.sym] * p.mult \in Nat
    BY <2>1, IntProducts
  <2> DEFINE Within(d) == Max({o.price * p.near, Min({d, o.price * p.far})})
  <2>3. \A d \in Nat : Within(d) \in Nat
    BY <1>1, <2>2
  <2>4. Within(o.price * p.fallback) \in Nat /\ Within(100 * risk.atr[o.sym] * p.mult) \in Nat
    BY <2>2, <2>3
  <2> QED BY <2>4 DEF StopDistance
<1>6. \A qty, unit, pct \in Nat : WithinLoss(qty, pct, unit) \in Nat
  BY <1>2, IntProducts, RiskAssumption DEF WithinLoss
<1>7. \A qty, unit \in Nat : WithinRisk(o, p, qty, unit) \in Nat
  BY <1>6 DEF WithinRisk
<1> QED BY <1>3, <1>4, <1>5, <1>7 DEF Sized

\* What is decided is a quantity, and a yes or no.
LEMMA DecisionTyped ==
  ASSUME risk \in RiskSettings, NEW o \in RiskOrder, NEW p \in RiskProfile \cup {NoProfile}, NEW a
  PROVE  Decision(o, p, a).qty \in Nat /\ Decision(o, p, a).sound \in BOOLEAN
<1>1. o.qty \in Nat
  BY OrderFields
<1>2. CASE IsExit(o)
  <2>1. Decision(o, p, a) = [qty |-> o.qty, sound |-> TableInStep /\ Reduces(o, table[HoldingOf(o)].qty)]
    BY <1>2 DEF Decision
  <2> QED BY <1>1, <2>1
<1>3. CASE ~IsExit(o) /\ p = NoProfile
  <2>1. Decision(o, p, a) = [qty |-> IF o.src = "MANUAL" THEN o.qty ELSE 0, sound |-> FALSE]
    BY <1>3 DEF Decision
  <2> QED BY <1>1, <2>1
<1>4. CASE ~IsExit(o) /\ p # NoProfile /\ o.src = "MANUAL" /\ risk.manual_override
  <2>1. Decision(o, p, a) = [qty |-> o.qty, sound |-> FALSE]
    BY <1>4 DEF Decision
  <2> QED BY <1>1, <2>1
<1>5. CASE ~IsExit(o) /\ p # NoProfile /\ ~(o.src = "MANUAL" /\ risk.manual_override)
  <2>1. Decision(o, p, a) = [qty |-> Verdict(o, p, a), sound |-> TableInStep /\ o.price # 0 /\ a.now > 0]
    BY <1>5 DEF Decision
  <2>2. Verdict(o, p, a) \in Nat
    BY <1>5, SizedTyped DEF Verdict
  <2> QED BY <2>1, <2>2
<1> QED BY <1>2, <1>3, <1>4, <1>5

-----------------------------------------------------------------------------
(* Types *)

\* What every action but the judging of an order does to the list of orders: it
\* stores one, or leaves the list alone.
LEMMA RiskTypedInit == RiskInit => RiskTypeOK
<1> SUFFICES ASSUME RiskInit PROVE RiskTypeOK
  OBVIOUS
<1> USE DEF RiskInit
<1>1. asked \in Seq(RiskOrder) /\ DOMAIN asked = {}
  BY LenProperties, EmptySeq
<1>2. book \in [Holding -> Lot] /\ table \in [Holding -> Lot]
  BY DEF Lot
<1>3. scope \in [Scope -> ScopeState] /\ won \in [Scope -> Int]
  BY FreshTyped
<1>4. risk.bars \in Nat
  BY SettingsAssumption
<1>5. snaps \in [0..DayOf(risk.bars) -> Nat] /\ moment \in 0..risk.bars
  BY <1>4
<1> QED BY <1>1, <1>2, <1>3, <1>5 DEF RiskTypeOK

\* An order that is made or sent by now.
Timely(o) == o.made \in 0..moment /\ o.sent \in Unsent..moment

LEMMA StoredTyped ==
  ASSUME RiskTypeOK, NEW i \in Places, NEW o \in RiskOrder, Timely(o), asked' = Stored(i, o),
         moment' = moment
  PROVE  /\ asked' \in Seq(RiskOrder) /\ DOMAIN asked' = DOMAIN asked \cup {i}
         /\ \A j \in DOMAIN asked' : asked'[j].made \in 0..moment' /\ asked'[j].sent \in Unsent..moment'
         /\ trips \subseteq [entry : DOMAIN asked', exit : DOMAIN asked']
         /\ strays \subseteq DOMAIN asked'
<1>1. asked \in Seq(RiskOrder)
  BY DEF RiskTypeOK
<1>2. /\ asked' \in Seq(RiskOrder) /\ DOMAIN asked' = DOMAIN asked \cup {i} /\ asked'[i] = o
      /\ \A j \in DOMAIN asked : j # i => asked'[j] = asked[j]
  BY <1>1, StoredFact
<1>3. ASSUME NEW j \in DOMAIN asked' PROVE asked'[j].made \in 0..moment' /\ asked'[j].sent \in Unsent..moment'
  <2>1. CASE j = i
    BY <1>2, <2>1 DEF Timely
  <2>2. CASE j # i
    BY <1>2, <2>2 DEF RiskTypeOK
  <2> QED BY <2>1, <2>2
<1>4. trips \subseteq [entry : DOMAIN asked', exit : DOMAIN asked'] /\ strays \subseteq DOMAIN asked'
  BY <1>2 DEF RiskTypeOK
<1> QED BY <1>2, <1>3, <1>4

LEMMA SentIs ==
  ASSUME NEW o \in RiskOrder, NEW q \in Nat \ {0}, moment \in Nat
  PROVE  LET s == SentNow(o, q) IN
         /\ s \in RiskOrder /\ s.qty = q /\ s.status = "SENT" /\ s.sent = moment
         /\ s.made = o.made /\ s.price = o.price /\ s.side = o.side /\ HoldingOf(s) = HoldingOf(o)
         /\ ScopeOf(s) = ScopeOf(o) /\ s.src = o.src /\ s.product = o.product /\ s.sym = o.sym
         /\ s.exit = o.exit
BY DEF SentNow, RiskOrder, HoldingOf, ScopeOf

LEMMA ExecuteTyped ==
  ASSUME RiskTypeOK, NEW i \in Places, NEW o \in RiskOrder, Timely(o), Execute(i, o)
  PROVE  RiskTypeOK'
<1> DEFINE p == Profile(o)
           a == Account
           d == Decision(o, p, a)
           k == ScopeOf(o)
           sent == SentNow(o, d.qty)
           rejected == [o EXCEPT !.status = "REJECTED_RISK"]
<1>1. /\ risk \in RiskSettings /\ asked \in Seq(RiskOrder) /\ moment \in Nat /\ risk.bars \in Nat
      /\ moment <= risk.bars
      /\ trips \subseteq [entry : DOMAIN asked, exit : DOMAIN asked]
  BY SettingsAssumption DEF RiskTypeOK
<1>0. moment \in Nat /\ risk.bars \in Nat /\ moment <= risk.bars
  BY <1>1
<1>2. p \in RiskProfile \cup {NoProfile}
  BY <1>1, ProfileTyped
<1>3. d.qty \in Nat /\ d.sound \in BOOLEAN
  <2> HIDE DEF p, a
  <2> QED BY <1>1, <1>2, DecisionTyped
<1>4. /\ Enact(i, o, d)
      /\ snaps' = IF Recorded(o, p) THEN [snaps EXCEPT ![DayOf(moment)] = Max({snaps[DayOf(moment)], a.peak})]
                  ELSE snaps
      /\ UNCHANGED <<risk, book, table, trips, moment>>
  BY DEF Execute, Judge
<1>5. snaps' \in [0..DayOf(risk.bars) -> Nat]
  <2>1. a.peak \in Nat
    BY <1>1, AccountTyped
  <2>2. DayOf(moment) \in 0..DayOf(risk.bars) /\ snaps \in [0..DayOf(risk.bars) -> Nat]
    <3>1. DayOf(moment) \in Nat /\ DayOf(risk.bars) \in Nat /\ DayOf(moment) <= DayOf(risk.bars)
      BY <1>0, DaysGrow
    <3> QED BY <3>1 DEF RiskTypeOK
  <2>3. Max({snaps[DayOf(moment)], a.peak}) \in Nat
    <3>1. snaps[DayOf(moment)] \in Nat
      BY <2>2
    <3> HIDE DEF a
    <3> QED BY <2>1, <3>1, LargerOf
  <2> HIDE DEF a, p
  <2> QED BY <1>4, <2>2, <2>3
<1>6. k \in Scope
  BY OrderFields
<1>7. CASE d.qty > 0
  <2>1. Send(i, sent, k, d.sound)
    BY <1>4, <1>7 DEF Enact
  <2>2. sent \in RiskOrder /\ Timely(sent)
    <3>1. moment \in Unsent..moment /\ moment \in Nat \cup {Unsent}
      BY <1>1, UnsentIsInt
    <3>2. o.made \in 0..moment
      BY DEF Timely
    <3>3. d.qty \in Nat \ {0}
      BY <1>3, <1>7
    <3> HIDE DEF d
    <3>4. sent \in RiskOrder /\ sent.made = o.made /\ sent.sent = moment
      BY <1>0, <3>3, SentIs
    <3> QED BY <3>1, <3>2, <3>4 DEF Timely
  <2> HIDE DEF d, sent, k
  <2>3. scope[k] \in ScopeState /\ scope \in [Scope -> ScopeState] /\ won \in [Scope -> Int]
    BY <1>6 DEF RiskTypeOK
  <2>4. /\ PostTrade(scope[k], sent, moment) \in ScopeState
        /\ ClosedGain(NewDay(scope[k], moment), sent) \in Int
    BY <1>1, <2>2, <2>3, PostTradeIs
  <2>5. scope' \in [Scope -> ScopeState]
    BY <2>1, <2>3, <2>4 DEF Send
  <2>6. won' \in [Scope -> Int]
    <3>1. won[k] \in Int /\ won[k] + ClosedGain(NewDay(scope[k], moment), sent) \in Int
      BY <1>6, <2>3, <2>4
    <3> QED BY <2>1, <2>3, <3>1 DEF Send
  <2>7. rounded' \subseteq Scope
    BY <1>6, <2>1 DEF Send, RiskTypeOK
  <2>8. asked' = Stored(i, sent)
    BY <2>1 DEF Send
  <2>9. /\ asked' \in Seq(RiskOrder) /\ DOMAIN asked' = DOMAIN asked \cup {i}
        /\ \A j \in DOMAIN asked' : asked'[j].made \in 0..moment' /\ asked'[j].sent \in Unsent..moment'
        /\ trips \subseteq [entry : DOMAIN asked', exit : DOMAIN asked']
        /\ strays \subseteq DOMAIN asked'
    BY <1>4, <2>2, <2>8, StoredTyped
  <2>10. strays' \subseteq DOMAIN asked'
    BY <2>1, <2>9 DEF Send
  <2> QED BY <1>4, <1>5, <2>5, <2>6, <2>7, <2>9, <2>10 DEF RiskTypeOK
<1>8. CASE ~(d.qty > 0)
  <2>1. Reject(i, rejected)
    BY <1>4, <1>8 DEF Enact
  <2>2. rejected \in RiskOrder /\ Timely(rejected)
    BY DEF RiskOrder, Timely
  <2> HIDE DEF d, rejected
  <2>3. asked' = Stored(i, rejected) /\ UNCHANGED <<scope, won, strays, rounded>>
    BY <2>1 DEF Reject
  <2>4. /\ asked' \in Seq(RiskOrder) /\ DOMAIN asked' = DOMAIN asked \cup {i}
        /\ \A j \in DOMAIN asked' : asked'[j].made \in 0..moment' /\ asked'[j].sent \in Unsent..moment'
        /\ trips \subseteq [entry : DOMAIN asked', exit : DOMAIN asked']
        /\ strays \subseteq DOMAIN asked'
    BY <1>4, <2>2, <2>3, StoredTyped
  <2> QED BY <1>4, <1>5, <2>3, <2>4 DEF RiskTypeOK
<1> QED BY <1>7, <1>8

LEMMA BlankTyped ==
  ASSUME RiskTypeOK, NEW deal \in risk.menu
  PROVE  Blank(deal) \in RiskOrder /\ Timely(Blank(deal)) /\ Blank(deal).status = "WAITING"
<1>1. deal \in RiskOrder /\ moment \in Nat /\ risk.bars \in Nat
  BY SettingsAssumption DEF RiskTypeOK
<1>2. Unsent \in Nat \cup {Unsent} /\ Unsent \in Unsent..moment /\ moment \in 0..moment
  BY <1>1, UnsentIsInt
<1>3. Blank(deal) \in RiskOrder
  BY <1>1, <1>2 DEF Blank, RiskOrder
<1>4. Blank(deal).made = moment /\ Blank(deal).sent = Unsent /\ Blank(deal).status = "WAITING"
  BY <1>1 DEF Blank, RiskOrder
<1> QED BY <1>2, <1>3, <1>4 DEF Timely

LEMMA AskedTyped ==
  ASSUME RiskTypeOK, NEW i \in DOMAIN asked
  PROVE  /\ asked[i] \in RiskOrder /\ Timely(asked[i]) /\ i \in 1..Len(asked) /\ i \in Places
         /\ i <= Len(asked) /\ Len(asked) \in Nat /\ DOMAIN asked = 1..Len(asked)
<1>1. asked \in Seq(RiskOrder)
  BY DEF RiskTypeOK
<1>2. asked[i] \in RiskOrder /\ Len(asked) \in Nat /\ DOMAIN asked = 1..Len(asked)
  BY <1>1, LenProperties, ElementOfSeq
<1> QED BY <1>2 DEF RiskTypeOK, Timely, Places

\* The reports of the broker.
LEMMA EndsTyped ==
  ASSUME RiskTypeOK, NEW i \in DOMAIN asked, NEW status \in {"EXECUTED", "CANCELLED"}, Ends(i, status)
  PROVE  LET o == [asked[i] EXCEPT !.status = status] IN
         /\ o \in RiskOrder /\ asked' = Stored(i, o) /\ i \in Places /\ Timely(o)
         /\ asked[i].status = "SENT" /\ asked[i] \in RiskOrder
         /\ o.status = status /\ o.sent = asked[i].sent /\ o.made = asked[i].made /\ o.price = asked[i].price
         /\ o.qty = asked[i].qty /\ o.side = asked[i].side /\ HoldingOf(o) = HoldingOf(asked[i])
         /\ ScopeOf(o) = ScopeOf(asked[i]) /\ Signed(o) = Signed(asked[i])
<1> DEFINE o == [asked[i] EXCEPT !.status = status]
<1>1. asked[i] \in RiskOrder /\ Timely(asked[i]) /\ i \in Places /\ ~(i > Len(asked))
  BY AskedTyped DEF Places
<1>2. o \in RiskOrder /\ Timely(o)
  BY <1>1 DEF RiskOrder, Timely
<1>3. asked' = Stored(i, o) /\ asked[i].status = "SENT"
  BY <1>1 DEF Ends, Stored
<1>4. /\ o.status = status /\ o.sent = asked[i].sent /\ o.made = asked[i].made /\ o.price = asked[i].price
      /\ o.qty = asked[i].qty /\ o.side = asked[i].side /\ HoldingOf(o) = HoldingOf(asked[i])
      /\ ScopeOf(o) = ScopeOf(asked[i]) /\ Signed(o) = Signed(asked[i])
  BY <1>1 DEF RiskOrder, HoldingOf, ScopeOf, Signed
<1> QED BY <1>1, <1>2, <1>3, <1>4

LEMMA FilledTyped ==
  ASSUME RiskTypeOK, NEW i \in DOMAIN asked, Filled(i)
  PROVE  RiskTypeOK'
<1> DEFINE o == [asked[i] EXCEPT !.status = "EXECUTED"]
<1>1. /\ o \in RiskOrder /\ asked' = Stored(i, o) /\ i \in Places /\ Timely(o) /\ asked[i] \in RiskOrder
  BY EndsTyped DEF Filled
<1>2. UNCHANGED <<risk, table, trips, scope, snaps, moment, won, strays, rounded>>
  BY DEF Filled, Ends
<1>3. /\ asked' \in Seq(RiskOrder) /\ DOMAIN asked' = DOMAIN asked \cup {i}
      /\ \A j \in DOMAIN asked' : asked'[j].made \in 0..moment' /\ asked'[j].sent \in Unsent..moment'
      /\ trips \subseteq [entry : DOMAIN asked', exit : DOMAIN asked'] /\ strays \subseteq DOMAIN asked'
  <2> HIDE DEF o
  <2> QED BY <1>1, <1>2, StoredTyped
<1>4. book' \in [Holding -> Lot]
  <2>1. HoldingOf(asked[i]) \in Holding
    BY <1>1, OrderFields
  <2>2. book \in [Holding -> Lot] /\ risk \in RiskSettings
    BY DEF RiskTypeOK
  <2>3. book[HoldingOf(asked[i])] \in Lot
    BY <2>1, <2>2
  <2>4. AtBroker(book[HoldingOf(asked[i])], asked[i]) \in Lot
    BY <1>1, <2>2, <2>3, AtBrokerIs
  <2>5. book' = [book EXCEPT ![HoldingOf(asked[i])] = AtBroker(book[HoldingOf(asked[i])], asked[i])]
    BY DEF Filled
  <2> QED BY <2>2, <2>4, <2>5
<1> HIDE DEF o
<1> QED BY <1>2, <1>3, <1>4 DEF RiskTypeOK

LEMMA LapsedTyped ==
  ASSUME RiskTypeOK, NEW i \in DOMAIN asked, Lapsed(i)
  PROVE  RiskTypeOK'
<1> DEFINE o == [asked[i] EXCEPT !.status = "CANCELLED"]
<1>1. /\ o \in RiskOrder /\ asked' = Stored(i, o) /\ i \in Places /\ Timely(o)
  BY EndsTyped DEF Lapsed
<1>2. UNCHANGED <<risk, book, table, trips, scope, snaps, moment, won, strays, rounded>>
  BY DEF Lapsed, Ends
<1>3. /\ asked' \in Seq(RiskOrder) /\ DOMAIN asked' = DOMAIN asked \cup {i}
      /\ \A j \in DOMAIN asked' : asked'[j].made \in 0..moment' /\ asked'[j].sent \in Unsent..moment'
      /\ trips \subseteq [entry : DOMAIN asked', exit : DOMAIN asked'] /\ strays \subseteq DOMAIN asked'
  <2> HIDE DEF o
  <2> QED BY <1>1, <1>2, StoredTyped
<1> HIDE DEF o
<1> QED BY <1>2, <1>3 DEF RiskTypeOK

LEMMA AskTyped ==
  ASSUME RiskTypeOK, NEW deal \in risk.menu, Ask(deal)
  PROVE  RiskTypeOK' /\ Len(asked) + 1 \in Places /\ asked' = Stored(Len(asked) + 1, Blank(deal))
<1>1. Len(asked) \in Nat /\ Len(asked) + 1 \in Places
  BY LenProperties DEF Places, RiskTypeOK
<1>2. asked' = Stored(Len(asked) + 1, Blank(deal))
  BY <1>1 DEF Ask, Stored
<1>3. UNCHANGED <<risk, book, table, trips, scope, snaps, moment, won, strays, rounded>>
  BY DEF Ask
<1>4. Blank(deal) \in RiskOrder /\ Timely(Blank(deal))
  BY BlankTyped
<1>5. /\ asked' \in Seq(RiskOrder)
      /\ \A j \in DOMAIN asked' : asked'[j].made \in 0..moment' /\ asked'[j].sent \in Unsent..moment'
      /\ trips \subseteq [entry : DOMAIN asked', exit : DOMAIN asked'] /\ strays \subseteq DOMAIN asked'
  BY <1>1, <1>2, <1>3, <1>4, StoredTyped
<1> QED BY <1>1, <1>2, <1>3, <1>5 DEF RiskTypeOK

-----------------------------------------------------------------------------
(* The pairing of a stream *)

\* The state of the pairing after the first n orders, what it may be, and a step.
Step(stream, acc, n) == IF n \in stream THEN Met(acc, n) ELSE acc
Pairings(stream, after) ==
  after = [n \in 0..Len(asked) |-> IF n = 0 THEN [open |-> 0, pairs |-> {}]
                                   ELSE IF n \in stream THEN Met(after[n - 1], n) ELSE after[n - 1]]
Meetings(stream) == [open : {0} \cup stream, pairs : SUBSET [entry : stream, exit : stream]]

LEMMA MeetingsStay ==
  ASSUME NEW stream, NEW acc \in Meetings(stream), NEW n
  PROVE  Step(stream, acc, n) \in Meetings(stream)
<1>1. CASE n \notin stream
  BY <1>1 DEF Step
<1>2. CASE n \in stream /\ (acc.open = 0 \/ ~Matches(asked[acc.open], asked[n]))
  <2>1. Step(stream, acc, n) = [acc EXCEPT !.open = n]
    BY <1>2 DEF Step, Met
  <2> QED BY <1>2, <2>1 DEF Meetings
<1>3. CASE n \in stream /\ ~(acc.open = 0 \/ ~Matches(asked[acc.open], asked[n]))
  <2>1. Step(stream, acc, n) = [open |-> 0, pairs |-> acc.pairs \cup {[entry |-> acc.open, exit |-> n]}]
    BY <1>3 DEF Step, Met
  <2>2. acc.open \in stream /\ acc.pairs \subseteq [entry : stream, exit : stream]
    BY <1>3 DEF Meetings
  <2>3. [entry |-> acc.open, exit |-> n] \in [entry : stream, exit : stream]
    BY <1>3, <2>2
  <2> QED BY <2>1, <2>2, <2>3 DEF Meetings
<1> QED BY <1>1, <1>2, <1>3

LEMMA PairingExists ==
  ASSUME asked \in Seq(RiskOrder), NEW stream
  PROVE  \E after : Pairings(stream, after)
<1> DEFINE N == Len(asked)
           D == Meetings(stream)
           d == [open |-> 0, pairs |-> {}]
           body == [x \in D \X (1..N) |-> Step(stream, x[1], x[2])]
<1>1. N \in Nat
  BY LenProperties
<1>2. d \in D
  BY DEF Meetings
<1>3. StaysIn(body, N, D)
  <2> SUFFICES ASSUME NEW e \in D, NEW n \in 1..N PROVE body[<<e, n>>] \in D
    BY DEF StaysIn
  <2>1. body[<<e, n>>] = Step(stream, e, n)
    OBVIOUS
  <2> HIDE DEF body
  <2> QED BY <2>1, MeetingsStay
<1>4. PICK g : Runs(g, body, d, N, D)
  <2> HIDE DEF body, d, D, N
  <2> QED BY <1>1, <1>2, <1>3, LoopExists
<1>5. g \in [0..N -> D] /\ g[0] = d
  BY <1>4 DEF Runs
<1>6. ASSUME NEW n \in 1..N PROVE g[n] = Step(stream, g[n - 1], n)
  <2>1. g[n] = body[<<g[n - 1], n>>]
    BY <1>4 DEF Runs
  <2>2. g[n - 1] \in D
    <3>1. n - 1 \in 0..N
      BY <1>1
    <3> HIDE DEF D, N
    <3> QED BY <1>5, <3>1
  <2> QED BY <2>1, <2>2
<1>7. ASSUME NEW n \in 0..N
      PROVE  g[n] = IF n = 0 THEN d ELSE IF n \in stream THEN Met(g[n - 1], n) ELSE g[n - 1]
  <2>1. CASE n = 0
    BY <1>5, <2>1
  <2>2. CASE n # 0
    <3>1. n \in 1..N
      BY <2>2
    <3> QED BY <1>6, <2>2, <3>1 DEF Step
  <2> QED BY <2>1, <2>2
<1>8. Pairings(stream, g)
  <2> HIDE DEF D
  <2> QED BY <1>5, <1>7 DEF Pairings
<1> QED BY <1>8

\* The round trips of a stream: of two of its orders, the earlier first, and no
\* order in two of them.
PairsUpTo(stream, n, acc) ==
  /\ acc \in Meetings(stream) /\ acc.open <= n
  /\ \A t \in acc.pairs : t.entry < t.exit /\ t.exit <= n /\ Matches(asked[t.entry], asked[t.exit])
                          /\ acc.open \notin {t.entry, t.exit}
  /\ \A t, u \in acc.pairs : t # u => {t.entry, t.exit} \cap {u.entry, u.exit} = {}

LEMMA PairingGoesOn ==
  ASSUME NEW stream \in SUBSET (Nat \ {0}), NEW n \in Nat, NEW acc, PairsUpTo(stream, n, acc)
  PROVE  PairsUpTo(stream, n + 1, Step(stream, acc, n + 1))
<1> DEFINE m == n + 1
           next == Step(stream, acc, m)
           t0 == [entry |-> acc.open, exit |-> m]
<1>1. next \in Meetings(stream)
  BY MeetingsStay DEF PairsUpTo
<1>2. /\ acc.open \in {0} \cup stream /\ acc.open \in Nat /\ acc.open <= n
      /\ \A t \in acc.pairs : t.entry \in Nat \ {0} /\ t.exit \in Nat \ {0} /\ t.entry < t.exit /\ t.exit <= n
  <2>1. acc.open \in {0} \cup stream /\ acc.pairs \subseteq [entry : stream, exit : stream]
    BY DEF PairsUpTo, Meetings
  <2>2. \A t \in acc.pairs : t.entry \in Nat \ {0} /\ t.exit \in Nat \ {0}
    BY <2>1
  <2>3. acc.open \in Nat
    <3>1. {0} \cup stream \subseteq Nat
      OBVIOUS
    <3> QED BY <2>1, <3>1, Zenon
  <2> QED BY <2>1, <2>2, <2>3 DEF PairsUpTo
<1>3. CASE m \notin stream
  <2>1. next = acc
    BY <1>3 DEF Step
  <2> QED BY <1>1, <1>2, <2>1 DEF PairsUpTo
<1>4. CASE m \in stream /\ (acc.open = 0 \/ ~Matches(asked[acc.open], asked[m]))
  <2>1. next = [acc EXCEPT !.open = m]
    BY <1>4 DEF Step, Met
  <2>2. next.open = m /\ next.pairs = acc.pairs
    BY <2>1 DEF PairsUpTo, Meetings
  <2> HIDE DEF next
  <2>3. \A t \in next.pairs : t.entry < t.exit /\ t.exit <= m /\ Matches(asked[t.entry], asked[t.exit])
                              /\ next.open \notin {t.entry, t.exit}
    BY <1>2, <2>2 DEF PairsUpTo
  <2>4. PairsUpTo(stream, m, next)
    BY <1>1, <2>2, <2>3 DEF PairsUpTo
  <2> QED BY <2>4 DEF next
<1>5. CASE m \in stream /\ ~(acc.open = 0 \/ ~Matches(asked[acc.open], asked[m]))
  <2>1. next = [open |-> 0, pairs |-> acc.pairs \cup {t0}]
    BY <1>5 DEF Step, Met
  <2>2. next.open = 0 /\ next.pairs = acc.pairs \cup {t0} /\ t0.entry = acc.open /\ t0.exit = m
    BY <2>1
  <2> HIDE DEF next, t0
  <2>3. \A t \in next.pairs : t.entry < t.exit /\ t.exit <= m /\ Matches(asked[t.entry], asked[t.exit])
                              /\ next.open \notin {t.entry, t.exit}
    <3>1. t0.entry < t0.exit /\ t0.exit <= m /\ next.open \notin {t0.entry, t0.exit}
      BY <1>2, <1>5, <2>2
    <3>2. Matches(asked[t0.entry], asked[t0.exit])
      BY <1>5, <2>2
    <3>3. ASSUME NEW t \in acc.pairs
          PROVE  t.entry < t.exit /\ t.exit <= m /\ Matches(asked[t.entry], asked[t.exit])
                 /\ next.open \notin {t.entry, t.exit}
      BY <1>2, <2>2 DEF PairsUpTo
    <3> QED BY <2>2, <3>1, <3>2, <3>3
  <2>4. \A t, u \in next.pairs : t # u => {t.entry, t.exit} \cap {u.entry, u.exit} = {}
    <3>1. ASSUME NEW t \in acc.pairs PROVE {t.entry, t.exit} \cap {t0.entry, t0.exit} = {}
      <4>1. acc.open \notin {t.entry, t.exit} /\ m \notin {t.entry, t.exit}
        BY <1>2 DEF PairsUpTo
      <4> QED BY <2>2, <4>1
    <3>2. \A t, u \in acc.pairs : t # u => {t.entry, t.exit} \cap {u.entry, u.exit} = {}
      BY DEF PairsUpTo
    <3> QED BY <2>2, <3>1, <3>2
  <2>5. next.open <= m
    BY <2>2
  <2>6. PairsUpTo(stream, m, next)
    BY <1>1, <2>3, <2>4, <2>5 DEF PairsUpTo
  <2> QED BY <2>6 DEF next
<1> QED BY <1>3, <1>4, <1>5

LEMMA PairedIs ==
  ASSUME asked \in Seq(RiskOrder), NEW stream \in SUBSET DOMAIN asked
  PROVE  /\ \A t \in Paired(stream) : t \in [entry : stream, exit : stream] /\ t.entry < t.exit
                                      /\ Matches(asked[t.entry], asked[t.exit])
         /\ \A t, u \in Paired(stream) : t # u => {t.entry, t.exit} \cap {u.entry, u.exit} = {}
<1> DEFINE N == Len(asked)
           after == CHOOSE f : Pairings(stream, f)
           D == {x \in Nat \X Meetings(stream) : PairsUpTo(stream, x[1], x[2])}
           g == [n \in 0..N |-> <<n, after[n]>>]
<1>1. N \in Nat /\ stream \subseteq Nat \ {0}
  BY LenProperties
<1>2. Pairings(stream, after)
  BY PairingExists
<1>3. Paired(stream) = after[N].pairs
  BY DEF Paired, Pairings
<1> HIDE DEF after
<1>4. after[0] = [open |-> 0, pairs |-> {}]
  BY <1>1, <1>2 DEF Pairings
<1>5. ASSUME NEW n \in 1..N PROVE after[n] = Step(stream, after[n - 1], n)
  <2>1. n \in 0..N /\ n # 0
    BY <1>1
  <2> QED BY <1>2, <2>1 DEF Pairings, Step
<1>6. g[0] \in D
  <2>1. PairsUpTo(stream, 0, after[0])
    BY <1>4 DEF PairsUpTo, Meetings
  <2>2. after[0] \in Meetings(stream)
    BY <2>1 DEF PairsUpTo
  <2>3. g[0] = <<0, after[0]>>
    BY <1>1
  <2> QED BY <2>1, <2>2, <2>3
<1>7. ASSUME NEW n \in 1..N, g[n - 1] \in D PROVE g[n] \in D
  <2>1. n - 1 \in 0..N /\ n \in 0..N /\ n - 1 \in Nat /\ (n - 1) + 1 = n
    BY <1>1
  <2>2. g[n - 1] = <<n - 1, after[n - 1]>> /\ g[n] = <<n, after[n]>>
    BY <2>1
  <2>3. PairsUpTo(stream, n - 1, after[n - 1])
    <3>1. PairsUpTo(stream, g[n - 1][1], g[n - 1][2])
      BY <1>7
    <3> HIDE DEF g
    <3> QED BY <2>2, <3>1
  <2>4. PairsUpTo(stream, (n - 1) + 1, Step(stream, after[n - 1], (n - 1) + 1))
    BY <1>1, <2>1, <2>3, PairingGoesOn
  <2>5. PairsUpTo(stream, n, after[n])
    BY <1>5, <2>1, <2>4
  <2>6. after[n] \in Meetings(stream)
    BY <2>5 DEF PairsUpTo
  <2> HIDE DEF g
  <2> QED BY <2>1, <2>2, <2>5, <2>6
<1>8. g[N] \in D
  <2> HIDE DEF g, D, N
  <2> QED BY <1>1, <1>6, <1>7, LoopStays
<1>9. PairsUpTo(stream, N, after[N])
  <2>1. g[N] = <<N, after[N]>>
    BY <1>1
  <2>2. PairsUpTo(stream, g[N][1], g[N][2])
    BY <1>8
  <2> HIDE DEF g
  <2> QED BY <2>1, <2>2
<1>10. after[N].pairs \subseteq [entry : stream, exit : stream]
  BY <1>9 DEF PairsUpTo, Meetings
<1> QED BY <1>3, <1>9, <1>10 DEF PairsUpTo

\* A rebuild adds round trips of the orders of one stream that had none.
LEMMA RebuildIs ==
  ASSUME RiskTypeOK, RebuildTrades
  PROVE  /\ UNCHANGED <<risk, asked, book, table, scope, snaps, moment, won, strays, rounded>>
         /\ trips \subseteq trips'
         /\ \A t \in trips' \ trips :
              \E k \in Scope : t \in Paired(Stream(k)) /\ t.entry \in Stream(k) /\ t.exit \in Stream(k)
                               /\ t \in [entry : DOMAIN asked, exit : DOMAIN asked]
<1>1. /\ UNCHANGED <<risk, asked, book, table, scope, snaps, moment, won, strays, rounded>>
      /\ trips' = trips \cup UNION {Paired(Stream(k)) : k \in Scope}
  BY DEF RebuildTrades
<1>2. ASSUME NEW k \in Scope, NEW t \in Paired(Stream(k))
      PROVE  t.entry \in Stream(k) /\ t.exit \in Stream(k) /\ t \in [entry : DOMAIN asked, exit : DOMAIN asked]
  <2>1. Stream(k) \in SUBSET DOMAIN asked
    BY DEF Stream
  <2>2. t \in [entry : Stream(k), exit : Stream(k)]
    BY <2>1, PairedIs DEF RiskTypeOK
  <2> QED BY <2>1, <2>2
<1> QED BY <1>1, <1>2

LEMMA RebuildTyped ==
  ASSUME RiskTypeOK, RebuildTrades
  PROVE  RiskTypeOK'
<1>1. trips' \subseteq [entry : DOMAIN asked, exit : DOMAIN asked]
  BY RebuildIs DEF RiskTypeOK
<1>2. UNCHANGED <<risk, asked, book, table, scope, snaps, moment, won, strays, rounded>>
  BY RebuildIs
<1> QED BY <1>1, <1>2 DEF RiskTypeOK

LEMMA SyncTyped ==
  ASSUME RiskTypeOK, SyncPositions
  PROVE  RiskTypeOK'
BY DEF RiskTypeOK, SyncPositions

LEMMA BarTyped ==
  ASSUME RiskTypeOK, NextBarPasses
  PROVE  RiskTypeOK'
<1>1. /\ moment \in Nat /\ risk.bars \in Nat /\ moment' = moment + 1 /\ moment' <= risk.bars
  BY SettingsAssumption DEF RiskTypeOK, NextBarPasses
<1>2. UNCHANGED <<risk, asked, book, table, trips, scope, snaps, won, strays, rounded>>
  BY DEF NextBarPasses
<1>3. ASSUME NEW i \in DOMAIN asked PROVE asked[i].made \in 0..moment' /\ asked[i].sent \in Unsent..moment'
  <2>1. asked[i].made \in 0..moment /\ asked[i].sent \in Unsent..moment
    BY DEF RiskTypeOK
  <2> QED BY <1>1, <2>1, UnsentIsInt
<1>4. moment' \in 0..risk.bars
  BY <1>1
<1> QED BY <1>2, <1>3, <1>4 DEF RiskTypeOK

LEMMA DispatchIs ==
  ASSUME RiskTypeOK, NEW deal \in risk.menu, Dispatch(deal)
  PROVE  \E i \in Places, o \in RiskOrder :
           Timely(o) /\ o.status = "WAITING" /\ Execute(i, o) /\ i = Len(asked) + 1
<1>1. Len(asked) \in Nat /\ Len(asked) + 1 \in Places
  BY LenProperties DEF Places, RiskTypeOK
<1> QED BY <1>1, BlankTyped DEF Dispatch

LEMMA ExecuteManualIs ==
  ASSUME RiskTypeOK, NEW i \in DOMAIN asked, ExecuteManual(i)
  PROVE  /\ i \in Places /\ asked[i] \in RiskOrder /\ Timely(asked[i]) /\ asked[i].status = "WAITING"
         /\ Execute(i, asked[i])
BY AskedTyped DEF ExecuteManual, Places

LEMMA RiskTypedNext ==
  ASSUME RiskTypeOK, [RiskNext]_riskVars
  PROVE  RiskTypeOK'
<1>1. CASE \E deal \in risk.menu : Dispatch(deal)
  BY <1>1, DispatchIs, ExecuteTyped
<1>2. CASE \E deal \in risk.menu : Ask(deal)
  BY <1>2, AskTyped
<1>3. CASE \E i \in DOMAIN asked : ExecuteManual(i)
  BY <1>3, ExecuteManualIs, ExecuteTyped
<1>4. CASE \E i \in DOMAIN asked : Filled(i)
  BY <1>4, FilledTyped
<1>5. CASE \E i \in DOMAIN asked : Lapsed(i)
  BY <1>5, LapsedTyped
<1>6. CASE SyncPositions
  BY <1>6, SyncTyped
<1>7. CASE RebuildTrades
  BY <1>7, RebuildTyped
<1>8. CASE NextBarPasses
  BY <1>8, BarTyped
<1>9. CASE UNCHANGED riskVars
  BY <1>9 DEF riskVars, RiskTypeOK
<1> QED BY <1>1, <1>2, <1>3, <1>4, <1>5, <1>6, <1>7, <1>8, <1>9 DEF RiskNext

\* Orders, positions and records keep their types (execute_order_internal, the
\* broker's reports, sync_positions_from_zerodha, rebuild_trades).
THEOREM RiskTyped == RiskSpec => []RiskTypeOK
<1>1. RiskInit => RiskTypeOK
  BY RiskTypedInit
<1>2. RiskTypeOK /\ [RiskNext]_riskVars => RiskTypeOK'
  BY RiskTypedNext
<1> QED BY <1>1, <1>2, PTL DEF RiskSpec

-----------------------------------------------------------------------------
(* The steps, as what they store *)

\* Orders are with the broker, or have been, once they are placed.
Standing(o) == Placed(o) <=> o.status \in {"SENT", "EXECUTED", "CANCELLED"}
OrdersStand == \A i \in DOMAIN asked : Standing(asked[i])

\* An order that is rejected, asked for, or reported on is for the records the
\* same as before: it has not been placed, or keeps what it was placed with.
Quiet(i, o) ==
  /\ asked' = Stored(i, o) /\ i \in Places /\ o \in RiskOrder
  /\ i \in DOMAIN asked => /\ Placed(o) <=> Placed(asked[i])
                           /\ Placed(o) => /\ Signed(o) = Signed(asked[i]) /\ o.price = asked[i].price
                                           /\ ScopeOf(o) = ScopeOf(asked[i]) /\ o.made = asked[i].made
  /\ i \notin DOMAIN asked => ~Placed(o)
  /\ UNCHANGED <<risk, scope, won, strays, rounded>>

\* An order that goes to the broker.
Loud(i, o, q, sound) ==
  /\ i \in Places /\ o \in RiskOrder /\ o.status = "WAITING" /\ q \in Nat \ {0} /\ sound \in BOOLEAN
  /\ i \in DOMAIN asked => o = asked[i]
  /\ Send(i, SentNow(o, q), ScopeOf(o), sound)
  /\ UNCHANGED <<risk, book, table, trips, moment>>

LEMMA ExecuteIs ==
  ASSUME RiskTypeOK, NEW i \in Places, NEW o \in RiskOrder, o.status = "WAITING", ~Placed(o),
         i \in DOMAIN asked => o = asked[i], Execute(i, o)
  PROVE  /\ UNCHANGED <<risk, book, table, trips, moment>>
         /\ LET d == Decision(o, Profile(o), Account) IN
            \/ Loud(i, o, d.qty, d.sound)
            \/ LET r == [o EXCEPT !.status = "REJECTED_RISK"]
               IN  Quiet(i, r) /\ ~Placed(r) /\ r.status = "REJECTED_RISK" /\ r.exit = o.exit
<1> DEFINE p == Profile(o)
           a == Account
           d == Decision(o, p, a)
           r == [o EXCEPT !.status = "REJECTED_RISK"]
<1>1. risk \in RiskSettings
  BY DEF RiskTypeOK
<1>2. p \in RiskProfile \cup {NoProfile}
  BY <1>1, ProfileTyped
<1>3. d.qty \in Nat /\ d.sound \in BOOLEAN
  <2> HIDE DEF p, a
  <2> QED BY <1>1, <1>2, DecisionTyped
<1>4. Enact(i, o, d) /\ UNCHANGED <<risk, book, table, trips, moment>>
  BY DEF Execute, Judge
<1>5. CASE d.qty > 0
  <2>1. Send(i, SentNow(o, d.qty), ScopeOf(o), d.sound)
    BY <1>4, <1>5 DEF Enact
  <2>2. d.qty \in Nat \ {0}
    BY <1>3, <1>5
  <2> HIDE DEF d
  <2>3. Loud(i, o, d.qty, d.sound)
    BY <1>3, <1>4, <2>1, <2>2 DEF Loud
  <2> QED BY <1>4, <2>3 DEF d
<1>6. CASE ~(d.qty > 0)
  <2>1. Reject(i, r)
    BY <1>4, <1>6 DEF Enact
  <2>2. r \in RiskOrder /\ ~Placed(r) /\ r.status = "REJECTED_RISK" /\ r.exit = o.exit
    BY DEF RiskOrder, Placed
  <2> HIDE DEF r
  <2>3. Quiet(i, r)
    BY <1>4, <2>1, <2>2 DEF Quiet, Reject
  <2> QED BY <1>4, <2>2, <2>3 DEF r
<1> QED BY <1>5, <1>6

\* What a step does to the orders and the state of the scopes.
Fills(i, status) ==
  /\ i \in DOMAIN asked /\ status \in {"EXECUTED", "CANCELLED"} /\ asked[i].status = "SENT"
  /\ Quiet(i, [asked[i] EXCEPT !.status = status])
  /\ UNCHANGED <<risk, table, trips, scope, snaps, moment, won, strays, rounded>>
Rests == UNCHANGED <<risk, asked, scope, won, strays, rounded>>

LEMMA EndsIs ==
  ASSUME RiskTypeOK, NEW i \in DOMAIN asked, NEW status \in {"EXECUTED", "CANCELLED"}, Ends(i, status)
  PROVE  Fills(i, status)
<1> DEFINE o == [asked[i] EXCEPT !.status = status]
<1>1. /\ o \in RiskOrder /\ asked' = Stored(i, o) /\ i \in Places
      /\ asked[i].status = "SENT" /\ asked[i] \in RiskOrder
      /\ o.status = status /\ o.sent = asked[i].sent /\ o.made = asked[i].made /\ o.price = asked[i].price
      /\ ScopeOf(o) = ScopeOf(asked[i]) /\ Signed(o) = Signed(asked[i])
  BY EndsTyped
<1>2. UNCHANGED <<risk, table, trips, scope, snaps, moment, won, strays, rounded>>
  BY DEF Ends
<1> HIDE DEF o
<1>3. Quiet(i, o)
  BY <1>1, <1>2 DEF Quiet, Placed
<1> QED BY <1>1, <1>2, <1>3 DEF Fills, o

LEMMA RiskStepIs ==
  ASSUME RiskTypeOK, OrdersStand, [RiskNext]_riskVars
  PROVE  \/ \E i \in Places, o \in RiskOrder :
              /\ Timely(o) /\ Standing(o) /\ o.status = "WAITING" /\ (i \in DOMAIN asked => o = asked[i])
              /\ Execute(i, o)
         \/ \E deal \in risk.menu : Ask(deal) /\ Quiet(Len(asked) + 1, Blank(deal))
         \/ \E i \in DOMAIN asked : Filled(i) /\ Fills(i, "EXECUTED")
         \/ \E i \in DOMAIN asked : Lapsed(i) /\ Fills(i, "CANCELLED")
         \/ SyncPositions \/ RebuildTrades \/ NextBarPasses \/ UNCHANGED riskVars
<1>1. ASSUME NEW deal \in risk.menu, Dispatch(deal)
      PROVE  \E i \in Places, o \in RiskOrder :
               /\ Timely(o) /\ Standing(o) /\ o.status = "WAITING" /\ (i \in DOMAIN asked => o = asked[i])
               /\ Execute(i, o)
  <2>1. Len(asked) \in Nat /\ Len(asked) + 1 \in Places /\ DOMAIN asked = 1..Len(asked)
    BY LenProperties DEF Places, RiskTypeOK
  <2>2. Len(asked) + 1 \notin DOMAIN asked
    BY <2>1
  <2>3. Blank(deal).sent = Unsent
    BY SettingsAssumption DEF RiskTypeOK, Blank, RiskOrder
  <2> QED BY <1>1, <2>1, <2>2, <2>3, BlankTyped DEF Dispatch, Standing, Placed
<1>2. ASSUME NEW i \in DOMAIN asked, ExecuteManual(i)
      PROVE  \E j \in Places, o \in RiskOrder :
               /\ Timely(o) /\ Standing(o) /\ o.status = "WAITING" /\ (j \in DOMAIN asked => o = asked[j])
               /\ Execute(j, o)
  BY <1>2, ExecuteManualIs DEF OrdersStand
<1>3. ASSUME NEW deal \in risk.menu, Ask(deal) PROVE Quiet(Len(asked) + 1, Blank(deal))
  <2>1. Len(asked) + 1 \notin DOMAIN asked
    BY LenProperties DEF RiskTypeOK
  <2>2. Blank(deal) \in RiskOrder /\ Blank(deal).sent = Unsent
    BY BlankTyped, SettingsAssumption DEF RiskTypeOK, Blank, RiskOrder
  <2>3. asked' = Stored(Len(asked) + 1, Blank(deal)) /\ Len(asked) + 1 \in Places
    BY <1>3, AskTyped
  <2>4. UNCHANGED <<risk, scope, won, strays, rounded>>
    BY <1>3 DEF Ask
  <2> QED BY <2>1, <2>2, <2>3, <2>4 DEF Quiet, Placed
<1>4. ASSUME NEW i \in DOMAIN asked, Filled(i) PROVE Fills(i, "EXECUTED")
  BY <1>4, EndsIs DEF Filled
<1>5. ASSUME NEW i \in DOMAIN asked, Lapsed(i) PROVE Fills(i, "CANCELLED")
  BY <1>5, EndsIs DEF Lapsed
<1> QED BY <1>1, <1>2, <1>3, <1>4, <1>5 DEF RiskNext

LEMMA StoredStands ==
  ASSUME RiskTypeOK, OrdersStand, NEW i \in Places, NEW o \in RiskOrder, Standing(o), asked' = Stored(i, o)
  PROVE  OrdersStand'
<1>1. asked \in Seq(RiskOrder)
  BY DEF RiskTypeOK
<1>2. /\ DOMAIN asked' = DOMAIN asked \cup {i} /\ asked'[i] = o
      /\ \A j \in DOMAIN asked : j # i => asked'[j] = asked[j]
  BY <1>1, StoredFact
<1>3. ASSUME NEW j \in DOMAIN asked' PROVE Standing(asked'[j])
  <2>1. CASE j = i
    BY <1>2, <2>1
  <2>2. CASE j # i
    BY <1>2, <2>2 DEF OrdersStand
  <2> QED BY <2>1, <2>2
<1> QED BY <1>3 DEF OrdersStand

LEMMA LoudStands ==
  ASSUME RiskTypeOK, NEW i, NEW o, NEW q, NEW sound, Loud(i, o, q, sound)
  PROVE  LET s == SentNow(o, q) IN
         /\ s \in RiskOrder /\ s.qty = q /\ s.status = "SENT" /\ s.sent = moment /\ Placed(s) /\ Standing(s)
         /\ s.made = o.made /\ s.price = o.price /\ s.side = o.side /\ HoldingOf(s) = HoldingOf(o)
         /\ ScopeOf(s) = ScopeOf(o) /\ s.src = o.src /\ s.product = o.product /\ s.sym = o.sym
         /\ s.exit = o.exit /\ asked' = Stored(i, s) /\ i \in Places
<1>1. moment \in Nat
  BY SettingsAssumption DEF RiskTypeOK
<1>2. moment # Unsent
  BY <1>1, UnsentIsInt
<1>3. o \in RiskOrder /\ q \in Nat \ {0} /\ asked' = Stored(i, SentNow(o, q)) /\ i \in Places
  BY DEF Loud, Send
<1> QED BY <1>1, <1>2, <1>3, SentIs DEF Placed, Standing

LEMMA StandingNext ==
  ASSUME RiskTypeOK, OrdersStand, [RiskNext]_riskVars
  PROVE  OrdersStand'
<1>1. CASE \E i \in Places, o \in RiskOrder :
              /\ Timely(o) /\ Standing(o) /\ o.status = "WAITING" /\ (i \in DOMAIN asked => o = asked[i])
              /\ Execute(i, o)
  <2>1. PICK i \in Places, o \in RiskOrder :
              /\ Timely(o) /\ Standing(o) /\ o.status = "WAITING" /\ (i \in DOMAIN asked => o = asked[i])
              /\ Execute(i, o)
    BY <1>1
  <2>2. ~Placed(o)
    BY <2>1 DEF Standing
  <2> DEFINE d == Decision(o, Profile(o), Account)
             r == [o EXCEPT !.status = "REJECTED_RISK"]
  <2>3. Loud(i, o, d.qty, d.sound) \/ (Quiet(i, r) /\ ~Placed(r) /\ r.status = "REJECTED_RISK")
    BY <2>1, <2>2, ExecuteIs
  <2> HIDE DEF d, r
  <2>4. CASE Loud(i, o, d.qty, d.sound)
    BY <2>4, LoudStands, StoredStands
  <2>5. CASE Quiet(i, r) /\ ~Placed(r) /\ r.status = "REJECTED_RISK"
    BY <2>5, StoredStands DEF Quiet, Standing
  <2> QED BY <2>3, <2>4, <2>5
<1>2. CASE \E deal \in risk.menu : Ask(deal) /\ Quiet(Len(asked) + 1, Blank(deal))
  <2>1. PICK deal \in risk.menu : Ask(deal) /\ Quiet(Len(asked) + 1, Blank(deal))
    BY <1>2
  <2>2. Len(asked) + 1 \notin DOMAIN asked
    BY LenProperties DEF RiskTypeOK
  <2>3. Standing(Blank(deal))
    BY <2>1, <2>2, BlankTyped DEF Standing, Quiet
  <2> QED BY <2>1, <2>3, StoredStands DEF Quiet
<1>3. ASSUME NEW i \in DOMAIN asked, NEW status \in {"EXECUTED", "CANCELLED"}, Fills(i, status)
      PROVE  OrdersStand'
  <2> DEFINE o == [asked[i] EXCEPT !.status = status]
  <2>1. asked[i] \in RiskOrder /\ Standing(asked[i]) /\ asked[i].status = "SENT" /\ Quiet(i, o)
    BY <1>3, AskedTyped DEF Fills, OrdersStand
  <2>2. o.status = status
    BY <2>1 DEF RiskOrder
  <2> HIDE DEF o
  <2>3. Standing(o)
    BY <2>1, <2>2 DEF Standing, Quiet
  <2> QED BY <2>1, <2>3, StoredStands DEF Quiet
<1>4. CASE asked' = asked
  BY <1>4 DEF OrdersStand
<1>5. SyncPositions \/ RebuildTrades \/ NextBarPasses \/ UNCHANGED riskVars => asked' = asked
  BY DEF SyncPositions, RebuildTrades, NextBarPasses, riskVars
<1> QED BY <1>1, <1>2, <1>3, <1>4, <1>5, RiskStepIs

-----------------------------------------------------------------------------
(* Round trips pair off *)

\* TripsPairOff, one round trip and two round trips at a time.
GoodTrip(t) ==
  /\ t.entry < t.exit /\ Executed(asked[t.entry]) /\ Executed(asked[t.exit])
  /\ ScopeOf(asked[t.entry]) = ScopeOf(asked[t.exit]) /\ Matches(asked[t.entry], asked[t.exit])
Apart(t, u) == {t.entry, t.exit} \cap {u.entry, u.exit} = {}

LEMMA PairOffIs ==
  TripsPairOff <=> (\A t \in trips : GoodTrip(t)) /\ (\A t, u \in trips : t # u => Apart(t, u))
BY DEF TripsPairOff, GoodTrip, Apart

\* Storing an order leaves the round trips as they are, when it replaces none
\* that was filled.
LEMMA StoredPairsOff ==
  ASSUME RiskTypeOK, TripsPairOff, NEW i \in Places, NEW o \in RiskOrder, asked' = Stored(i, o), trips' = trips,
         i \in DOMAIN asked => ~Executed(asked[i])
  PROVE  TripsPairOff'
<1>1. /\ \A j \in DOMAIN asked : j # i => asked'[j] = asked[j]
      /\ trips \subseteq [entry : DOMAIN asked, exit : DOMAIN asked]
  BY StoredFact DEF RiskTypeOK
<1>2. ASSUME NEW t \in trips PROVE asked'[t.entry] = asked[t.entry] /\ asked'[t.exit] = asked[t.exit]
  <2>1. t.entry \in DOMAIN asked /\ t.exit \in DOMAIN asked
    BY <1>1
  <2>2. Executed(asked[t.entry]) /\ Executed(asked[t.exit])
    BY DEF TripsPairOff
  <2> QED BY <1>1, <2>1, <2>2
<1> QED BY <1>2 DEF TripsPairOff

LEMMA RebuiltPairsOff ==
  ASSUME RiskTypeOK, TripsPairOff, RebuildTrades
  PROVE  TripsPairOff'
<1>1. /\ asked' = asked /\ trips' = trips \cup UNION {Paired(Stream(k)) : k \in Scope}
  BY DEF RebuildTrades
<1>2. ASSUME NEW k \in Scope
      PROVE  /\ \A t \in Paired(Stream(k)) : t.entry \in Stream(k) /\ t.exit \in Stream(k) /\ GoodTrip(t)
             /\ \A t, u \in Paired(Stream(k)) : t # u => Apart(t, u)
  <2>1. Stream(k) \in SUBSET DOMAIN asked /\ asked \in Seq(RiskOrder)
    BY DEF Stream, RiskTypeOK
  <2>2. /\ \A t \in Paired(Stream(k)) : t \in [entry : Stream(k), exit : Stream(k)] /\ t.entry < t.exit
                                        /\ Matches(asked[t.entry], asked[t.exit])
        /\ \A t, u \in Paired(Stream(k)) : t # u => {t.entry, t.exit} \cap {u.entry, u.exit} = {}
    BY <2>1, PairedIs
  <2>3. ASSUME NEW t \in Paired(Stream(k))
        PROVE  t.entry \in Stream(k) /\ t.exit \in Stream(k) /\ GoodTrip(t)
    <3>1. t.entry \in Stream(k) /\ t.exit \in Stream(k)
      BY <2>2
    <3>2. /\ Executed(asked[t.entry]) /\ Executed(asked[t.exit])
          /\ ScopeOf(asked[t.entry]) = k /\ ScopeOf(asked[t.exit]) = k
      BY <3>1 DEF Stream
    <3> QED BY <2>2, <3>1, <3>2 DEF GoodTrip
  <2> QED BY <2>2, <2>3 DEF Apart
<1>3. ASSUME NEW t \in trips' PROVE GoodTrip(t)
  BY <1>1, <1>2, <1>3, PairOffIs
<1>4. ASSUME NEW t \in trips, NEW k \in Scope, NEW u \in Paired(Stream(k)) PROVE Apart(t, u) /\ Apart(u, t)
  <2>1. t.entry \in Used /\ t.exit \in Used
    BY DEF Used
  <2>2. u.entry \notin Used /\ u.exit \notin Used
    BY <1>2 DEF Stream
  <2> QED BY <2>1, <2>2 DEF Apart
<1>5. ASSUME NEW k \in Scope, NEW t \in Paired(Stream(k)), NEW l \in Scope, NEW u \in Paired(Stream(l)), k # l
      PROVE  Apart(t, u)
  <2>1. t.entry \in Stream(k) /\ t.exit \in Stream(k) /\ u.entry \in Stream(l) /\ u.exit \in Stream(l)
    BY <1>2
  <2>2. Stream(k) \cap Stream(l) = {}
    BY <1>5 DEF Stream
  <2> QED BY <2>1, <2>2 DEF Apart
<1>6. ASSUME NEW t \in trips', NEW u \in trips', t # u PROVE Apart(t, u)
  <2>1. CASE t \in trips /\ u \in trips
    BY <1>6, <2>1, PairOffIs
  <2>2. CASE t \in trips /\ u \notin trips
    BY <1>1, <1>4, <2>2
  <2>3. CASE t \notin trips /\ u \in trips
    BY <1>1, <1>4, <2>3
  <2>4. CASE t \notin trips /\ u \notin trips
    <3>1. PICK k \in Scope : t \in Paired(Stream(k))
      BY <1>1, <2>4
    <3>2. PICK l \in Scope : u \in Paired(Stream(l))
      BY <1>1, <2>4
    <3> QED BY <1>2, <1>5, <1>6, <3>1, <3>2
  <2> QED BY <2>1, <2>2, <2>3, <2>4
<1> QED BY <1>1, <1>3, <1>6 DEF TripsPairOff, GoodTrip, Apart

LEMMA PairOffNext ==
  ASSUME RiskTypeOK, OrdersStand, TripsPairOff, [RiskNext]_riskVars
  PROVE  TripsPairOff'
<1>1. CASE \E i \in Places, o \in RiskOrder :
              /\ Timely(o) /\ Standing(o) /\ o.status = "WAITING" /\ (i \in DOMAIN asked => o = asked[i])
              /\ Execute(i, o)
  <2>1. PICK i \in Places, o \in RiskOrder :
              /\ Timely(o) /\ Standing(o) /\ o.status = "WAITING" /\ (i \in DOMAIN asked => o = asked[i])
              /\ Execute(i, o)
    BY <1>1
  <2>2. ~Placed(o) /\ ~Executed(o)
    BY <2>1 DEF Standing, Executed
  <2> DEFINE d == Decision(o, Profile(o), Account)
             r == [o EXCEPT !.status = "REJECTED_RISK"]
  <2>3. (Loud(i, o, d.qty, d.sound) \/ Quiet(i, r)) /\ trips' = trips
    BY <2>1, <2>2, ExecuteIs
  <2> HIDE DEF d, r
  <2>4. CASE Loud(i, o, d.qty, d.sound)
    BY <2>1, <2>2, <2>3, <2>4, LoudStands, StoredPairsOff
  <2>5. CASE Quiet(i, r)
    BY <2>1, <2>2, <2>3, <2>5, StoredPairsOff DEF Quiet
  <2> QED BY <2>3, <2>4, <2>5
<1>2. CASE \E deal \in risk.menu : Ask(deal) /\ Quiet(Len(asked) + 1, Blank(deal))
  <2>1. PICK deal \in risk.menu : Ask(deal) /\ Quiet(Len(asked) + 1, Blank(deal))
    BY <1>2
  <2>2. Len(asked) + 1 \notin DOMAIN asked
    BY LenProperties DEF RiskTypeOK
  <2>3. trips' = trips
    BY <2>1 DEF Ask
  <2> QED BY <2>1, <2>2, <2>3, StoredPairsOff DEF Quiet
<1>3. ASSUME NEW i \in DOMAIN asked, NEW status \in {"EXECUTED", "CANCELLED"}, Fills(i, status)
      PROVE  TripsPairOff'
  <2> DEFINE o == [asked[i] EXCEPT !.status = status]
  <2>1. Quiet(i, o) /\ trips' = trips /\ ~Executed(asked[i])
    BY <1>3 DEF Fills, Executed
  <2> HIDE DEF o
  <2> QED BY <2>1, StoredPairsOff DEF Quiet
<1>4. CASE RebuildTrades
  BY <1>4, RebuiltPairsOff
<1>5. CASE asked' = asked /\ trips' = trips
  BY <1>5 DEF TripsPairOff
<1>6. SyncPositions \/ NextBarPasses \/ UNCHANGED riskVars => asked' = asked /\ trips' = trips
  BY DEF SyncPositions, NextBarPasses, riskVars
<1> QED BY <1>1, <1>2, <1>3, <1>4, <1>5, <1>6, RiskStepIs

-----------------------------------------------------------------------------
(* The position of a scope is the sum of its orders *)

\* What every order adds to a position and to what was paid, and the orders of a scope.
SignedQty == [i \in DOMAIN asked |-> Signed(asked[i])]
Money == [i \in DOMAIN asked |-> Signed(asked[i]) * asked[i].price]
Own(k) == {i \in DOMAIN asked : Placed(asked[i]) /\ ScopeOf(asked[i]) = k}
AllKnown(k) == \A i \in Own(k) : asked[i].price # 0

LEMMA AddsUpIs ==
  ScopeAddsUp <=>
    \A k \in Scope :
      /\ scope[k].qty = SumFunctionOnSet(SignedQty, Own(k))
      /\ k \notin rounded /\ AllKnown(k)
           => won[k] + scope[k].gain + SumFunctionOnSet(Money, Own(k)) = scope[k].qty * scope[k].avg
BY DEF ScopeAddsUp, Tally, Paid, SignedQty, Money, Own, AllKnown

LEMMA OwnTyped ==
  ASSUME asked \in Seq(RiskOrder), NEW k
  PROVE  /\ IsFiniteSet(Own(k)) /\ Own(k) \subseteq DOMAIN asked
         /\ \A i \in DOMAIN asked : SignedQty[i] \in Int /\ Money[i] \in Int
         /\ SumFunctionOnSet(SignedQty, Own(k)) \in Int /\ SumFunctionOnSet(Money, Own(k)) \in Int
<1>1. IsFiniteSet(DOMAIN asked)
  BY LenProperties, FS_Interval
<1>2. Own(k) \subseteq DOMAIN asked
  BY DEF Own
<1>3. IsFiniteSet(Own(k))
  BY <1>1, <1>2, FS_Subset
<1>4. ASSUME NEW i \in DOMAIN asked PROVE SignedQty[i] \in Int /\ Money[i] \in Int
  <2>1. Signed(asked[i]) \in Int /\ asked[i].price \in Int
    BY LenProperties, ElementOfSeq, OrderFields
  <2> QED BY <2>1, IntProducts DEF SignedQty, Money
<1>5. (\A i \in Own(k) : SignedQty[i] \in Int) /\ (\A i \in Own(k) : Money[i] \in Int)
  BY <1>2, <1>4
<1> QED BY <1>2, <1>3, <1>4, <1>5, SumIsInt

\* The sums over the orders of a scope, after one more is stored or sent.
LEMMA StoredOwn ==
  ASSUME asked \in Seq(RiskOrder), NEW i \in Places, NEW o \in RiskOrder, asked' = Stored(i, o), NEW k
  PROVE  /\ asked' \in Seq(RiskOrder) /\ DOMAIN asked' = DOMAIN asked \cup {i}
         /\ Own(k)' \ {i} = Own(k) \ {i}
         /\ i \in Own(k)' <=> Placed(o) /\ ScopeOf(o) = k
         /\ SignedQty'[i] = Signed(o) /\ Money'[i] = Signed(o) * o.price
         /\ \A j \in DOMAIN asked : j # i => SignedQty'[j] = SignedQty[j] /\ Money'[j] = Money[j]
         /\ \A j \in Own(k) \ {i} : asked'[j] = asked[j]
         /\ asked'[i] = o
<1>1. /\ asked' \in Seq(RiskOrder) /\ DOMAIN asked' = DOMAIN asked \cup {i} /\ asked'[i] = o
      /\ \A j \in DOMAIN asked : j # i => asked'[j] = asked[j]
  BY StoredFact
<1>2. Own(k)' \ {i} = Own(k) \ {i}
  BY <1>1 DEF Own
<1>3. i \in Own(k)' <=> Placed(o) /\ ScopeOf(o) = k
  BY <1>1 DEF Own
<1>4. SignedQty'[i] = Signed(o) /\ Money'[i] = Signed(o) * o.price
  BY <1>1 DEF SignedQty, Money
<1>5. \A j \in DOMAIN asked : j # i => SignedQty'[j] = SignedQty[j] /\ Money'[j] = Money[j]
  BY <1>1 DEF SignedQty, Money
<1>6. \A j \in Own(k) \ {i} : asked'[j] = asked[j]
  BY <1>1 DEF Own
<1> QED BY <1>1, <1>2, <1>3, <1>4, <1>5, <1>6

LEMMA StoredSums ==
  ASSUME asked \in Seq(RiskOrder), NEW i \in Places, NEW o \in RiskOrder, asked' = Stored(i, o), NEW k
  PROVE  /\ SumFunctionOnSet(SignedQty, Own(k))' - (IF i \in Own(k)' THEN Signed(o) ELSE 0)
              = SumFunctionOnSet(SignedQty, Own(k)) - (IF i \in Own(k) THEN SignedQty[i] ELSE 0)
         /\ SumFunctionOnSet(Money, Own(k))' - (IF i \in Own(k)' THEN Signed(o) * o.price ELSE 0)
              = SumFunctionOnSet(Money, Own(k)) - (IF i \in Own(k) THEN Money[i] ELSE 0)
         /\ SumFunctionOnSet(SignedQty, Own(k))' \in Int /\ SumFunctionOnSet(Money, Own(k))' \in Int
<1> DEFINE S == Own(k)
           R == Own(k)'
           f1 == SignedQty
           g1 == SignedQty'
           f2 == Money
           g2 == Money'
<1>1. /\ asked' \in Seq(RiskOrder) /\ R \ {i} = S \ {i} /\ g1[i] = Signed(o) /\ g2[i] = Signed(o) * o.price
      /\ \A j \in DOMAIN asked : j # i => g1[j] = f1[j] /\ g2[j] = f2[j]
  BY StoredOwn
<1>2. /\ IsFiniteSet(S) /\ S \subseteq DOMAIN asked
      /\ \A j \in DOMAIN asked : f1[j] \in Int /\ f2[j] \in Int
  BY OwnTyped
<1>3. /\ IsFiniteSet(R) /\ R \subseteq DOMAIN asked'
      /\ \A j \in DOMAIN asked' : g1[j] \in Int /\ g2[j] \in Int
  <2>1. IsFiniteSet(DOMAIN asked')
    BY StoredFact
  <2>2. R \subseteq DOMAIN asked'
    BY DEF Own
  <2>3. IsFiniteSet(R)
    BY <2>1, <2>2, FS_Subset
  <2>4. ASSUME NEW j \in DOMAIN asked' PROVE g1[j] \in Int /\ g2[j] \in Int
    <3>1. asked'[j] \in RiskOrder
      BY <1>1, LenProperties, ElementOfSeq
    <3>2. Signed(asked'[j]) \in Int /\ asked'[j].price \in Int
      BY <3>1, OrderFields
    <3> QED BY <3>2, IntProducts DEF SignedQty, Money
  <2> QED BY <2>2, <2>3, <2>4
<1> HIDE DEF S, R, f1, g1, f2, g2
<1>4. SumFunctionOnSet(g1, R) - (IF i \in R THEN g1[i] ELSE 0)
        = SumFunctionOnSet(f1, S) - (IF i \in S THEN f1[i] ELSE 0)
  <2>1. /\ \A j \in S : f1[j] \in Int
        /\ \A j \in R : g1[j] \in Int
        /\ \A j \in S \ {i} : f1[j] = g1[j]
    BY <1>1, <1>2, <1>3
  <2>2. IsFiniteSet(S) /\ IsFiniteSet(R) /\ S \ {i} = R \ {i}
    BY <1>1, <1>2, <1>3
  <2> QED BY <2>1, <2>2, SumChanges
<1>5. SumFunctionOnSet(g2, R) - (IF i \in R THEN g2[i] ELSE 0)
        = SumFunctionOnSet(f2, S) - (IF i \in S THEN f2[i] ELSE 0)
  <2>1. /\ \A j \in S : f2[j] \in Int
        /\ \A j \in R : g2[j] \in Int
        /\ \A j \in S \ {i} : f2[j] = g2[j]
    BY <1>1, <1>2, <1>3
  <2>2. IsFiniteSet(S) /\ IsFiniteSet(R) /\ S \ {i} = R \ {i}
    BY <1>1, <1>2, <1>3
  <2> QED BY <2>1, <2>2, SumChanges
<1>6. SumFunctionOnSet(g1, R) \in Int /\ SumFunctionOnSet(g2, R) \in Int
  <2>1. (\A j \in R : g1[j] \in Int) /\ (\A j \in R : g2[j] \in Int) /\ IsFiniteSet(R)
    BY <1>3
  <2> QED BY <2>1, SumIsInt
<1> QED BY <1>1, <1>4, <1>5, <1>6 DEF S, R, f1, g1, f2, g2

-----------------------------------------------------------------------------
(* What an execution makes of the money of a scope *)

\* What holds of a scope without a position, and of one with a position.
Empty(s) == s.qty = 0 => s.avg = 0 /\ s.gain = 0
Priced(s) == s.qty # 0 => s.avg # 0

LEMMA Signs ==
  ASSUME NEW a \in Int, NEW b \in Int
  PROVE  /\ a * b > 0 <=> (a > 0 /\ b > 0) \/ (a < 0 /\ b < 0)
         /\ a * b < 0 <=> (a > 0 /\ b < 0) \/ (a < 0 /\ b > 0)
         /\ a * b = 0 <=> a = 0 \/ b = 0
OBVIOUS

LEMMA Distributes ==
  ASSUME NEW a \in Int, NEW b \in Int, NEW c \in Int
  PROVE  /\ a * (b + c) = a * b + a * c /\ (b + c) * a = b * a + c * a /\ a * (b - c) = a * b - a * c
         /\ (b - c) * a = b * a - c * a
         /\ a * b = b * a /\ (-a) * b = -(a * b) /\ a * b \in Int /\ a * (-1) = -a /\ a * 1 = a
         /\ a * (-b) = -(a * b) /\ a * 0 = 0 /\ 0 * a = 0
OBVIOUS

\* The average and gain of a scope, case by case, for an order of a known price.
LEMMA ValuedIs ==
  ASSUME NEW s \in ScopeState, NEW o \in RiskOrder, o.price # 0, NEW new
  PROVE  LET v == Valued(s, o, new, TRUE) IN
         /\ s.qty = 0 => v.avg = o.price /\ v.gain = 0
         /\ s.qty # 0 /\ s.avg # 0 /\ s.qty * Signed(o) > 0 =>
              /\ v.avg = (s.avg * Magnitude(s.qty) + o.price * o.qty) \div Magnitude(new)
              /\ v.gain = s.gain
         /\ s.avg # 0 /\ s.qty * Signed(o) < 0 /\ o.qty >= Magnitude(s.qty) => v.avg = o.price /\ v.gain = 0
         /\ s.avg # 0 /\ s.qty * Signed(o) < 0 /\ ~(o.qty >= Magnitude(s.qty)) =>
              v.avg = s.avg /\ v.gain = s.gain + Made(s, o.price, o.qty)
<1> DEFINE v == Valued(s, o, new, TRUE)
<1>1. s.qty \in Int /\ s.avg \in Nat /\ Signed(o) \in Int /\ o.qty \in Nat /\ o.price \in Nat
  BY OrderFields DEF ScopeState
<1>0. /\ s.qty = 0 => ~(s.qty * Signed(o) > 0) /\ ~(s.qty * Signed(o) < 0)
      /\ s.qty * Signed(o) > 0 => ~(s.qty * Signed(o) < 0)
  BY <1>1, Signs
<1>2. s.qty = 0 => v = [avg |-> o.price, gain |-> 0]
  BY <1>0 DEF Valued, Closes
<1>3. s.qty # 0 /\ s.avg # 0 /\ s.qty * Signed(o) > 0 =>
         v = [avg |-> (s.avg * Magnitude(s.qty) + o.price * o.qty) \div Magnitude(new), gain |-> s.gain]
  BY <1>0 DEF Valued, Closes
<1>4. s.qty * Signed(o) < 0 => s.qty # 0 /\ ~(s.qty * Signed(o) > 0)
  BY <1>1, Signs
<1>5. s.avg # 0 /\ s.qty * Signed(o) < 0 /\ o.qty >= Magnitude(s.qty) => v = [avg |-> o.price, gain |-> 0]
  BY <1>4 DEF Valued, Closes
<1>6. s.avg # 0 /\ s.qty * Signed(o) < 0 /\ ~(o.qty >= Magnitude(s.qty)) =>
         v = [avg |-> s.avg, gain |-> s.gain + Made(s, o.price, o.qty)]
  BY <1>4 DEF Valued, Closes
<1>7. s.qty = 0 => v.avg = o.price /\ v.gain = 0
  <2> HIDE DEF v
  <2> QED BY <1>2
<1>8. s.qty # 0 /\ s.avg # 0 /\ s.qty * Signed(o) > 0 =>
         v.avg = (s.avg * Magnitude(s.qty) + o.price * o.qty) \div Magnitude(new) /\ v.gain = s.gain
  <2> HIDE DEF v
  <2> QED BY <1>3
<1>9. s.avg # 0 /\ s.qty * Signed(o) < 0 /\ o.qty >= Magnitude(s.qty) => v.avg = o.price /\ v.gain = 0
  <2> HIDE DEF v
  <2> QED BY <1>5
<1>10. s.avg # 0 /\ s.qty * Signed(o) < 0 /\ ~(o.qty >= Magnitude(s.qty)) =>
         v.avg = s.avg /\ v.gain = s.gain + Made(s, o.price, o.qty)
  <2> HIDE DEF v
  <2> QED BY <1>6
<1> QED BY <1>7, <1>8, <1>9, <1>10, Zenon

\* Scaling in exactly: the average of two positions of one direction.
Mean(q, d, avg, price, n) == (avg * Magnitude(q) + price * n) \div Magnitude(q + d)
Exact(q, d, avg, price, n) == (avg * Magnitude(q) + price * n) % Magnitude(q + d) = 0

LEMMA ScalesIn ==
  ASSUME NEW q \in Int, NEW d \in Int, NEW avg \in Nat, NEW price \in Nat, avg # 0, price # 0,
         (q > 0 /\ d > 0) \/ (q < 0 /\ d < 0), NEW n \in Nat, n = Magnitude(d)
  PROVE  LET a == Mean(q, d, avg, price, n) IN
         a \in Nat \ {0} /\ (Exact(q, d, avg, price, n) => (q + d) * a = q * avg + d * price)
<1> DEFINE m == Magnitude(q)
           w == Magnitude(q + d)
           total == avg * m + price * n
           a == total \div w
<1>1. (q > 0 /\ d > 0) \/ (q < 0 /\ d < 0)
  OBVIOUS
<1>2. m \in Nat \ {0} /\ n \in Nat \ {0} /\ w = m + n /\ w \in Nat \ {0}
  BY <1>1 DEF Magnitude
<1>3. avg * m \in Nat /\ price * n \in Nat /\ avg * m >= m /\ price * n >= n
  <2>1. \A x, y \in Nat : x # 0 => x * y \in Nat /\ x * y >= y
    OBVIOUS
  <2> HIDE DEF m
  <2> QED BY <1>2, <2>1
<1>4. total \in Nat /\ total >= w
  <2> HIDE DEF m, w
  <2> QED BY <1>2, <1>3
<1>5. a \in Nat /\ (total % w = 0 => w * a = total)
  <2> HIDE DEF total, w
  <2> QED BY <1>2, <1>4, IntQuotient
<1>6. a # 0
  <2>1. \A x, y \in Nat : y # 0 /\ x >= y => x \div y # 0
    OBVIOUS
  <2> HIDE DEF total, w
  <2> QED BY <1>2, <1>4, <2>1
<1>7. ASSUME total % w = 0 PROVE (q + d) * a = q * avg + d * price
  <2>1. w * a = avg * m + price * n
    BY <1>5, <1>7
  <2>2. CASE q > 0 /\ d > 0
    <3>1. m = q /\ n = d /\ w = q + d
      BY <2>2 DEF Magnitude
    <3> HIDE DEF m, w, a
    <3> QED BY <1>5, <2>1, <3>1, Distributes
  <2>3. CASE q < 0 /\ d < 0
    <3>1. m = -q /\ n = -d /\ w = -(q + d)
      BY <2>3 DEF Magnitude
    <3>2. avg * m = -(q * avg) /\ price * n = -(d * price)
      BY <3>1, Distributes
    <3>3. w * a = -((q + d) * a)
      <4> HIDE DEF a
      <4> QED BY <1>5, <3>1, Distributes
    <3>4. (q + d) * a \in Int /\ q * avg \in Int /\ d * price \in Int
      <4> HIDE DEF a
      <4> QED BY <1>5, IntProducts
    <3> DEFINE x == (q + d) * a
               y == q * avg
               z == d * price
               u == w * a
               v == avg * m
               r == price * n
    <3>5. x \in Int /\ y \in Int /\ z \in Int /\ u = v + r /\ v = -y /\ r = -z /\ u = -x
      BY <2>1, <3>2, <3>3, <3>4
    <3> HIDE DEF x, y, z, u, v, r
    <3>6. x = y + z
      BY <3>5
    <3> QED BY <3>6 DEF x, y, z
  <2> QED BY <1>1, <2>2, <2>3
<1>8. a = Mean(q, d, avg, price, n) /\ (Exact(q, d, avg, price, n) <=> total % w = 0)
  BY DEF Mean, Exact
<1> HIDE DEF a, total, w
<1> QED BY <1>5, <1>6, <1>7, <1>8

\* Closing n of the m units of a position.
LEMMA MadeIs ==
  ASSUME NEW s \in ScopeState, NEW price \in Nat, NEW n \in Nat
  PROVE  /\ s.qty > 0 => Made(s, price, n) = price * n - s.avg * n
         /\ ~(s.qty > 0) => Made(s, price, n) = s.avg * n - price * n
         /\ Made(s, price, n) \in Int
<1>1. s.avg \in Nat /\ s.qty \in Int /\ price - s.avg \in Int
  BY DEF ScopeState
<1>2. (price - s.avg) * n = price * n - s.avg * n /\ price * n \in Int /\ s.avg * n \in Int
  BY <1>1, Distributes
<1>3. (price - s.avg) * n * 1 = price * n - s.avg * n
  BY <1>1, <1>2
<1>4. (price - s.avg) * n * (-1) = s.avg * n - price * n
  BY <1>1, <1>2
<1> QED BY <1>1, <1>2, <1>3, <1>4 DEF Made

\* What an execution at a known price adds to the money of a scope: what it
\* closes, and what it changes of the gain, pay for what it changes of the cost.
LEMMA PostTradeMoney ==
  ASSUME NEW s0 \in ScopeState, NEW o \in RiskOrder, NEW t \in Nat, Empty(s0), Priced(s0), o.price # 0
  PROVE  LET s == PostTrade(s0, o, t) IN
         /\ Priced(s)
         /\ ~Rounds(s0, o) =>
              (IF Closes(s0, o) THEN ClosedGain(s0, o) ELSE 0) + s.gain - s0.gain + Signed(o) * o.price
                = s.qty * s.avg - s0.qty * s0.avg
<1> DEFINE s == PostTrade(s0, o, t)
           q == s0.qty
           d == Signed(o)
           n == o.qty
           price == o.price
           avg == s0.avg
           v == Valued(s0, o, q + d, TRUE)
           closed == IF Closes(s0, o) THEN ClosedGain(s0, o) ELSE 0
           Accounted == closed + s.gain - s0.gain + d * price = s.qty * s.avg - q * avg
<1>1. /\ q \in Int /\ avg \in Nat /\ s0.gain \in Int
      /\ d \in Int /\ d # 0 /\ Magnitude(d) = n /\ n \in Nat \ {0} /\ price \in Nat \ {0}
  BY OrderFields DEF ScopeState
<1>2. /\ s.qty = q + d /\ s.avg = (IF q + d = 0 THEN 0 ELSE v.avg) /\ s.gain = (IF q + d = 0 THEN 0 ELSE v.gain)
  BY PostTradeIs
<1>3. /\ q = 0 => v.avg = price /\ v.gain = 0
      /\ q # 0 /\ avg # 0 /\ q * d > 0 =>
           v.avg = (avg * Magnitude(q) + price * n) \div Magnitude(q + d) /\ v.gain = s0.gain
      /\ avg # 0 /\ q * d < 0 /\ n >= Magnitude(q) => v.avg = price /\ v.gain = 0
      /\ avg # 0 /\ q * d < 0 /\ ~(n >= Magnitude(q)) => v.avg = avg /\ v.gain = s0.gain + Made(s0, price, n)
  BY ValuedIs
<1>4. /\ Closes(s0, o) <=> q * d < 0 /\ n >= Magnitude(q) /\ avg # 0
      /\ Rounds(s0, o) <=> avg # 0 /\ q * d > 0 /\ (avg * Magnitude(q) + price * n) % Magnitude(q + d) # 0
      /\ ClosedGain(s0, o) = s0.gain + Made(s0, price, Magnitude(q))
  BY <1>1 DEF Closes, Rounds, ClosedGain
<1>5. (q = 0 => s0.gain = 0 /\ avg = 0) /\ (q # 0 => avg # 0)
  BY DEF Empty, Priced
<1>6. /\ q * d > 0 <=> (q > 0 /\ d > 0) \/ (q < 0 /\ d < 0)
      /\ q * d < 0 <=> (q > 0 /\ d < 0) \/ (q < 0 /\ d > 0)
  BY <1>1, Signs
<1>7. (d > 0 => d = n) /\ (d < 0 => d = -n)
  BY <1>1 DEF Magnitude
<1>8. Magnitude(q) = (IF q < 0 THEN -q ELSE q)
  BY DEF Magnitude
<1>9. /\ q > 0 => Made(s0, price, n) = price * n - avg * n
      /\ ~(q > 0) => Made(s0, price, n) = avg * n - price * n
      /\ q > 0 => Made(s0, price, Magnitude(q)) = price * Magnitude(q) - avg * Magnitude(q)
      /\ ~(q > 0) => Made(s0, price, Magnitude(q)) = avg * Magnitude(q) - price * Magnitude(q)
  <2>1. Magnitude(q) \in Nat
    BY <1>1, <1>8
  <2> QED BY <1>1, <2>1, MadeIs
<1> SUFFICES Priced(s) /\ (~Rounds(s0, o) => Accounted)
  OBVIOUS
<1>10. SUFFICES (s.qty # 0 => s.avg # 0) /\ (~Rounds(s0, o) => Accounted)
  BY DEF Priced
<1>11. q * avg \in Int /\ d * price \in Int
  BY <1>1, IntProducts
<1>12. CASE q = 0
  <2>1. s.qty = d /\ s.avg = price /\ s.gain = 0 /\ closed = 0 /\ s0.gain = 0 /\ avg = 0
    <3>1. q + d = d /\ d # 0
      BY <1>1, <1>12
    <3>2. ~(q * d < 0)
      BY <1>1, <1>6, <1>12
    <3>3. closed = 0
      BY <1>4, <3>2
    <3> HIDE DEF s, q, d, v, price, avg, closed
    <3> QED BY <1>2, <1>3, <1>5, <1>12, <3>1, <3>3
  <2>2. q * avg = 0
    BY <1>12, <2>1
  <2> HIDE DEF s, q, d, price, avg, closed
  <2> QED BY <1>1, <1>11, <2>1, <2>2
<1>13. CASE q # 0 /\ q * d > 0
  <2> DEFINE a == Mean(q, d, avg, price, n)
  <2>1. avg # 0 /\ q + d # 0 /\ closed = 0
    BY <1>1, <1>4, <1>5, <1>6, <1>13
  <2>2. s.qty = q + d /\ s.avg = a /\ s.gain = s0.gain
    BY <1>2, <1>3, <1>13, <2>1 DEF Mean
  <2>3. /\ a \in Nat \ {0}
        /\ Exact(q, d, avg, price, n) => (q + d) * a = q * avg + d * price
    <3>1. /\ q \in Int /\ d \in Int /\ avg \in Nat /\ price \in Nat /\ avg # 0 /\ price # 0
          /\ (q > 0 /\ d > 0) \/ (q < 0 /\ d < 0)
          /\ n \in Nat /\ n = Magnitude(d)
      BY <1>1, <1>6, <1>13, <2>1
    <3> HIDE DEF q, d, n, price, avg
    <3>2. a = Mean(q, d, avg, price, n)
      OBVIOUS
    <3> HIDE DEF a
    <3>3. Mean(q, d, avg, price, n) \in Nat \ {0}
      BY <3>1, ScalesIn
    <3>4. Exact(q, d, avg, price, n) => (q + d) * Mean(q, d, avg, price, n) = q * avg + d * price
      BY <3>1, ScalesIn
    <3> QED BY <3>2, <3>3, <3>4
  <2>4. ~Rounds(s0, o) => (q + d) * a = q * avg + d * price
    BY <1>4, <1>13, <2>1, <2>3 DEF Exact
  <2> HIDE DEF s, q, d, n, price, avg, closed, a
  <2> QED BY <1>1, <1>11, <2>1, <2>2, <2>3, <2>4
<1>14. CASE q * d < 0 /\ n >= Magnitude(q)
  <2>1. q # 0 /\ avg # 0 /\ Closes(s0, o)
    BY <1>4, <1>5, <1>6, <1>14
  <2>2. closed = s0.gain + Made(s0, price, Magnitude(q))
    BY <1>4, <2>1
  <2>3. Made(s0, price, Magnitude(q)) = q * price - q * avg /\ q * price \in Int
    <3>1. CASE q > 0
      <4>1. Magnitude(q) = q
        BY <1>1, <1>8, <3>1
      <4> HIDE DEF q, price, avg
      <4> QED BY <1>1, <1>9, <3>1, <4>1, Distributes
    <3>2. CASE q < 0
      <4>1. Magnitude(q) = -q
        BY <1>1, <1>8, <3>2
      <4>2. avg * (-q) = -(q * avg) /\ price * (-q) = -(q * price)
        <5> HIDE DEF q, price, avg
        <5> QED BY <1>1, Distributes
      <4>3. q * price \in Int
        BY <1>1, IntProducts
      <4>4. Made(s0, price, Magnitude(q)) = avg * (-q) - price * (-q)
        BY <1>1, <1>9, <3>2, <4>1
      <4> DEFINE x == q * avg
                 y == q * price
      <4>5. Made(s0, price, Magnitude(q)) = -x - (-y) /\ x \in Int /\ y \in Int
        BY <1>11, <4>2, <4>3, <4>4
      <4> HIDE DEF x, y
      <4>6. Made(s0, price, Magnitude(q)) = y - x
        BY <4>5
      <4> QED BY <4>3, <4>6 DEF x, y
    <3> QED BY <1>1, <2>1, <3>1, <3>2
  <2>4. s.qty * s.avg = q * price + d * price /\ s.gain = 0 /\ (s.qty # 0 => s.avg # 0)
    <3>1. CASE q + d = 0
      <4>1. s.qty = 0 /\ s.avg = 0 /\ s.gain = 0 /\ q = -d
        BY <1>1, <1>2, <3>1
      <4>2. q * price = -(d * price)
        <5> HIDE DEF q, d, price
        <5> QED BY <1>1, <4>1, Distributes
      <4>3. s.qty * s.avg = 0
        BY <4>1
      <4> HIDE DEF s, q, d, price
      <4> QED BY <1>11, <4>1, <4>2, <4>3
    <3>2. CASE q + d # 0
      <4>1. s.qty = q + d /\ s.avg = price /\ s.gain = 0
        BY <1>2, <1>3, <1>14, <2>1, <3>2
      <4> HIDE DEF s, q, d, price
      <4> QED BY <1>1, <4>1, Distributes
    <3> QED BY <3>1, <3>2
  <2> DEFINE x == q * avg
             y == q * price
             z == d * price
             w == s.qty * s.avg
  <2>5. /\ x \in Int /\ y \in Int /\ z \in Int /\ w = y + z /\ closed = s0.gain + (y - x) /\ s.gain = 0
        /\ s0.gain \in Int
    BY <1>1, <1>11, <2>2, <2>3, <2>4
  <2> HIDE DEF x, y, z, w, closed, s
  <2>6. closed + s.gain - s0.gain + z = w - x
    BY <2>5
  <2> QED BY <2>4, <2>6 DEF x, z, w
<1>15. CASE q * d < 0 /\ ~(n >= Magnitude(q))
  <2>1. q # 0 /\ avg # 0 /\ q + d # 0 /\ closed = 0
    BY <1>1, <1>4, <1>5, <1>6, <1>7, <1>8, <1>15
  <2>2. s.qty = q + d /\ s.avg = avg /\ s.gain = s0.gain + Made(s0, price, n)
    BY <1>2, <1>3, <1>15, <2>1
  <2>3. Made(s0, price, n) = d * avg - d * price /\ d * avg \in Int
    <3>1. CASE q > 0
      <4>1. d = -n
        BY <1>1, <1>6, <1>7, <1>15, <3>1
      <4>2. d * avg = -(avg * n) /\ d * price = -(price * n)
        <5> HIDE DEF d, n, price, avg
        <5> QED BY <1>1, <4>1, Distributes
      <4>3. Made(s0, price, n) = price * n - avg * n /\ price * n \in Int /\ avg * n \in Int
        BY <1>1, <1>9, <3>1, IntProducts
      <4> DEFINE x == avg * n
                 y == price * n
                 z == d * price
                 w == d * avg
      <4>4. x \in Int /\ y \in Int /\ w = -x /\ z = -y /\ Made(s0, price, n) = y - x
        BY <4>2, <4>3
      <4> HIDE DEF x, y, z, w
      <4>5. Made(s0, price, n) = w - z /\ w \in Int
        BY <4>4
      <4> QED BY <4>5 DEF w, z
    <3>2. CASE q < 0
      <4>1. d = n
        BY <1>1, <1>6, <1>7, <1>15, <3>2
      <4> HIDE DEF q, d, n, price, avg
      <4> QED BY <1>1, <1>9, <3>2, <4>1, Distributes
    <3> QED BY <1>1, <2>1, <3>1, <3>2
  <2>4. (q + d) * avg = q * avg + d * avg
    <3> HIDE DEF q, d, avg
    <3> QED BY <1>1, Distributes
  <2> DEFINE x == q * avg
             y == d * avg
             z == d * price
             w == s.qty * s.avg
  <2>5. /\ x \in Int /\ y \in Int /\ z \in Int /\ w = x + y /\ closed = 0 /\ s.gain = s0.gain + (y - z)
        /\ s0.gain \in Int
    BY <1>1, <1>11, <2>1, <2>2, <2>3, <2>4
  <2> HIDE DEF x, y, z, w, closed, s
  <2>6. closed + s.gain - s0.gain + z = w - x
    BY <2>5
  <2> QED BY <2>1, <2>2, <2>6 DEF x, z, w, s
<1>16. q = 0 \/ (q # 0 /\ q * d > 0) \/ (q * d < 0)
  BY <1>1, <1>6
<1> QED BY <1>12, <1>13, <1>14, <1>15, <1>16

\* A scope without a position has no average and no gain, and one with a position an
\* average if all its prices were known.
ScopeSolid == \A k \in Scope : Empty(scope[k]) /\ (AllKnown(k) => Priced(scope[k]))
ScopesBalance == ScopeAddsUp /\ ScopeSolid

\* The same scope by scope, with the sums over its orders.
QtySum(k) == SumFunctionOnSet(SignedQty, Own(k))
MoneySum(k) == SumFunctionOnSet(Money, Own(k))
Balanced(k) ==
  /\ Empty(scope[k]) /\ (AllKnown(k) => Priced(scope[k]))
  /\ scope[k].qty = QtySum(k)
  /\ k \notin rounded /\ AllKnown(k) => won[k] + scope[k].gain + MoneySum(k) = scope[k].qty * scope[k].avg

LEMMA BalanceIs == ScopesBalance <=> \A k \in Scope : Balanced(k)
BY AddsUpIs DEF ScopesBalance, ScopeSolid, Balanced, QtySum, MoneySum

LEMMA BalanceThen == (\A k \in Scope : Balanced(k)') => ScopesBalance'
<1>1. (\A k \in Scope : Balanced(k)) => ScopesBalance
  BY BalanceIs
<1>2. (\A k \in Scope : Balanced(k))' => ScopesBalance'
  BY <1>1, PTL
<1> QED BY <1>2

LEMMA QuietBalances ==
  ASSUME RiskTypeOK, ScopesBalance, NEW i, NEW o, Quiet(i, o)
  PROVE  ScopesBalance'
<1>1. asked \in Seq(RiskOrder) /\ i \in Places /\ o \in RiskOrder /\ asked' = Stored(i, o)
  BY DEF RiskTypeOK, Quiet
<1>2. UNCHANGED <<scope, won, rounded>>
  BY DEF Quiet
<1>3. ASSUME NEW k \in Scope PROVE Balanced(k)'
  <2>1. /\ QtySum(k)' - (IF i \in Own(k)' THEN Signed(o) ELSE 0) = QtySum(k) - (IF i \in Own(k) THEN SignedQty[i] ELSE 0)
        /\ MoneySum(k)' - (IF i \in Own(k)' THEN Signed(o) * o.price ELSE 0)
              = MoneySum(k) - (IF i \in Own(k) THEN Money[i] ELSE 0)
        /\ QtySum(k)' \in Int /\ MoneySum(k)' \in Int
    BY <1>1, StoredSums DEF QtySum, MoneySum
  <2>2. /\ Own(k)' \ {i} = Own(k) \ {i} /\ asked'[i] = o
        /\ i \in Own(k)' <=> Placed(o) /\ ScopeOf(o) = k
        /\ \A j \in Own(k) \ {i} : asked'[j] = asked[j]
    BY <1>1, StoredOwn
  <2>3. i \in Own(k)' <=> i \in Own(k)
    BY <2>2 DEF Quiet, Own
  <2>4. i \in Own(k) => Signed(o) = SignedQty[i] /\ Signed(o) * o.price = Money[i] /\ o.price = asked[i].price
    BY <2>2, <2>3 DEF Quiet, Own, SignedQty, Money
  <2>5. /\ QtySum(k) \in Int /\ MoneySum(k) \in Int
        /\ \A j \in DOMAIN asked : SignedQty[j] \in Int /\ Money[j] \in Int
    BY <1>1, OwnTyped DEF QtySum, MoneySum
  <2>6. i \in Own(k) => SignedQty[i] \in Int /\ Money[i] \in Int
    BY <2>5 DEF Own
  <2>7. QtySum(k)' = QtySum(k) /\ MoneySum(k)' = MoneySum(k)
    BY <2>1, <2>3, <2>4, <2>5, <2>6
  <2>8. AllKnown(k)' => AllKnown(k)
    <3>1. Own(k)' = Own(k)
      BY <2>2, <2>3
    <3> QED BY <2>2, <2>4, <3>1 DEF AllKnown
  <2>9. Balanced(k)
    BY BalanceIs
  <2> QED BY <1>2, <2>7, <2>8, <2>9 DEF Balanced
<1> QED BY <1>3, BalanceThen

LEMMA LoudBalances ==
  ASSUME RiskTypeOK, OrdersStand, ScopesBalance, NEW i, NEW o, NEW q, NEW sound, Loud(i, o, q, sound)
  PROVE  ScopesBalance'
<1> DEFINE s == SentNow(o, q)
           k0 == ScopeOf(o)
           was == scope[k0]
           is == PostTrade(was, s, moment)
           closed == IF Closes(was, s) THEN ClosedGain(was, s) ELSE 0
<1>1. asked \in Seq(RiskOrder) /\ i \in Places /\ s \in RiskOrder /\ asked' = Stored(i, s) /\ o \in RiskOrder
  <2>1. s \in RiskOrder /\ asked' = Stored(i, s) /\ i \in Places
    BY LoudStands
  <2> QED BY <2>1 DEF RiskTypeOK, Loud
<1>2. Placed(s) /\ ScopeOf(s) = k0 /\ k0 \in Scope /\ moment \in Nat
  <2>1. k0 \in Scope
    BY <1>1, OrderFields
  <2> QED BY <2>1, LoudStands, SettingsAssumption DEF RiskTypeOK
<1>3. /\ scope' = [scope EXCEPT ![k0] = is]
      /\ won' = [won EXCEPT ![k0] = IF Closes(NewDay(was, moment), s)
                                    THEN won[k0] + ClosedGain(NewDay(was, moment), s) ELSE won[k0]]
      /\ rounded' = IF Rounds(was, s) THEN rounded \cup {k0} ELSE rounded
  BY DEF Loud, Send
<1>4. /\ scope \in [Scope -> ScopeState] /\ won \in [Scope -> Int] /\ was \in ScopeState
  BY <1>2 DEF RiskTypeOK
<1>5. /\ is \in ScopeState /\ is.qty = was.qty + Signed(s) /\ Empty(is)
      /\ Closes(NewDay(was, moment), s) = Closes(was, s)
      /\ ClosedGain(NewDay(was, moment), s) = ClosedGain(was, s)
      /\ ClosedGain(was, s) \in Int
  <2>1. was \in ScopeState /\ s \in RiskOrder /\ moment \in Nat
    BY <1>1, <1>2, <1>4
  <2>2. is = PostTrade(was, s, moment)
    OBVIOUS
  <2> HIDE DEF was, s, k0, is
  <2>3. /\ is \in ScopeState /\ is.qty = was.qty + Signed(s)
        /\ is.avg = (IF was.qty + Signed(s) = 0 THEN 0 ELSE Valued(was, s, was.qty + Signed(s), TRUE).avg)
        /\ is.gain = (IF was.qty + Signed(s) = 0 THEN 0 ELSE Valued(was, s, was.qty + Signed(s), TRUE).gain)
    BY <2>1, <2>2, PostTradeIs
  <2>4. /\ Closes(NewDay(was, moment), s) = Closes(was, s)
        /\ ClosedGain(NewDay(was, moment), s) = ClosedGain(was, s)
        /\ ClosedGain(NewDay(was, moment), s) \in Int
    BY <2>1, PostTradeIs
  <2>5. Empty(is)
    BY <2>3 DEF Empty
  <2> QED BY <2>3, <2>4, <2>5
<1>6. /\ scope'[k0] = is /\ won'[k0] = won[k0] + closed /\ won[k0] \in Int /\ closed \in Int
      /\ \A k \in Scope : k # k0 => scope'[k] = scope[k] /\ won'[k] = won[k]
      /\ \A k \in Scope : k \notin rounded' => k \notin rounded
      /\ k0 \notin rounded' => ~Rounds(was, s)
  <2> HIDE DEF was, s, is, k0
  <2> QED BY <1>2, <1>3, <1>4, <1>5
<1> HIDE DEF s, is, was, k0
<1>7. ASSUME NEW k \in Scope
      PROVE  /\ i \notin Own(k) /\ (i \in Own(k)' <=> k = k0)
             /\ QtySum(k)' = QtySum(k) + (IF k = k0 THEN Signed(s) ELSE 0)
             /\ MoneySum(k)' = MoneySum(k) + (IF k = k0 THEN Signed(s) * s.price ELSE 0)
             /\ AllKnown(k)' => AllKnown(k) /\ (k = k0 => s.price # 0)
             /\ QtySum(k) \in Int /\ MoneySum(k) \in Int
  <2>1. /\ QtySum(k)' - (IF i \in Own(k)' THEN Signed(s) ELSE 0) = QtySum(k) - (IF i \in Own(k) THEN SignedQty[i] ELSE 0)
        /\ MoneySum(k)' - (IF i \in Own(k)' THEN Signed(s) * s.price ELSE 0)
              = MoneySum(k) - (IF i \in Own(k) THEN Money[i] ELSE 0)
        /\ QtySum(k)' \in Int /\ MoneySum(k)' \in Int
    BY <1>1, StoredSums DEF QtySum, MoneySum
  <2>2. /\ Own(k)' \ {i} = Own(k) \ {i} /\ asked'[i] = s
        /\ i \in Own(k)' <=> Placed(s) /\ ScopeOf(s) = k
        /\ \A j \in Own(k) \ {i} : asked'[j] = asked[j]
    BY <1>1, StoredOwn
  <2>3. i \notin Own(k)
    <3>1. i \in DOMAIN asked => ~Placed(asked[i])
      BY DEF Loud, OrdersStand, Standing
    <3> QED BY <3>1 DEF Own
  <2>4. QtySum(k) \in Int /\ MoneySum(k) \in Int
    BY <1>1, OwnTyped DEF QtySum, MoneySum
  <2>5. i \in Own(k)' <=> k = k0
    BY <1>2, <2>2
  <2>6. Signed(s) \in Int /\ Signed(s) * s.price \in Int
    BY <1>1, OrderFields, IntProducts
  <2>7. AllKnown(k)' => AllKnown(k) /\ (k = k0 => s.price # 0)
    <3>1. \A j \in Own(k) : j \in Own(k)' /\ asked'[j] = asked[j]
      BY <2>2, <2>3
    <3> QED BY <2>2, <2>5, <3>1 DEF AllKnown
  <2> QED BY <2>1, <2>3, <2>4, <2>5, <2>6, <2>7
<1>8. Balanced(k0)'
  <2>1. Balanced(k0)
    BY <1>2, BalanceIs
  <2>2. scope'[k0].qty = QtySum(k0)'
    BY <1>2, <1>5, <1>6, <1>7, <2>1 DEF Balanced, was
  <2>3. Empty(scope'[k0])
    BY <1>5, <1>6
  <2>4. ASSUME AllKnown(k0)'
        PROVE  /\ Priced(is) /\ AllKnown(k0) /\ s.price # 0
               /\ ~Rounds(was, s) => closed + is.gain - was.gain + Signed(s) * s.price
                                       = is.qty * is.avg - was.qty * was.avg
    <3>1. AllKnown(k0) /\ s.price # 0
      BY <1>2, <1>7, <2>4
    <3>2. Empty(was) /\ Priced(was)
      BY <2>1, <3>1 DEF Balanced, was
    <3> QED BY <1>1, <1>2, <1>4, <3>1, <3>2, PostTradeMoney DEF is
  <2>5. ASSUME k0 \notin rounded', AllKnown(k0)'
        PROVE  won'[k0] + scope'[k0].gain + MoneySum(k0)' = scope'[k0].qty * scope'[k0].avg
    <3>1. won[k0] + was.gain + MoneySum(k0) = was.qty * was.avg
      BY <1>2, <1>6, <2>1, <2>4, <2>5 DEF Balanced, was
    <3>2. closed + is.gain - was.gain + Signed(s) * s.price = is.qty * is.avg - was.qty * was.avg
      BY <1>6, <2>4, <2>5
    <3>3. MoneySum(k0)' = MoneySum(k0) + Signed(s) * s.price /\ MoneySum(k0) \in Int
      BY <1>2, <1>7
    <3>4. /\ Signed(s) * s.price \in Int /\ is.gain \in Int /\ was.gain \in Int
          /\ is.qty * is.avg \in Int /\ was.qty * was.avg \in Int
      <4>1. Signed(s) \in Int /\ s.price \in Int
        BY <1>1, OrderFields
      <4>2. is.gain \in Int /\ was.gain \in Int /\ is.qty \in Int /\ is.avg \in Int /\ was.qty \in Int /\ was.avg \in Int
        BY <1>4, <1>5 DEF ScopeState
      <4> QED BY <4>1, <4>2, IntProducts
    <3> DEFINE x == Signed(s) * s.price
               y == is.qty * is.avg
               z == was.qty * was.avg
    <3>5. /\ x \in Int /\ y \in Int /\ z \in Int
          /\ won[k0] + was.gain + MoneySum(k0) = z /\ closed + is.gain - was.gain + x = y - z
          /\ MoneySum(k0)' = MoneySum(k0) + x
      BY <3>1, <3>2, <3>3, <3>4
    <3> HIDE DEF x, y, z, closed
    <3>6. (won[k0] + closed) + is.gain + MoneySum(k0)' = y
      BY <1>6, <3>3, <3>4, <3>5
    <3> QED BY <1>6, <3>6 DEF y
  <2> QED BY <1>6, <2>2, <2>3, <2>4, <2>5 DEF Balanced
<1>9. ASSUME NEW k \in Scope, k # k0 PROVE Balanced(k)'
  <2>1. Balanced(k)
    BY BalanceIs
  <2>2. scope'[k] = scope[k] /\ won'[k] = won[k] /\ (k \notin rounded' => k \notin rounded)
    BY <1>6, <1>9
  <2>3. QtySum(k)' = QtySum(k) /\ MoneySum(k)' = MoneySum(k) /\ (AllKnown(k)' => AllKnown(k))
    BY <1>7, <1>9
  <2> QED BY <2>1, <2>2, <2>3 DEF Balanced
<1> QED BY <1>8, <1>9, BalanceThen

-----------------------------------------------------------------------------
(* The records: the inductive invariant                                       *)

\* The limits are judged on the scopes and the round trips, and these on the orders.
RecordsInv == RiskTypeOK /\ OrdersStand /\ TripsPairOff /\ ScopesBalance

LEMMA RecordsInit == RiskInit => RecordsInv
<1> SUFFICES ASSUME RiskInit PROVE RecordsInv
  OBVIOUS
<1>1. RiskTypeOK
  BY RiskTypedInit
<1>2. DOMAIN asked = {} /\ trips = {}
  BY EmptySeq, LenProperties DEF RiskInit
<1>3. OrdersStand /\ TripsPairOff
  BY <1>2 DEF OrdersStand, TripsPairOff
<1>4. ASSUME NEW k \in Scope PROVE Balanced(k)
  <2>1. Own(k) = {}
    BY <1>2 DEF Own
  <2>2. QtySum(k) = 0 /\ MoneySum(k) = 0
    BY <2>1, SumNothing DEF QtySum, MoneySum
  <2>3. scope[k] = FreshScope /\ won[k] = 0
    BY DEF RiskInit
  <2> QED BY <2>2, <2>3, FreshTyped DEF Balanced, Empty, Priced
<1> QED BY <1>1, <1>3, <1>4, BalanceIs DEF RecordsInv

LEMMA BalanceNext ==
  ASSUME RiskTypeOK, OrdersStand, ScopesBalance, [RiskNext]_riskVars
  PROVE  ScopesBalance'
<1>1. CASE \E i \in Places, o \in RiskOrder :
              /\ Timely(o) /\ Standing(o) /\ o.status = "WAITING" /\ (i \in DOMAIN asked => o = asked[i])
              /\ Execute(i, o)
  <2>1. PICK i \in Places, o \in RiskOrder :
              /\ Timely(o) /\ Standing(o) /\ o.status = "WAITING" /\ (i \in DOMAIN asked => o = asked[i])
              /\ Execute(i, o)
    BY <1>1
  <2>2. ~Placed(o)
    BY <2>1 DEF Standing
  <2> DEFINE d == Decision(o, Profile(o), Account)
             r == [o EXCEPT !.status = "REJECTED_RISK"]
  <2>3. Loud(i, o, d.qty, d.sound) \/ Quiet(i, r)
    BY <2>1, <2>2, ExecuteIs
  <2> HIDE DEF d, r
  <2> QED BY <2>3, LoudBalances, QuietBalances
<1>2. CASE \E deal \in risk.menu : Ask(deal) /\ Quiet(Len(asked) + 1, Blank(deal))
  BY <1>2, QuietBalances
<1>3. ASSUME NEW i \in DOMAIN asked, NEW status \in {"EXECUTED", "CANCELLED"}, Fills(i, status)
      PROVE  ScopesBalance'
  BY <1>3, QuietBalances DEF Fills
<1>4. CASE UNCHANGED <<asked, scope, won, rounded>>
  <2>1. ASSUME NEW k \in Scope PROVE Balanced(k)'
    <3>1. Balanced(k)
      BY BalanceIs
    <3>2. Own(k)' = Own(k) /\ SignedQty' = SignedQty /\ Money' = Money
      BY <1>4 DEF Own, SignedQty, Money
    <3>3. QtySum(k)' = QtySum(k) /\ MoneySum(k)' = MoneySum(k) /\ (AllKnown(k)' <=> AllKnown(k))
      BY <1>4, <3>2 DEF QtySum, MoneySum, AllKnown
    <3> QED BY <1>4, <3>1, <3>3 DEF Balanced
  <2> QED BY <2>1, BalanceThen
<1>5. SyncPositions \/ RebuildTrades \/ NextBarPasses \/ UNCHANGED riskVars => UNCHANGED <<asked, scope, won, rounded>>
  BY DEF SyncPositions, RebuildTrades, NextBarPasses, riskVars
<1> QED BY <1>1, <1>2, <1>3, <1>4, <1>5, RiskStepIs

LEMMA RecordsNext ==
  ASSUME RecordsInv, [RiskNext]_riskVars
  PROVE  RecordsInv'
BY RiskTypedNext, StandingNext, PairOffNext, BalanceNext DEF RecordsInv

LEMMA RecordsAlways == RiskSpec => []RecordsInv
<1>1. RiskInit => RecordsInv
  BY RecordsInit
<1>2. RecordsInv /\ [RiskNext]_riskVars => RecordsInv'
  BY RecordsNext
<1> QED BY <1>1, <1>2, PTL DEF RiskSpec

\* The round trips never pair an order twice, and every scope's position and money
\* are the sums of its orders (_iter_order_pairs and rebuild_trades in analytics.py,
\* apply_post_trade_updates_on_execution_unified).
THEOREM RecordsHold == RiskSpec => []RecordsAddUp
<1>1. RecordsInv => RecordsAddUp
  BY DEF RecordsInv, RecordsAddUp, ScopesBalance
<1> QED BY <1>1, RecordsAlways, PTL

-----------------------------------------------------------------------------
(* Positions within the caps *)

\* WithinCaps, for a highest equity on record.
CappedIn(setting, lots, product, peak) ==
  LET ps == {ProfileIn(setting, src, product) : src \in Source} IN
  NoProfile \notin ps =>
    /\ (\A p \in ps : p.slots > 0) =>
         \E p \in ps : Cardinality(HeldIn(lots, product)) <= p.slots
    /\ (\A p \in ps : p.exposure > 0) =>
         \E p \in ps : 100 * Exposure(lots, product) <= peak * p.exposure
Capped(lots, product, peak) == CappedIn(risk, lots, product, peak)

LEMMA CapIs == PositionsWithinCap <=> (strays = {} => \A product \in Product : Capped(book, product, Peak))
BY DEF PositionsWithinCap, WithinCaps, Capped, CappedIn

\* The positions of a product, lots with one changed, and what a lot cost.
OfProduct(product) == {h \in Holding : h[2] = product}

LEMMA HoldingsFinite ==
  /\ IsFiniteSet(Holding) /\ \A product : IsFiniteSet(OfProduct(product))
<1>1. IsFiniteSet(Holding)
  BY RiskAssumption, FS_Product DEF Holding
<1> QED BY <1>1, FS_Subset DEF OfProduct

LEMMA LotsTyped ==
  ASSUME NEW lots \in [Holding -> Lot], NEW product
  PROVE  /\ IsFiniteSet(HeldIn(lots, product)) /\ Cardinality(HeldIn(lots, product)) \in Nat
         /\ \A h \in Holding : Cost(lots)[h] \in Nat /\ Cost(lots)[h] = Magnitude(lots[h].qty) * lots[h].avg
                               /\ lots[h].qty \in Int /\ lots[h].avg \in Nat
         /\ Exposure(lots, product) \in Nat
         /\ Exposure(lots, product) = SumFunctionOnSet(Cost(lots), OfProduct(product))
<1>1. IsFiniteSet(HeldIn(lots, product)) /\ Cardinality(HeldIn(lots, product)) \in Nat
  <2>1. HeldIn(lots, product) \subseteq Holding
    BY DEF HeldIn
  <2>2. IsFiniteSet(HeldIn(lots, product))
    BY <2>1, HoldingsFinite, FS_Subset
  <2> QED BY <2>2, FS_CardinalityType
<1>2. ASSUME NEW h \in Holding
      PROVE  /\ Cost(lots)[h] \in Nat /\ Cost(lots)[h] = Magnitude(lots[h].qty) * lots[h].avg
             /\ lots[h].qty \in Int /\ lots[h].avg \in Nat
  <2>1. lots[h].qty \in Int /\ lots[h].avg \in Nat
    BY DEF Lot
  <2>2. Magnitude(lots[h].qty) \in Nat
    BY <2>1 DEF Magnitude
  <2>3. Cost(lots)[h] = Magnitude(lots[h].qty) * lots[h].avg
    BY DEF Cost
  <2> QED BY <2>1, <2>2, <2>3, IntProducts
<1>3. Exposure(lots, product) = SumFunctionOnSet(Cost(lots), OfProduct(product))
  BY DEF Exposure, OfProduct
<1>4. \A h \in OfProduct(product) : Cost(lots)[h] \in Nat
  BY <1>2 DEF OfProduct
<1>5. Exposure(lots, product) \in Nat
  BY <1>3, <1>4, HoldingsFinite, SumIsNat
<1> QED BY <1>1, <1>2, <1>3, <1>5

Moved(lots, h, lot) == [lots EXCEPT ![h] = lot]
LotWorth(l) == Magnitude(l.qty) * l.avg

\* One position is another: the products it is not of keep what they hold.
LEMMA OneLotMoves ==
  ASSUME NEW lots \in [Holding -> Lot], NEW h \in Holding, NEW lot \in Lot, NEW product
  PROVE  LET next == Moved(lots, h, lot) IN
         /\ next \in [Holding -> Lot]
         /\ h \notin OfProduct(product) => HeldIn(next, product) = HeldIn(lots, product)
                              /\ Exposure(next, product) = Exposure(lots, product)
         /\ h \in OfProduct(product) =>
              Exposure(next, product) = Exposure(lots, product)
                + LotWorth(lot) - LotWorth(lots[h])
         /\ HeldIn(next, product) \subseteq HeldIn(lots, product) \cup {h}
         /\ (lots[h].qty = 0 => lot.qty = 0) => HeldIn(next, product) \subseteq HeldIn(lots, product)
<1> DEFINE next == Moved(lots, h, lot)
           S == OfProduct(product)
           f == Cost(lots)
           g == Cost(next)
<1>1. next \in [Holding -> Lot] /\ next[h] = lot /\ \A k \in Holding : k # h => next[k] = lots[k]
  BY DEF Moved
<1> HIDE DEF next
<1>2. /\ HeldIn(next, product) \subseteq HeldIn(lots, product) \cup {h}
      /\ (lots[h].qty = 0 => lot.qty = 0) => HeldIn(next, product) \subseteq HeldIn(lots, product)
      /\ h[2] # product => HeldIn(next, product) = HeldIn(lots, product)
  BY <1>1 DEF HeldIn
<1>3. /\ Exposure(lots, product) = SumFunctionOnSet(f, S) /\ Exposure(next, product) = SumFunctionOnSet(g, S)
      /\ \A k \in Holding : f[k] \in Nat /\ g[k] \in Nat
      /\ f[h] = Magnitude(lots[h].qty) * lots[h].avg /\ g[h] = Magnitude(lot.qty) * lot.avg
      /\ Exposure(lots, product) \in Nat /\ Exposure(next, product) \in Nat
  BY <1>1, LotsTyped
<1>4. IsFiniteSet(S) /\ S \subseteq Holding /\ (h \in S <=> h[2] = product)
  BY HoldingsFinite DEF OfProduct
<1>5. \A k \in Holding : k # h => f[k] = g[k]
  BY <1>1 DEF Cost
<1> HIDE DEF S, f, g
<1>6. /\ SumFunctionOnSet(g, S) - (IF h \in S THEN g[h] ELSE 0) = SumFunctionOnSet(f, S) - (IF h \in S THEN f[h] ELSE 0)
  <2>1. (\A y \in S : f[y] \in Int) /\ (\A y \in S : g[y] \in Int) /\ (\A y \in S \ {h} : f[y] = g[y])
    BY <1>3, <1>4, <1>5
  <2> QED BY <1>4, <2>1, SumChanges
<1>7. h[2] # product => Exposure(next, product) = Exposure(lots, product)
  BY <1>3, <1>4, <1>6
<1>8. h[2] = product => Exposure(next, product) = Exposure(lots, product) + g[h] - f[h]
  BY <1>3, <1>4, <1>6
<1>9. h[2] = product => Exposure(next, product) = Exposure(lots, product)
                          + LotWorth(lot) - LotWorth(lots[h])
  BY <1>3, <1>8 DEF LotWorth
<1> QED BY <1>1, <1>2, <1>4, <1>7, <1>9 DEF S, next

LEMMA CapsStay ==
  ASSUME NEW a \in [Holding -> Lot], NEW b \in [Holding -> Lot], NEW product \in Product,
         NEW m \in Nat, NEW n \in Nat, m <= n, risk \in RiskSettings,
         HeldIn(b, product) \subseteq HeldIn(a, product), Exposure(b, product) <= Exposure(a, product),
         Capped(a, product, m)
  PROVE  Capped(b, product, n)
<1> DEFINE ps == {ProfileIn(risk, src, product) : src \in Source}
           ca == Cardinality(HeldIn(a, product))
           cb == Cardinality(HeldIn(b, product))
           ea == Exposure(a, product)
           eb == Exposure(b, product)
<1>1. ca \in Nat /\ cb \in Nat /\ cb <= ca /\ ea \in Nat /\ eb \in Nat /\ eb <= ea
  <2>1. IsFiniteSet(HeldIn(a, product)) /\ IsFiniteSet(HeldIn(b, product))
    BY LotsTyped
  <2>2. cb <= ca
    BY <2>1, FS_Subset
  <2> QED BY <2>2, LotsTyped
<1>2. ps \subseteq RiskProfile \cup {NoProfile}
  BY SettingsAssumption
<1>3. /\ NoProfile \notin ps =>
           /\ (\A p \in ps : p.slots > 0) => \E p \in ps : ca <= p.slots
           /\ (\A p \in ps : p.exposure > 0) => \E p \in ps : 100 * ea <= m * p.exposure
  BY DEF Capped, CappedIn
<1> SUFFICES ASSUME NoProfile \notin ps
             PROVE  /\ (\A p \in ps : p.slots > 0) => \E p \in ps : cb <= p.slots
                    /\ (\A p \in ps : p.exposure > 0) => \E p \in ps : 100 * eb <= n * p.exposure
  BY DEF Capped, CappedIn
<1>4. \A p \in ps : p.slots \in Nat /\ p.exposure \in Nat
  BY <1>2, ProfileFields
<1> HIDE DEF ps, ca, cb, ea, eb
<1>5. ASSUME \A p \in ps : p.slots > 0 PROVE \E p \in ps : cb <= p.slots
  BY <1>1, <1>3, <1>4, <1>5
<1>6. ASSUME \A p \in ps : p.exposure > 0 PROVE \E p \in ps : 100 * eb <= n * p.exposure
  <2>1. PICK p \in ps : 100 * ea <= m * p.exposure
    BY <1>3, <1>6
  <2>2. \A x \in Nat : m * x <= n * x /\ m * x \in Nat /\ n * x \in Nat
    OBVIOUS
  <2>3. m * p.exposure <= n * p.exposure /\ m * p.exposure \in Nat /\ n * p.exposure \in Nat
    BY <1>4, <2>2
  <2>4. 100 * eb <= n * p.exposure
    BY <1>1, <2>1, <2>3
  <2> QED BY <2>4
<1> QED BY <1>5, <1>6

\* The average after an order, where ValuedIs does not say.
LEMMA ValuedElse ==
  ASSUME NEW s \in ScopeState, NEW o \in RiskOrder, NEW new
  PROVE  LET v == Valued(s, o, new, TRUE) IN
         /\ o.price = 0 /\ s.qty * new > 0 => v.avg = s.avg
         /\ o.price # 0 /\ s.qty # 0 /\ s.avg = 0 => v.avg = 0
<1> DEFINE v == Valued(s, o, new, TRUE)
<1>1. o.price = 0 /\ s.qty * new > 0 => v = [avg |-> s.avg, gain |-> s.gain]
  BY DEF Valued, Closes
<1>2. o.price # 0 /\ s.qty # 0 /\ s.avg = 0 => v = [avg |-> 0, gain |-> 0]
  BY DEF Valued, Closes
<1> HIDE DEF v
<1>3. o.price = 0 /\ s.qty * new > 0 => v.avg = s.avg
  BY <1>1
<1>4. o.price # 0 /\ s.qty # 0 /\ s.avg = 0 => v.avg = 0
  BY <1>2
<1> QED BY <1>3, <1>4 DEF v

\* A filled order that reduces a position adds nothing to its cost.
LEMMA FillReduces ==
  ASSUME risk \in RiskSettings, NEW b \in Lot, NEW o \in RiskOrder, Reduces(o, b.qty)
  PROVE  LET l == AtBroker(b, o) IN
         /\ Magnitude(l.qty) * l.avg <= Magnitude(b.qty) * b.avg
         /\ b.qty # 0
<1> DEFINE l == AtBroker(b, o)
           s == [FreshScope EXCEPT !.qty = b.qty, !.avg = b.avg]
           f == [o EXCEPT !.price = FillPrice(o)]
           q == b.qty
           d == Signed(o)
           new == q + d
           v == Valued(s, f, new, TRUE)
<1>1. /\ l \in Lot /\ l.qty = new /\ s \in ScopeState /\ f \in RiskOrder /\ Signed(f) = d
      /\ f.qty = o.qty /\ f.price = FillPrice(o) /\ l.avg = IF new = 0 THEN 0 ELSE v.avg
  BY AtBrokerIs
<1>2. s.qty = q /\ s.avg = b.avg
  BY DEF FreshScope
<1>3. /\ q \in Int /\ b.avg \in Nat /\ d \in Int /\ d # 0 /\ Magnitude(d) = o.qty /\ o.qty \in Nat \ {0}
  BY OrderFields DEF Lot
<1>4. q * new >= 0 /\ Magnitude(new) <= Magnitude(q)
  BY DEF Reduces
<1>5. /\ q # 0 /\ (q > 0 => d < 0 /\ new >= 0) /\ (q < 0 => d > 0 /\ new <= 0)
      /\ Magnitude(q) \in Nat /\ Magnitude(new) \in Nat
  <2>1. q * new >= 0 => ~(q > 0 /\ new < 0) /\ ~(q < 0 /\ new > 0)
    <3>1. new \in Int
      BY <1>3
    <3> HIDE DEF q, new
    <3> QED BY <1>3, <3>1, Signs
  <2> QED BY <1>3, <1>4, <2>1 DEF Magnitude
<1>6. q * d < 0 /\ ~(q * d > 0)
  <2> HIDE DEF q, d, new
  <2> QED BY <1>3, <1>5, Signs
<1>7. CASE new = 0
  <2>1. l.qty = 0 /\ l.avg = 0
    BY <1>1, <1>7
  <2>2. Magnitude(l.qty) * l.avg = 0
    BY <2>1 DEF Magnitude
  <2>3. Magnitude(q) * b.avg \in Nat
    BY <1>3, <1>5, IntProducts
  <2> HIDE DEF l, q
  <2> QED BY <1>5, <2>2, <2>3 DEF q, l
<1>8. CASE new # 0
  <2>1. q * new > 0 /\ ~(o.qty >= Magnitude(q))
    <3>1. ~(o.qty >= Magnitude(q))
      BY <1>3, <1>5, <1>8 DEF Magnitude
    <3>2. (q > 0 /\ new > 0) \/ (q < 0 /\ new < 0)
      BY <1>3, <1>5, <1>8
    <3>3. new \in Int
      BY <1>3
    <3>4. q * new > 0
      <4> HIDE DEF q, new
      <4> QED BY <1>3, <3>2, <3>3, Signs
    <3> QED BY <3>1, <3>4
  <2>2. v.avg = b.avg \/ v.avg = 0
    <3> HIDE DEF s, f, v, q, d, new
    <3>1. /\ f.price = 0 /\ s.qty * new > 0 => v.avg = s.avg
          /\ f.price # 0 /\ s.qty # 0 /\ s.avg = 0 => v.avg = 0
      BY <1>1, ValuedElse DEF v
    <3>2. f.price # 0 /\ s.avg # 0 /\ s.qty * Signed(f) < 0 /\ ~(f.qty >= Magnitude(s.qty)) => v.avg = s.avg
      BY <1>1, ValuedIs DEF v
    <3> QED BY <1>1, <1>2, <1>5, <1>6, <2>1, <3>1, <3>2
  <2>3. l.avg \in {b.avg, 0} /\ l.qty = new
    BY <1>1, <1>8, <2>2
  <2>4. \A x, y, z \in Nat : x <= y => x * z <= y * z /\ x * 0 = 0 /\ y * z \in Nat
    OBVIOUS
  <2>5. Magnitude(new) * b.avg <= Magnitude(q) * b.avg /\ Magnitude(new) * 0 <= Magnitude(q) * b.avg
    <3> HIDE DEF q, new
    <3> QED BY <1>3, <1>4, <1>5, <2>4
  <2>6. Magnitude(l.qty) * l.avg <= Magnitude(q) * b.avg
    <3> HIDE DEF l, q, new
    <3> QED BY <2>3, <2>5
  <2> QED BY <1>5, <2>6
<1> QED BY <1>7, <1>8

\* A filled order of a known price adds no more than its own cost.
LEMMA FillCosts ==
  ASSUME risk \in RiskSettings, NEW b \in Lot, NEW o \in RiskOrder, o.price # 0
  PROVE  LET l == AtBroker(b, o) IN
         Magnitude(l.qty) * l.avg <= Magnitude(b.qty) * b.avg + o.qty * o.price
<1> DEFINE l == AtBroker(b, o)
           s == [FreshScope EXCEPT !.qty = b.qty, !.avg = b.avg]
           f == [o EXCEPT !.price = FillPrice(o)]
           q == b.qty
           d == Signed(o)
           n == o.qty
           price == o.price
           avg == b.avg
           new == q + d
           v == Valued(s, f, new, TRUE)
           was == Magnitude(q) * avg
           cost == n * price
           is == Magnitude(l.qty) * l.avg
<1>1. /\ l \in Lot /\ l.qty = new /\ s \in ScopeState /\ f \in RiskOrder /\ Signed(f) = d
      /\ f.qty = n /\ f.price = price /\ l.avg = IF new = 0 THEN 0 ELSE v.avg
  BY AtBrokerIs DEF FillPrice
<1>2. s.qty = q /\ s.avg = avg
  BY DEF FreshScope
<1>3. /\ q \in Int /\ avg \in Nat /\ d \in Int /\ d # 0 /\ Magnitude(d) = n /\ n \in Nat \ {0}
      /\ price \in Nat \ {0} /\ new \in Int /\ Magnitude(q) \in Nat /\ Magnitude(new) \in Nat
      /\ l.avg \in Nat
  <2>1. q \in Int /\ avg \in Nat /\ l.avg \in Nat
    BY <1>1 DEF Lot
  <2>2. d \in Int /\ d # 0 /\ Magnitude(d) = n /\ n \in Nat \ {0} /\ price \in Nat \ {0}
    BY OrderFields
  <2>3. new \in Int
    BY <2>1, <2>2
  <2> HIDE DEF q, d, n, new, l
  <2> QED BY <2>1, <2>2, <2>3 DEF Magnitude
<1>4. was \in Nat /\ cost \in Nat /\ is \in Int
  <2>1. is = Magnitude(new) * l.avg
    BY <1>1
  <2> HIDE DEF q, d, n, new, l, price, avg, is
  <2> QED BY <1>3, <2>1, IntProducts
<1> HIDE DEF s, f, v
<1>5. /\ s.qty = 0 => v.avg = price
      /\ s.qty # 0 /\ s.avg # 0 /\ s.qty * d > 0 => v.avg = (s.avg * Magnitude(s.qty) + price * n) \div Magnitude(new)
      /\ s.avg # 0 /\ s.qty * d < 0 /\ n >= Magnitude(s.qty) => v.avg = price
      /\ s.avg # 0 /\ s.qty * d < 0 /\ ~(n >= Magnitude(s.qty)) => v.avg = avg
      /\ s.qty # 0 /\ s.avg = 0 => v.avg = 0
  <2> HIDE DEF q, d, n, price, avg, new
  <2>1. f.price # 0
    BY <1>1, <1>3
  <2>2. s.qty # 0 /\ s.avg = 0 => v.avg = 0
    BY <1>1, <2>1, ValuedElse DEF v
  <2>3. /\ s.qty = 0 => v.avg = f.price
        /\ s.qty # 0 /\ s.avg # 0 /\ s.qty * Signed(f) > 0 =>
             v.avg = (s.avg * Magnitude(s.qty) + f.price * f.qty) \div Magnitude(new)
        /\ s.avg # 0 /\ s.qty * Signed(f) < 0 /\ f.qty >= Magnitude(s.qty) => v.avg = f.price
        /\ s.avg # 0 /\ s.qty * Signed(f) < 0 /\ ~(f.qty >= Magnitude(s.qty)) => v.avg = s.avg
    BY <1>1, <2>1, ValuedIs DEF v
  <2> QED BY <1>1, <1>2, <2>2, <2>3
<1>6. /\ q * d > 0 <=> (q > 0 /\ d > 0) \/ (q < 0 /\ d < 0)
      /\ q * d < 0 <=> (q > 0 /\ d < 0) \/ (q < 0 /\ d > 0)
  <2> HIDE DEF q, d, new
  <2> QED BY <1>3, Signs
<1>7. (d > 0 => d = n) /\ (d < 0 => d = -n) /\ Magnitude(q) = (IF q < 0 THEN -q ELSE q)
      /\ Magnitude(new) = (IF new < 0 THEN -new ELSE new)
  BY <1>3 DEF Magnitude
<1>8. \A x, y, z \in Nat : x <= y => x * z <= y * z /\ x * z \in Nat /\ y * z \in Nat
  OBVIOUS
<1>9. CASE new = 0 \/ l.avg = 0
  <2>1. is = 0
    <3>1. l.qty = new
      BY <1>1
    <3>2. CASE l.avg = 0
      <4>1. Magnitude(l.qty) * 0 = 0
        BY <1>3, <3>1
      <4> QED BY <3>2, <4>1
    <3>3. CASE new = 0
      <4>1. l.avg = 0
        BY <1>1, <3>3
      <4>2. Magnitude(l.qty) * 0 = 0
        BY <1>3, <3>1
      <4> QED BY <4>1, <4>2
    <3> QED BY <1>9, <3>2, <3>3
  <2> HIDE DEF is, was, cost
  <2>2. is <= was + cost
    BY <1>4, <2>1
  <2> QED BY <2>2 DEF is, was, cost
<1>10. ASSUME new # 0, l.avg = price, Magnitude(new) <= n PROVE is <= was + cost
  <2>1. is = Magnitude(new) * price /\ price \in Nat /\ n \in Nat
    BY <1>1, <1>3, <1>10
  <2>2. Magnitude(new) * price <= n * price
    <3> HIDE DEF n, price, new
    <3> QED BY <1>3, <1>8, <1>10, <2>1
  <2> HIDE DEF is, was, new, price, n
  <2>3. is <= cost
    BY <2>1, <2>2
  <2> HIDE DEF cost
  <2> QED BY <1>4, <2>3
<1>11. ASSUME new # 0, l.avg = avg, Magnitude(new) <= Magnitude(q) PROVE is <= was + cost
  <2>1. is = Magnitude(new) * avg
    BY <1>1, <1>11
  <2>2. Magnitude(new) * avg <= Magnitude(q) * avg
    <3> HIDE DEF q, avg, new
    <3> QED BY <1>3, <1>8, <1>11
  <2> HIDE DEF is, cost, new, avg, q
  <2>3. is <= was
    BY <2>1, <2>2
  <2> HIDE DEF was
  <2> QED BY <1>4, <2>3
<1>12. ASSUME new # 0, q # 0, avg # 0, q * d > 0 PROVE is <= was + cost
  <2> DEFINE total == avg * Magnitude(q) + price * n
             w == Magnitude(new)
  <2>1. l.avg = total \div w
    BY <1>1, <1>2, <1>5, <1>12
  <2>2. total = was + cost
    <3>1. avg * Magnitude(q) = Magnitude(q) * avg /\ price * n = n * price
      <4> HIDE DEF q, avg, price, n
      <4> QED BY <1>3, Distributes
    <3> HIDE DEF q, avg, price, n
    <3> QED BY <3>1
  <2>3. w \in Nat \ {0} /\ total \in Nat
    <3>1. w # 0
      BY <1>3, <1>7, <1>12
    <3> HIDE DEF w, total, was, cost
    <3> QED BY <1>3, <1>4, <2>2, <3>1 DEF w
  <2>4. w * (total \div w) <= total
    <3> HIDE DEF w, total
    <3> QED BY <2>3, IntQuotient
  <2>5. is = w * (total \div w)
    <3>1. Magnitude(l.qty) = w
      BY <1>1
    <3> HIDE DEF l, w, total
    <3> QED BY <2>1, <3>1
  <2> HIDE DEF is, total, was, cost, w
  <2> QED BY <2>2, <2>4, <2>5
<1>13. CASE new # 0 /\ l.avg # 0
  <2>1. l.avg = v.avg
    BY <1>1, <1>13
  <2>2. CASE q = 0
    BY <1>2, <1>3, <1>5, <1>7, <1>10, <1>13, <2>1, <2>2
  <2>3. CASE q # 0 /\ q * d > 0
    BY <1>2, <1>5, <1>12, <1>13, <2>1, <2>3
  <2>4. CASE q * d < 0 /\ n >= Magnitude(q)
    <3>1. q # 0 /\ avg # 0 /\ l.avg = price
      BY <1>2, <1>3, <1>5, <1>6, <1>13, <2>1, <2>4
    <3>2. Magnitude(new) <= n
      BY <1>3, <1>6, <1>7, <2>4
    <3> QED BY <1>10, <1>13, <3>1, <3>2
  <2>5. CASE q * d < 0 /\ ~(n >= Magnitude(q))
    <3>1. q # 0 /\ avg # 0 /\ l.avg = avg
      BY <1>2, <1>3, <1>5, <1>6, <1>13, <2>1, <2>5
    <3>2. Magnitude(new) <= Magnitude(q)
      BY <1>3, <1>6, <1>7, <2>5
    <3> QED BY <1>11, <1>13, <3>1, <3>2
  <2> QED BY <1>3, <1>6, <2>2, <2>3, <2>4, <2>5
<1> QED BY <1>9, <1>13

\* What the broker holds is what was filled, and on a table that is in step with
\* the orders one order at a time is on its way.
FilledOf(h) == {i \in DOMAIN asked : Executed(asked[i]) /\ HoldingOf(asked[i]) = h}
LiveOf(h) == {i \in DOMAIN asked : Placed(asked[i]) /\ asked[i].status # "CANCELLED"
                                   /\ HoldingOf(asked[i]) = h}
BookAddsUp == \A h \in Holding : book[h].qty = SumFunctionOnSet(SignedQty, FilledOf(h))
Underway(i) == asked[i].status = "SENT"
WithFill(i) == Moved(book, HoldingOf(asked[i]), AtBroker(book[HoldingOf(asked[i])], asked[i]))
OneAtATime ==
  /\ \A i, j \in DOMAIN asked : Underway(i) /\ Underway(j) => i = j
  /\ (\E i \in DOMAIN asked : Underway(i)) => table = book
  /\ table # book => \E h \in Holding : table[h].qty # book[h].qty
CapsHold ==
  /\ \A product \in Product : Capped(book, product, Peak)
  /\ \A i \in DOMAIN asked : Underway(i) => \A product \in Product : Capped(WithFill(i), product, Peak)
CapsInv == BookAddsUp /\ (strays = {} => OneAtATime /\ CapsHold)

LEMMA TableIs == TableInStep <=> \A h \in Holding : table[h].qty = SumFunctionOnSet(SignedQty, LiveOf(h))
BY DEF TableInStep, Tally, SignedQty, LiveOf

LEMMA SizesTyped ==
  ASSUME asked \in Seq(RiskOrder)
  PROVE  IsFiniteSet(DOMAIN asked) /\ \A i \in DOMAIN asked : SignedQty[i] \in Int /\ SignedQty[i] # 0
                                                              /\ SignedQty[i] = Signed(asked[i])
<1>1. IsFiniteSet(DOMAIN asked)
  BY LenProperties, FS_Interval
<1>2. ASSUME NEW i \in DOMAIN asked PROVE Signed(asked[i]) \in Int /\ Signed(asked[i]) # 0
  BY LenProperties, ElementOfSeq, OrderFields
<1> QED BY <1>1, <1>2 DEF SignedQty

\* The sum over any orders, after one more is stored.
LEMMA StoredSize ==
  ASSUME asked \in Seq(RiskOrder), NEW i \in Places, NEW o \in RiskOrder, asked' = Stored(i, o),
         NEW S \in SUBSET DOMAIN asked, NEW R \in SUBSET DOMAIN asked', S \ {i} = R \ {i}
  PROVE  SumFunctionOnSet(SignedQty', R) - (IF i \in R THEN Signed(o) ELSE 0)
           = SumFunctionOnSet(SignedQty, S) - (IF i \in S THEN SignedQty[i] ELSE 0)
<1> DEFINE f == SignedQty
           g == SignedQty'
<1>1. /\ asked' \in Seq(RiskOrder) /\ g[i] = Signed(o)
      /\ \A j \in DOMAIN asked : j # i => g[j] = f[j]
  BY StoredOwn
<1>2. /\ IsFiniteSet(DOMAIN asked) /\ IsFiniteSet(DOMAIN asked')
      /\ \A j \in DOMAIN asked : f[j] \in Int
  BY SizesTyped, StoredFact
<1>3. \A j \in DOMAIN asked' : g[j] \in Int
  <2>1. ASSUME NEW j \in DOMAIN asked' PROVE Signed(asked'[j]) \in Int
    BY <1>1, LenProperties, ElementOfSeq, OrderFields
  <2> QED BY <2>1 DEF SignedQty
<1>4. IsFiniteSet(S) /\ IsFiniteSet(R)
  BY <1>2, FS_Subset
<1> HIDE DEF f, g
<1>5. SumFunctionOnSet(g, R) - (IF i \in R THEN g[i] ELSE 0)
        = SumFunctionOnSet(f, S) - (IF i \in S THEN f[i] ELSE 0)
  <2>1. (\A j \in S : f[j] \in Int) /\ (\A j \in R : g[j] \in Int) /\ (\A j \in S \ {i} : f[j] = g[j])
    BY <1>1, <1>2, <1>3
  <2> QED BY <1>4, <2>1, SumChanges
<1> QED BY <1>1, <1>5 DEF f, g

\* The position in what was stored, before and after.
LEMMA FilledSums ==
  ASSUME asked \in Seq(RiskOrder), NEW i \in Places, NEW o \in RiskOrder, asked' = Stored(i, o),
         i \in DOMAIN asked => ~Executed(asked[i]), NEW h \in Holding
  PROVE  /\ SumFunctionOnSet(SignedQty, FilledOf(h)) \in Int
         /\ SumFunctionOnSet(SignedQty, FilledOf(h))' = SumFunctionOnSet(SignedQty, FilledOf(h))
              + (IF Executed(o) /\ HoldingOf(o) = h THEN Signed(o) ELSE 0)
<1> DEFINE S == FilledOf(h)
           R == FilledOf(h)'
<1>1. /\ DOMAIN asked' = DOMAIN asked \cup {i} /\ asked'[i] = o
      /\ \A j \in DOMAIN asked : j # i => asked'[j] = asked[j]
  BY StoredFact
<1>2. S \subseteq DOMAIN asked /\ R \subseteq DOMAIN asked' /\ S \ {i} = R \ {i}
      /\ i \notin S /\ (i \in R <=> Executed(o) /\ HoldingOf(o) = h)
  BY <1>1 DEF FilledOf
<1>3. IsFiniteSet(S) /\ \A j \in S : SignedQty[j] \in Int
  BY <1>2, SizesTyped, FS_Subset
<1> HIDE DEF S, R
<1>4. SumFunctionOnSet(SignedQty, S) \in Int
  BY <1>3, SumIsInt
<1>5. SumFunctionOnSet(SignedQty', R) - (IF i \in R THEN Signed(o) ELSE 0)
        = SumFunctionOnSet(SignedQty, S) - (IF i \in S THEN SignedQty[i] ELSE 0)
  BY <1>2, StoredSize
<1>6. Signed(o) \in Int
  BY OrderFields
<1>7. SumFunctionOnSet(SignedQty', R) \in Int
  <2>1. asked' \in Seq(RiskOrder) /\ IsFiniteSet(DOMAIN asked')
    BY StoredOwn, StoredFact
  <2>2. ASSUME NEW j \in DOMAIN asked' PROVE SignedQty'[j] \in Int
    <3>1. Signed(asked'[j]) \in Int
      BY <2>1, LenProperties, ElementOfSeq, OrderFields
    <3> QED BY <3>1 DEF SignedQty
  <2>3. IsFiniteSet(R)
    BY <1>2, <2>1, FS_Subset
  <2>4. \A j \in R : SignedQty'[j] \in Int
    BY <1>2, <2>2
  <2> QED BY <2>3, <2>4, SumIsInt
<1>8. SumFunctionOnSet(SignedQty', R) = SumFunctionOnSet(SignedQty, S) + (IF i \in R THEN Signed(o) ELSE 0)
  BY <1>2, <1>4, <1>5, <1>6, <1>7
<1>9. SumFunctionOnSet(SignedQty, FilledOf(h))' = SumFunctionOnSet(SignedQty', R)
  BY DEF R
<1> QED BY <1>2, <1>4, <1>8, <1>9 DEF S

LEMMA BookNext ==
  ASSUME RiskTypeOK, OrdersStand, BookAddsUp, [RiskNext]_riskVars
  PROVE  BookAddsUp'
<1>0. asked \in Seq(RiskOrder) /\ risk \in RiskSettings /\ book \in [Holding -> Lot]
  BY DEF RiskTypeOK
<1>1. ASSUME NEW i \in Places, NEW o \in RiskOrder, asked' = Stored(i, o), ~Executed(o), book' = book,
             i \in DOMAIN asked => ~Executed(asked[i])
      PROVE  BookAddsUp'
  <2>1. ASSUME NEW h \in Holding PROVE book'[h].qty = SumFunctionOnSet(SignedQty, FilledOf(h))'
    <3>1. /\ SumFunctionOnSet(SignedQty, FilledOf(h)) \in Int
          /\ SumFunctionOnSet(SignedQty, FilledOf(h))' = SumFunctionOnSet(SignedQty, FilledOf(h)) + 0
      BY <1>0, <1>1, FilledSums
    <3> QED BY <1>1, <3>1 DEF BookAddsUp
  <2> QED BY <2>1 DEF BookAddsUp
<1>2. CASE \E i \in Places, o \in RiskOrder :
              /\ Timely(o) /\ Standing(o) /\ o.status = "WAITING" /\ (i \in DOMAIN asked => o = asked[i])
              /\ Execute(i, o)
  <2>1. PICK i \in Places, o \in RiskOrder :
              /\ Timely(o) /\ Standing(o) /\ o.status = "WAITING" /\ (i \in DOMAIN asked => o = asked[i])
              /\ Execute(i, o)
    BY <1>2
  <2>2. ~Placed(o) /\ (i \in DOMAIN asked => ~Executed(asked[i]))
    BY <2>1 DEF Standing, Executed
  <2> DEFINE d == Decision(o, Profile(o), Account)
             r == [o EXCEPT !.status = "REJECTED_RISK"]
  <2>3. /\ book' = book
        /\ Loud(i, o, d.qty, d.sound) \/ (Quiet(i, r) /\ ~Placed(r) /\ r.status = "REJECTED_RISK")
    BY <2>1, <2>2, ExecuteIs
  <2> HIDE DEF d, r
  <2>4. CASE Loud(i, o, d.qty, d.sound)
    <3>1. SentNow(o, d.qty) \in RiskOrder /\ asked' = Stored(i, SentNow(o, d.qty)) /\ ~Executed(SentNow(o, d.qty))
      BY <2>4, LoudStands DEF Executed
    <3> QED BY <1>1, <2>2, <2>3, <3>1
  <2>5. CASE Quiet(i, r) /\ ~Placed(r) /\ r.status = "REJECTED_RISK"
    <3>1. r \in RiskOrder /\ asked' = Stored(i, r) /\ ~Executed(r)
      BY <2>5 DEF Quiet, Executed
    <3> QED BY <1>1, <2>2, <2>3, <3>1
  <2> QED BY <2>3, <2>4, <2>5
<1>3. CASE \E deal \in risk.menu : Ask(deal) /\ Quiet(Len(asked) + 1, Blank(deal))
  <2>1. PICK deal \in risk.menu : Ask(deal) /\ Quiet(Len(asked) + 1, Blank(deal))
    BY <1>3
  <2>2. Len(asked) + 1 \notin DOMAIN asked
    BY <1>0, LenProperties
  <2>3. ~Executed(Blank(deal)) /\ book' = book
    BY <2>1, BlankTyped DEF Executed, Ask
  <2> QED BY <1>1, <2>1, <2>2, <2>3 DEF Quiet
<1>4. CASE \E i \in DOMAIN asked : Lapsed(i) /\ Fills(i, "CANCELLED")
  <2>1. PICK i \in DOMAIN asked : Lapsed(i) /\ Fills(i, "CANCELLED")
    BY <1>4
  <2> DEFINE o == [asked[i] EXCEPT !.status = "CANCELLED"]
  <2>2. Quiet(i, o) /\ ~Executed(asked[i]) /\ book' = book /\ asked[i] \in RiskOrder
    BY <2>1, AskedTyped DEF Fills, Executed, Lapsed
  <2>3. ~Executed(o)
    BY <2>2 DEF Executed, RiskOrder
  <2> HIDE DEF o
  <2> QED BY <1>1, <2>2, <2>3 DEF Quiet
<1>5. CASE \E i \in DOMAIN asked : Filled(i) /\ Fills(i, "EXECUTED")
  <2>1. PICK i \in DOMAIN asked : Filled(i) /\ Fills(i, "EXECUTED")
    BY <1>5
  <2> DEFINE o == [asked[i] EXCEPT !.status = "EXECUTED"]
             h0 == HoldingOf(asked[i])
             lot == AtBroker(book[h0], asked[i])
  <2>2. /\ o \in RiskOrder /\ asked' = Stored(i, o) /\ i \in Places /\ asked[i].status = "SENT"
        /\ o.status = "EXECUTED" /\ HoldingOf(o) = h0 /\ Signed(o) = Signed(asked[i]) /\ asked[i] \in RiskOrder
    BY <2>1, EndsTyped DEF Filled
  <2>3. book' = [book EXCEPT ![h0] = lot]
    BY <2>1 DEF Filled
  <2>4. h0 \in Holding /\ lot.qty = book[h0].qty + Signed(o) /\ book[h0] \in Lot
    <3>1. h0 \in Holding
      BY <2>2, OrderFields
    <3>2. book[h0] \in Lot
      BY <1>0, <3>1
    <3> HIDE DEF o, h0
    <3>3. AtBroker(book[h0], asked[i]).qty = book[h0].qty + Signed(asked[i])
      BY <1>0, <2>2, <3>2, AtBrokerIs
    <3> QED BY <2>2, <3>1, <3>2, <3>3 DEF lot
  <2>5. Executed(o) /\ ~Executed(asked[i])
    BY <2>2 DEF Executed
  <2> HIDE DEF o, h0, lot
  <2>6. ASSUME NEW h \in Holding PROVE book'[h].qty = SumFunctionOnSet(SignedQty, FilledOf(h))'
    <3>1. /\ SumFunctionOnSet(SignedQty, FilledOf(h)) \in Int
          /\ SumFunctionOnSet(SignedQty, FilledOf(h))' = SumFunctionOnSet(SignedQty, FilledOf(h))
               + (IF h0 = h THEN Signed(o) ELSE 0)
      BY <1>0, <2>2, <2>5, FilledSums
    <3>2. book[h].qty = SumFunctionOnSet(SignedQty, FilledOf(h))
      BY DEF BookAddsUp
    <3>3. book'[h].qty = book[h].qty + (IF h0 = h THEN Signed(o) ELSE 0)
      <4>1. CASE h0 = h
        BY <1>0, <2>3, <2>4, <4>1
      <4>2. CASE h0 # h
        BY <1>0, <2>3, <3>1, <3>2, <4>2
      <4> QED BY <4>1, <4>2
    <3> QED BY <3>1, <3>2, <3>3
  <2> QED BY <2>6 DEF BookAddsUp
<1>6. CASE book' = book /\ asked' = asked
  <2>1. ASSUME NEW h \in Holding PROVE SumFunctionOnSet(SignedQty, FilledOf(h))' = SumFunctionOnSet(SignedQty, FilledOf(h))
    BY <1>6 DEF SignedQty, FilledOf
  <2> QED BY <1>6, <2>1 DEF BookAddsUp
<1>7. SyncPositions \/ RebuildTrades \/ NextBarPasses \/ UNCHANGED riskVars => book' = book /\ asked' = asked
  BY DEF SyncPositions, RebuildTrades, NextBarPasses, riskVars
<1> QED BY <1>2, <1>3, <1>4, <1>5, <1>6, <1>7, RiskStepIs

LEMMA PeakTyped ==
  ASSUME RiskTypeOK
  PROVE  Peak \in Nat /\ (\A d \in DOMAIN snaps : snaps[d] <= Peak) /\ \E d \in DOMAIN snaps : Peak = snaps[d]
<1> DEFINE S == {snaps[d] : d \in DOMAIN snaps}
<1>1. risk \in RiskSettings /\ risk.bars \in Nat /\ snaps \in [0..DayOf(risk.bars) -> Nat]
  BY SettingsAssumption DEF RiskTypeOK
<1>2. DayOf(risk.bars) \in Nat
  BY <1>1, DaysGrow
<1>3. DOMAIN snaps = 0..DayOf(risk.bars) /\ \A d \in DOMAIN snaps : snaps[d] \in Nat
  BY <1>1
<1>4. IsFiniteSet(DOMAIN snaps) /\ 0 \in DOMAIN snaps
  BY <1>2, <1>3, FS_Interval
<1>5. IsFiniteSet(S)
  BY <1>4, ImageIsFinite
<1>6. S # {} /\ S \subseteq Nat
  BY <1>3, <1>4
<1>7. Peak = Max(S)
  BY DEF Peak
<1>9. S \subseteq Int /\ \A y \in S : y \in Nat
  BY <1>6
<1> HIDE DEF S
<1>8. Max(S) \in S /\ \A y \in S : y <= Max(S)
  BY <1>5, <1>6, <1>9, LargestOf
<1> QED BY <1>7, <1>8, <1>9 DEF S

LEMMA PeakThen == RiskTypeOK' => Peak' \in Nat /\ \A d \in DOMAIN snaps' : snaps'[d] <= Peak'
<1>1. RiskTypeOK => Peak \in Nat /\ \A d \in DOMAIN snaps : snaps[d] <= Peak
  BY PeakTyped
<1>2. RiskTypeOK' => (Peak \in Nat /\ \A d \in DOMAIN snaps : snaps[d] <= Peak)'
  BY <1>1, PTL
<1> QED BY <1>2

\* The highest equity on record only grows.
LEMMA PeakGrows ==
  ASSUME RiskTypeOK, RiskTypeOK', DOMAIN snaps \subseteq DOMAIN snaps',
         \A d \in DOMAIN snaps : snaps[d] <= snaps'[d]
  PROVE  Peak \in Nat /\ Peak' \in Nat /\ Peak <= Peak'
<1>1. PICK d \in DOMAIN snaps : Peak = snaps[d]
  BY PeakTyped
<1>2. snaps'[d] <= Peak' /\ snaps[d] <= snaps'[d] /\ Peak \in Nat /\ Peak' \in Nat
  BY PeakTyped, PeakThen
<1>3. snaps'[d] \in Nat
  <2>1. snaps' \in [0..DayOf(risk.bars)' -> Nat]
    BY DEF RiskTypeOK
  <2> QED BY <2>1
<1> QED BY <1>1, <1>2, <1>3

\* On a table in step, all that was sent is filled and in the table.
LEMMA InStepMeans ==
  ASSUME RiskTypeOK, OrdersStand, BookAddsUp, OneAtATime, TableInStep
  PROVE  table = book /\ \A i \in DOMAIN asked : ~Underway(i)
<1>1. asked \in Seq(RiskOrder)
  BY DEF RiskTypeOK
<1>2. \A i \in DOMAIN asked : Placed(asked[i]) /\ asked[i].status # "CANCELLED"
                               <=> Underway(i) \/ Executed(asked[i])
  BY DEF OrdersStand, Standing, Underway, Executed
<1>3. ASSUME NEW h \in Holding
      PROVE  /\ IsFiniteSet(FilledOf(h)) /\ FilledOf(h) \subseteq DOMAIN asked
             /\ LiveOf(h) = FilledOf(h) \cup {i \in DOMAIN asked : Underway(i) /\ HoldingOf(asked[i]) = h}
  <2>1. FilledOf(h) \subseteq DOMAIN asked
    BY DEF FilledOf
  <2>2. IsFiniteSet(FilledOf(h))
    BY <1>1, <2>1, SizesTyped, FS_Subset
  <2> QED BY <1>2, <2>1, <2>2 DEF FilledOf, LiveOf
<1>4. ASSUME NEW i \in DOMAIN asked, Underway(i) PROVE FALSE
  <2> DEFINE h == HoldingOf(asked[i])
  <2>1. h \in Holding /\ ~Executed(asked[i])
    BY <1>4, AskedTyped, OrderFields DEF Underway, Executed
  <2>2. {j \in DOMAIN asked : Underway(j) /\ HoldingOf(asked[j]) = h} = {i}
    BY <1>4 DEF OneAtATime
  <2>3. LiveOf(h) = FilledOf(h) \cup {i} /\ i \notin FilledOf(h)
    BY <1>3, <2>1, <2>2 DEF FilledOf
  <2> HIDE DEF h
  <2>4. \A j \in FilledOf(h) \cup {i} : SignedQty[j] \in Int
    BY <1>1, <1>3, <2>1, SizesTyped
  <2>5. SumFunctionOnSet(SignedQty, LiveOf(h)) = SignedQty[i] + SumFunctionOnSet(SignedQty, FilledOf(h))
    BY <1>3, <2>1, <2>3, <2>4, SumWith
  <2>6. SumFunctionOnSet(SignedQty, FilledOf(h)) \in Int
    BY <1>3, <2>1, <2>4, SumIsInt
  <2>7. SignedQty[i] \in Int /\ SignedQty[i] # 0
    BY <1>1, SizesTyped
  <2>8. table[h].qty = SumFunctionOnSet(SignedQty, LiveOf(h)) /\ book[h].qty = SumFunctionOnSet(SignedQty, FilledOf(h))
    BY <2>1, TableIs DEF BookAddsUp
  <2>9. table = book
    BY <1>4 DEF OneAtATime
  <2> QED BY <2>5, <2>6, <2>7, <2>8, <2>9
<1>5. ASSUME NEW h \in Holding PROVE table[h].qty = book[h].qty
  <2>1. LiveOf(h) = FilledOf(h)
    BY <1>3, <1>4
  <2>2. table[h].qty = SumFunctionOnSet(SignedQty, LiveOf(h)) /\ book[h].qty = SumFunctionOnSet(SignedQty, FilledOf(h))
    BY TableIs DEF BookAddsUp
  <2> QED BY <2>1, <2>2
<1> QED BY <1>4, <1>5 DEF OneAtATime

LEMMA SlotsTyped ==
  ASSUME NEW p \in RiskProfile, NEW a, p.slots > 0
  PROVE  Slots(a, p) \in Nat /\ Slots(a, p) > 0 /\ Slots(a, p) <= p.slots
<1> DEFINE n == p.slots
           m == (n * 7) \div 10
<1>1. n \in Nat /\ n > 0
  BY ProfileFields
<1>2. m \in Nat /\ m <= n
  <2>1. \A x \in Nat : (x * 7) \div 10 \in Nat /\ (x * 7) \div 10 <= x
    OBVIOUS
  <2> HIDE DEF n
  <2> QED BY <1>1, <2>1
<1>3. Slots(a, p) = IF Throttled(a, p) THEN Max({1, m}) ELSE n
  BY DEF Slots
<1> HIDE DEF n, m
<1>4. Max({1, m}) = IF 1 >= m THEN 1 ELSE m
  BY <1>2, LargerOf
<1> QED BY <1>1, <1>2, <1>3, <1>4 DEF n

\* What an entry is sent for leaves room in the table for all of it.
LEMMA VerdictMeans ==
  ASSUME RiskTypeOK, NEW o \in RiskOrder, NEW p \in RiskProfile, NEW a, Verdict(o, p, a) > 0
  PROVE  LET q == Verdict(o, p, a) IN
         /\ q = Sized(o, p, a) /\ q \in Nat
         /\ ~Barred(o, p) /\ ~BarredByLosses(o, p, a, DrawdownState(a, p))
         /\ ~BarredBySlots(o, Slots(a, p)) /\ ~BarredByExposure(o, p, a, q)
<1>1. Sized(o, p, a) \in Nat
  BY SizedTyped DEF RiskTypeOK
<1>2. ~BarredAnyway(o, p, a) /\ ~BarredFor(o, p, a, Sized(o, p, a)) /\ Verdict(o, p, a) = Sized(o, p, a)
  BY DEF Verdict
<1> QED BY <1>1, <1>2 DEF BarredAnyway, BarredFor

\* What a sound decision to send an order means.
LEMMA DecisionMeans ==
  ASSUME RiskTypeOK, NEW o \in RiskOrder, NEW p \in RiskProfile \cup {NoProfile}, NEW a,
         Decision(o, p, a).sound
  PROVE  LET d == Decision(o, p, a) IN
         /\ TableInStep
         /\ \/ IsExit(o) /\ d.qty = o.qty /\ Reduces(o, table[HoldingOf(o)].qty)
            \/ ~IsExit(o) /\ p # NoProfile /\ d.qty = Verdict(o, p, a) /\ o.price # 0 /\ a.now > 0
<1> DEFINE d == Decision(o, p, a)
           e == IsExit(o)
           v == Verdict(o, p, a)
           t == TableInStep
           r == Reduces(o, table[HoldingOf(o)].qty)
<1>1. CASE e
  <2>1. d = [qty |-> o.qty, sound |-> t /\ r]
    BY <1>1 DEF Decision
  <2> HIDE DEF e, v, t, r, d
  <2>2. d.qty = o.qty
    BY <2>1
  <2>3. d.sound = (t /\ r)
    BY <2>1, Zenon
  <2>4. d.sound
    BY DEF d
  <2> QED BY <1>1, <2>2, <2>3, <2>4 DEF e, t, r, d
<1>2. CASE ~e /\ p = NoProfile
  <2>1. d = [qty |-> IF o.src = "MANUAL" THEN o.qty ELSE 0, sound |-> FALSE]
    BY <1>2 DEF Decision
  <2> QED BY <2>1
<1>3. CASE ~e /\ p # NoProfile /\ o.src = "MANUAL" /\ risk.manual_override
  <2>1. d = [qty |-> o.qty, sound |-> FALSE]
    BY <1>3 DEF Decision
  <2> QED BY <2>1
<1>4. CASE ~e /\ p # NoProfile /\ ~(o.src = "MANUAL" /\ risk.manual_override)
  <2>1. d = [qty |-> v, sound |-> t /\ o.price # 0 /\ a.now > 0]
    BY <1>4 DEF Decision
  <2> HIDE DEF e, v, t, r, d
  <2>2. d.qty = v
    BY <2>1
  <2>3. d.sound = (t /\ o.price # 0 /\ a.now > 0)
    BY <2>1, Zenon
  <2>4. d.sound
    BY DEF d
  <2> QED BY <1>4, <2>2, <2>3, <2>4 DEF e, t, r, d, v
<1> QED BY <1>1, <1>2, <1>3, <1>4

\* An exit that only reduces takes up no more room.
LEMMA ExitFits ==
  ASSUME RiskTypeOK, NEW s \in RiskOrder, Reduces(s, book[HoldingOf(s)].qty), NEW n \in Nat, Peak <= n,
         Peak \in Nat, NEW product \in Product, Capped(book, product, Peak)
  PROVE  Capped(Moved(book, HoldingOf(s), AtBroker(book[HoldingOf(s)], s)), product, n)
<1> DEFINE h == HoldingOf(s)
           lot == AtBroker(book[h], s)
           next == Moved(book, h, lot)
<1>1. h \in Holding /\ risk \in RiskSettings /\ book \in [Holding -> Lot]
  BY OrderFields DEF RiskTypeOK
<1>2. book[h] \in Lot
  BY <1>1
<1> HIDE DEF h
<1>3. lot \in Lot /\ LotWorth(lot) <= LotWorth(book[h]) /\ book[h].qty # 0
  <2>1. Reduces(s, book[h].qty)
    BY DEF h
  <2> QED BY <1>1, <1>2, <2>1, AtBrokerIs, FillReduces DEF LotWorth
<1> HIDE DEF lot
<1> HIDE DEF next
<1>4. /\ next \in [Holding -> Lot]
      /\ h \notin OfProduct(product) => HeldIn(next, product) = HeldIn(book, product)
                           /\ Exposure(next, product) = Exposure(book, product)
      /\ h \in OfProduct(product) => Exposure(next, product) = Exposure(book, product)
             + LotWorth(lot) - LotWorth(book[h])
      /\ HeldIn(next, product) \subseteq HeldIn(book, product)
  <2>1. h \in Holding /\ lot \in Lot /\ book \in [Holding -> Lot] /\ (book[h].qty = 0 => lot.qty = 0)
    BY <1>1, <1>3
  <2> QED BY <2>1, OneLotMoves DEF next
<1> DEFINE x == LotWorth(lot)
           y == LotWorth(book[h])
<1>5. x \in Nat /\ y \in Nat
  <2>1. \A b \in Lot : Magnitude(b.qty) \in Nat /\ b.avg \in Nat
    BY DEF Lot, Magnitude
  <2>2. \A b \in Lot : LotWorth(b) \in Nat
    BY <2>1, IntProducts DEF LotWorth
  <2> QED BY <1>2, <1>3, <2>2
<1>6. Exposure(book, product) \in Nat
  BY <1>1, LotsTyped
<1>7. Exposure(next, product) <= Exposure(book, product)
  <2>1. x <= y /\ (h \in OfProduct(product) => Exposure(next, product) = Exposure(book, product) + x - y)
    BY <1>3, <1>4
  <2> HIDE DEF x, y
  <2> QED BY <1>4, <1>5, <1>6, <2>1
<1>8. Capped(next, product, n)
  BY <1>1, <1>4, <1>7, CapsStay
<1> QED BY <1>8 DEF next, lot, h

\* An entry within the limits fits.
LEMMA EntryFits ==
  ASSUME RiskTypeOK, NEW o \in RiskOrder, NEW q \in Nat \ {0}, NEW a, a.now \in Int, table = book,
         Profile(o) \in RiskProfile, ~BarredBySlots(o, Slots(a, Profile(o))),
         ~BarredByExposure(o, Profile(o), a, q), o.price # 0, a.now > 0,
         NEW s \in RiskOrder, s.qty = q, s.price = o.price, HoldingOf(s) = HoldingOf(o),
         NEW n \in Nat, Peak <= n, a.now <= n, Peak \in Nat,
         NEW product \in Product, Capped(book, product, Peak)
  PROVE  Capped(Moved(book, HoldingOf(s), AtBroker(book[HoldingOf(s)], s)), product, n)
<1> DEFINE h == HoldingOf(s)
           lot == AtBroker(book[h], s)
           next == Moved(book, h, lot)
           p == Profile(o)
           ps == {ProfileIn(risk, src, product) : src \in Source}
<1>1. h \in Holding /\ (h \in OfProduct(product) <=> product = o.product) /\ risk \in RiskSettings /\ book \in [Holding -> Lot]
      /\ p.slots \in Nat /\ p.exposure \in Nat /\ o.price \in Nat /\ o.src \in Source
  <2>1. h \in Holding /\ (h \in OfProduct(product) <=> product = o.product) /\ o.price \in Nat /\ o.src \in Source
    BY OrderFields DEF OfProduct
  <2> QED BY <2>1, ProfileFields DEF RiskTypeOK
<1>2. book[h] \in Lot
  BY <1>1
<1> HIDE DEF h, p
<1>3. lot \in Lot /\ LotWorth(lot) <= LotWorth(book[h]) + q * o.price
  BY <1>1, <1>2, AtBrokerIs, FillCosts DEF LotWorth
<1> HIDE DEF lot
<1> HIDE DEF next
<1>4. /\ next \in [Holding -> Lot]
      /\ h \notin OfProduct(product) => HeldIn(next, product) = HeldIn(book, product)
                           /\ Exposure(next, product) = Exposure(book, product)
      /\ h \in OfProduct(product) => Exposure(next, product) = Exposure(book, product)
             + LotWorth(lot) - LotWorth(book[h])
      /\ HeldIn(next, product) \subseteq HeldIn(book, product) \cup {h}
  <2>1. h \in Holding /\ lot \in Lot /\ book \in [Holding -> Lot]
    BY <1>1, <1>3
  <2> QED BY <2>1, OneLotMoves DEF next
<1> DEFINE x == LotWorth(lot)
           y == LotWorth(book[h])
           z == q * o.price
           e == Exposure(book, product)
           e2 == Exposure(next, product)
<1>5. x \in Nat /\ y \in Nat /\ z \in Nat
  <2>1. \A b \in Lot : Magnitude(b.qty) \in Nat /\ b.avg \in Nat
    BY DEF Lot, Magnitude
  <2>2. \A b \in Lot : LotWorth(b) \in Nat
    BY <2>1, IntProducts DEF LotWorth
  <2> QED BY <1>1, <1>2, <1>3, <2>2, IntProducts
<1>6. e \in Nat /\ Cardinality(HeldIn(book, product)) \in Nat /\ IsFiniteSet(HeldIn(book, product))
  BY <1>1, LotsTyped
<1>7. CASE product # o.product
  <2>1. HeldIn(next, product) \subseteq HeldIn(book, product) /\ e2 <= e
    BY <1>1, <1>4, <1>6, <1>7
  <2>2. Capped(next, product, n)
    BY <1>1, <1>4, <2>1, CapsStay
  <2> QED BY <2>2 DEF next, lot, h
<1>8. CASE product = o.product
  <2>1. p \in ps
    BY <1>1, <1>8 DEF p, Profile
  <2>2. ASSUME p.slots > 0 PROVE Cardinality(HeldIn(next, product)) <= p.slots
    <3> DEFINE H == HeldIn(book, product)
               H2 == HeldIn(next, product)
    <3>1. Slots(a, p) \in Nat /\ Slots(a, p) > 0 /\ Slots(a, p) <= p.slots
      BY <2>2, SlotsTyped DEF p
    <3>2. ~(Cardinality(H) >= Slots(a, p))
      BY <1>8, <3>1 DEF BarredBySlots, p
    <3>3. IsFiniteSet(H \cup {h}) /\ Cardinality(H \cup {h}) <= Cardinality(H) + 1
      <4> HIDE DEF H
      <4>1. IsFiniteSet(H)
        BY <1>6 DEF H
      <4>2. Cardinality(H) \in Nat
        BY <4>1, FS_CardinalityType
      <4>3. /\ IsFiniteSet(H \cup {h})
            /\ Cardinality(H \cup {h}) = IF h \in H THEN Cardinality(H) ELSE Cardinality(H) + 1
        BY <4>1, FS_AddElement
      <4> QED BY <4>2, <4>3
    <3>4. H2 \subseteq H \cup {h}
      BY <1>4
    <3> HIDE DEF H, H2
    <3>5. Cardinality(H2) <= Cardinality(H \cup {h}) /\ Cardinality(H2) \in Nat /\ Cardinality(H \cup {h}) \in Nat
      BY <3>3, <3>4, FS_Subset, FS_CardinalityType
    <3>6. Cardinality(H) \in Nat
      BY <1>6 DEF H
    <3>7. Cardinality(H2) <= p.slots
      BY <1>1, <3>1, <3>2, <3>3, <3>5, <3>6
    <3> QED BY <3>7 DEF H2
  <2>3. ASSUME p.exposure > 0 PROVE 100 * e2 <= n * p.exposure
    <3>1. 100 * (e + z) <= a.now * p.exposure
      <4>1. ~(100 * (e + z) > a.now * p.exposure)
        BY <1>8, <2>3 DEF BarredByExposure, p
      <4>2. a.now * p.exposure \in Int
        BY <1>1, IntProducts
      <4> DEFINE w == a.now * p.exposure
      <4> HIDE DEF e, z, w
      <4>3. e + z \in Nat /\ w \in Int /\ ~(100 * (e + z) > w)
        BY <1>5, <1>6, <4>1, <4>2 DEF w
      <4>4. 100 * (e + z) <= w
        BY <4>3
      <4> QED BY <4>4 DEF w
    <3>2. a.now * p.exposure <= n * p.exposure /\ a.now * p.exposure \in Int /\ n * p.exposure \in Int
      <4>1. \A i, j, k \in Nat : i <= j => i * k <= j * k /\ i * k \in Int /\ j * k \in Int
        OBVIOUS
      <4>2. a.now \in Nat
        OBVIOUS
      <4> QED BY <1>1, <4>1, <4>2
    <3>3. e2 = e + x - y /\ x <= y + z
      BY <1>1, <1>3, <1>4, <1>8
    <3> DEFINE u == a.now * p.exposure
               w == n * p.exposure
    <3> HIDE DEF u, w, e, e2, x, y, z
    <3>4. 100 * (e + z) <= u /\ u <= w /\ u \in Int /\ w \in Int
      BY <3>1, <3>2 DEF u, w
    <3>5. 100 * e2 <= w
      BY <1>5, <1>6, <3>3, <3>4
    <3> QED BY <3>5 DEF w
  <2>4. Capped(next, product, n)
    <3> HIDE DEF e2
    <3>1. ASSUME \A r \in ps : r.slots > 0 PROVE \E r \in ps : Cardinality(HeldIn(next, product)) <= r.slots
      BY <2>1, <2>2, <3>1
    <3>2. ASSUME \A r \in ps : r.exposure > 0 PROVE \E r \in ps : 100 * Exposure(next, product) <= n * r.exposure
      BY <2>1, <2>3, <3>2 DEF e2
    <3> QED BY <3>1, <3>2 DEF Capped, CappedIn
  <2> QED BY <2>4 DEF next, lot, h
<1> QED BY <1>7, <1>8

LEMMA CappedThen ==
  ASSUME risk' = risk, book' = book
  PROVE  \A product : Capped(book, product, Peak)' <=> Capped(book, product, Peak')
BY DEF Capped

LEMMA WithFillThen ==
  ASSUME risk' = risk, book' = book, NEW i, NEW s, asked'[i] = s
  PROVE  WithFill(i)' = Moved(book, HoldingOf(s), AtBroker(book[HoldingOf(s)], s))
BY DEF WithFill, AtBroker, FillPrice

LEMMA CapsGrow ==
  ASSUME RiskTypeOK, NEW lots \in [Holding -> Lot], NEW product \in Product, NEW n \in Nat, Peak <= n,
         Capped(lots, product, Peak)
  PROVE  Capped(lots, product, n)
<1>1. Peak \in Nat /\ risk \in RiskSettings /\ Exposure(lots, product) \in Nat
  BY PeakTyped, LotsTyped DEF RiskTypeOK
<1>2. HeldIn(lots, product) \subseteq HeldIn(lots, product) /\ Exposure(lots, product) <= Exposure(lots, product)
  BY <1>1
<1> QED BY <1>1, <1>2, CapsStay

LEMMA WithFillTyped ==
  ASSUME RiskTypeOK, NEW s \in RiskOrder
  PROVE  Moved(book, HoldingOf(s), AtBroker(book[HoldingOf(s)], s)) \in [Holding -> Lot]
<1>1. risk \in RiskSettings /\ book \in [Holding -> Lot] /\ HoldingOf(s) \in Holding
  BY OrderFields DEF RiskTypeOK
<1>2. book[HoldingOf(s)] \in Lot
  BY <1>1
<1>3. AtBroker(book[HoldingOf(s)], s) \in Lot
  BY <1>1, <1>2, AtBrokerIs
<1> QED BY <1>1, <1>3 DEF Moved

\* Rejections, requests and cancellations leave the positions alone.
LEMMA QuietCaps ==
  ASSUME RiskTypeOK, OneAtATime, CapsHold, NEW i \in Places, NEW o \in RiskOrder, asked' = Stored(i, o),
         o.status # "SENT", UNCHANGED <<risk, book, table>>, Peak' \in Nat, Peak <= Peak'
  PROVE  OneAtATime' /\ CapsHold'
<1>1. asked \in Seq(RiskOrder) /\ book \in [Holding -> Lot]
  BY DEF RiskTypeOK
<1>2. /\ DOMAIN asked' = DOMAIN asked \cup {i} /\ asked'[i] = o
      /\ \A j \in DOMAIN asked : j # i => asked'[j] = asked[j]
  BY <1>1, StoredFact
<1>3. ASSUME NEW j \in DOMAIN asked', Underway(j)' PROVE j \in DOMAIN asked /\ Underway(j) /\ asked'[j] = asked[j]
  BY <1>2, <1>3 DEF Underway
<1>4. OneAtATime'
  BY <1>3 DEF OneAtATime
<1>5. ASSUME NEW product \in Product PROVE Capped(book, product, Peak)'
  BY <1>1, CapsGrow, CappedThen DEF CapsHold
<1>6. ASSUME NEW j \in DOMAIN asked', Underway(j)', NEW product \in Product
      PROVE  Capped(WithFill(j), product, Peak)'
  <2> DEFINE s == asked[j]
             next == Moved(book, HoldingOf(s), AtBroker(book[HoldingOf(s)], s))
  <2>1. s \in RiskOrder /\ asked'[j] = s /\ j \in DOMAIN asked /\ Underway(j)
    BY <1>3, <1>6, AskedTyped
  <2>2. next \in [Holding -> Lot]
    BY <2>1, WithFillTyped
  <2>3. WithFill(j)' = next
    BY <2>1, WithFillThen
  <2>4. Capped(next, product, Peak)
    BY <2>1 DEF CapsHold, WithFill
  <2> HIDE DEF next
  <2>5. Capped(next, product, Peak')
    BY <2>2, <2>4, CapsGrow
  <2> QED BY <2>3, <2>5 DEF Capped
<1> QED BY <1>4, <1>5, <1>6 DEF CapsHold

LEMMA FilledCaps ==
  ASSUME RiskTypeOK, OneAtATime, CapsHold, NEW i \in DOMAIN asked, Filled(i)
  PROVE  OneAtATime' /\ CapsHold'
<1> DEFINE o == [asked[i] EXCEPT !.status = "EXECUTED"]
           s == asked[i]
           h0 == HoldingOf(s)
           lot == AtBroker(book[h0], s)
<1>1. asked \in Seq(RiskOrder) /\ book \in [Holding -> Lot] /\ risk \in RiskSettings
  BY DEF RiskTypeOK
<1>2. /\ o \in RiskOrder /\ asked' = Stored(i, o) /\ i \in Places /\ s.status = "SENT" /\ s \in RiskOrder
      /\ o.status = "EXECUTED"
  BY EndsTyped DEF Filled
<1>3. book' = WithFill(i) /\ UNCHANGED <<risk, table, snaps>>
  BY DEF Filled, Ends, WithFill, Moved
<1> HIDE DEF o
<1>4. /\ DOMAIN asked' = DOMAIN asked \cup {i} /\ asked'[i] = o
      /\ \A j \in DOMAIN asked : j # i => asked'[j] = asked[j]
  BY <1>1, <1>2, StoredFact
<1>5. \A j \in DOMAIN asked' : ~Underway(j)'
  BY <1>2, <1>4 DEF OneAtATime, Underway
<1>6. table = book
  BY <1>2 DEF OneAtATime, Underway
<1>7. h0 \in Holding /\ book[h0] \in Lot /\ lot.qty # book[h0].qty
  <2>1. h0 \in Holding /\ Signed(s) \in Int /\ Signed(s) # 0
    BY <1>2, OrderFields
  <2>2. book[h0] \in Lot
    BY <1>1, <2>1
  <2>3. lot.qty = book[h0].qty + Signed(s) /\ book[h0].qty \in Int
    BY <1>1, <1>2, <2>2, AtBrokerIs DEF Lot
  <2> HIDE DEF lot, h0, s
  <2> QED BY <2>1, <2>2, <2>3
<1>8. book'[h0] = lot
  BY <1>1, <1>3, <1>7 DEF WithFill, Moved
<1>9. OneAtATime'
  <2>1. table'[h0].qty # book'[h0].qty
    BY <1>3, <1>6, <1>7, <1>8
  <2> HIDE DEF h0
  <2> QED BY <1>5, <1>7, <2>1 DEF OneAtATime
<1>10. ASSUME NEW product \in Product PROVE Capped(book, product, Peak)'
  <2>1. Capped(WithFill(i), product, Peak)
    BY <1>2 DEF CapsHold, Underway
  <2>2. Peak' = Peak
    BY <1>3 DEF Peak
  <2> QED BY <1>3, <2>1, <2>2 DEF Capped
<1> QED BY <1>5, <1>9, <1>10 DEF CapsHold

\* An order that was judged on a table in step fits when it is filled.
LEMMA SentCaps ==
  ASSUME RiskTypeOK, RiskTypeOK', OrdersStand, BookAddsUp, OneAtATime, CapsHold,
         NEW i \in Places, NEW o \in RiskOrder, NEW q, q = Decision(o, Profile(o), Account).qty, NEW sound,
         Loud(i, o, q, sound), Decision(o, Profile(o), Account).sound, Peak' \in Nat, Peak <= Peak',
         Recorded(o, Profile(o)) => Account.now <= Peak'
  PROVE  OneAtATime' /\ CapsHold'
<1> DEFINE p == Profile(o)
           a == Account
           s == SentNow(o, q)
           h == HoldingOf(s)
           next == Moved(book, h, AtBroker(book[h], s))
<1>1. asked \in Seq(RiskOrder) /\ book \in [Holding -> Lot] /\ risk \in RiskSettings /\ a.now \in Int
      /\ p \in RiskProfile \cup {NoProfile}
  BY AccountTyped, ProfileTyped DEF RiskTypeOK
<1>2. /\ s \in RiskOrder /\ s.qty = q /\ s.price = o.price /\ s.side = o.side /\ h = HoldingOf(o)
      /\ asked' = Stored(i, s) /\ s.status = "SENT" /\ q \in Nat \ {0}
  <2>1. q \in Nat \ {0}
    BY DEF Loud
  <2> QED BY <2>1, LoudStands
<1>3. UNCHANGED <<risk, book, table>>
  BY DEF Loud
<1> HIDE DEF p, a
<1>4. /\ TableInStep
      /\ \/ IsExit(o) /\ q = o.qty /\ Reduces(o, table[HoldingOf(o)].qty)
         \/ ~IsExit(o) /\ p # NoProfile /\ q = Verdict(o, p, a) /\ o.price # 0 /\ a.now > 0
  BY <1>1, DecisionMeans DEF p, a
<1>5. table = book /\ \A j \in DOMAIN asked : ~Underway(j)
  BY <1>4, InStepMeans
<1> HIDE DEF s
<1>6. /\ DOMAIN asked' = DOMAIN asked \cup {i} /\ asked'[i] = s
      /\ \A j \in DOMAIN asked : j # i => asked'[j] = asked[j]
  BY ZenonT(60), <1>1, <1>2, StoredFact
<1>7. \A j \in DOMAIN asked' : Underway(j)' => j = i
  BY <1>5, <1>6 DEF Underway
<1>8. OneAtATime'
  BY <1>3, <1>5, <1>7 DEF OneAtATime
<1>9. Peak \in Nat
  BY PeakTyped
<1>10. ASSUME NEW product \in Product PROVE Capped(book, product, Peak)'
  BY <1>1, <1>3, CapsGrow, CappedThen DEF CapsHold
<1>11. ASSUME NEW product \in Product PROVE Capped(next, product, Peak')
  <2>1. Capped(book, product, Peak)
    BY DEF CapsHold
  <2>2. CASE IsExit(o) /\ q = o.qty /\ Reduces(o, table[HoldingOf(o)].qty)
    <3>1. Signed(s) = Signed(o)
      BY <1>2, <2>2 DEF Signed
    <3>2. Reduces(s, book[HoldingOf(s)].qty)
      BY <1>2, <1>5, <2>2, <3>1 DEF Reduces
    <3> QED BY <1>2, <1>9, <2>1, <3>2, ExitFits
  <2>3. CASE ~IsExit(o) /\ p # NoProfile /\ q = Verdict(o, p, a) /\ o.price # 0 /\ a.now > 0
    <3>1. p \in RiskProfile /\ Verdict(o, p, a) > 0
      BY <1>1, <1>2, <2>3
    <3>2. ~Barred(o, p) /\ ~BarredBySlots(o, Slots(a, p)) /\ ~BarredByExposure(o, p, a, q)
      BY <2>3, <3>1, VerdictMeans
    <3>3. a.now <= Peak'
      BY <2>3, <3>2 DEF Recorded, p, a
    <3> HIDE DEF next, h
    <3>4. h = HoldingOf(o) /\ h = HoldingOf(s)
      BY <1>2 DEF h
    <3>5. Capped(Moved(book, HoldingOf(s), AtBroker(book[HoldingOf(s)], s)), product, Peak')
      BY <1>1, <1>2, <1>5, <1>9, <2>1, <2>3, <3>1, <3>2, <3>3, <3>4, EntryFits DEF p
    <3> QED BY <3>5 DEF next, h
  <2> QED BY <1>4, <2>2, <2>3
<1>12. ASSUME NEW product \in Product PROVE Capped(WithFill(i), product, Peak)'
  <2>1. WithFill(i)' = next
    BY <1>3, <1>6, WithFillThen
  <2> HIDE DEF next
  <2> QED BY <1>3, <1>11, <2>1 DEF Capped
<1> QED BY <1>7, <1>8, <1>10, <1>12 DEF CapsHold

LEMMA JudgeMeans ==
  ASSUME NEW i, NEW o, Execute(i, o)
  PROVE  /\ snaps' = (IF Recorded(o, Profile(o))
                      THEN [snaps EXCEPT ![DayOf(moment)] = Max({@, Account.peak})] ELSE snaps)
         /\ UNCHANGED <<risk, book, table, trips, moment>>
BY DEF Execute, Judge

\* Judging an order raises the equity on record to what it is.
LEMMA PeakAfter ==
  ASSUME RiskTypeOK, RiskTypeOK', NEW i, NEW o, Execute(i, o)
  PROVE  /\ Peak \in Nat /\ Peak' \in Nat /\ Peak <= Peak'
         /\ Recorded(o, Profile(o)) => Account.now <= Peak'
<1> DEFINE t == DayOf(moment)
           most == Account.peak
           now == Account.now
           r == Recorded(o, Profile(o))
           larger == Max({snaps[t], most})
<1>1. snaps' = IF r THEN [snaps EXCEPT ![t] = larger] ELSE snaps
  BY JudgeMeans
<1>2. most \in Nat /\ now \in Int /\ now <= most
  BY AccountTyped DEF RiskTypeOK
<1>3. /\ risk.bars \in Nat /\ moment \in Nat /\ moment <= risk.bars
      /\ snaps \in [0..DayOf(risk.bars) -> Nat]
  BY SettingsAssumption DEF RiskTypeOK
<1>4. t \in DOMAIN snaps /\ \A d \in DOMAIN snaps : snaps[d] \in Nat
  <2> DEFINE last == DayOf(risk.bars)
  <2>1. t \in Nat /\ last \in Nat /\ t <= last
    BY <1>3, DaysGrow
  <2>2. DOMAIN snaps = 0..last /\ \A d \in DOMAIN snaps : snaps[d] \in Nat
    BY <1>3
  <2> HIDE DEF t, last
  <2> QED BY <2>1, <2>2
<1> HIDE DEF t, most, now, r
<1>5. larger = IF snaps[t] >= most THEN snaps[t] ELSE most
  BY <1>2, <1>4, LargerOf
<1> HIDE DEF larger
<1>6. larger \in Nat /\ snaps[t] <= larger /\ now <= larger
  BY <1>2, <1>4, <1>5
<1>7. /\ DOMAIN snaps' = DOMAIN snaps /\ (r => snaps'[t] = larger)
      /\ \A d \in DOMAIN snaps : snaps[d] <= snaps'[d]
  BY <1>1, <1>4, <1>6
<1>8. Peak \in Nat /\ Peak' \in Nat /\ Peak <= Peak'
  BY <1>7, PeakGrows
<1>9. ASSUME r PROVE now <= Peak'
  <2>1. snaps'[t] <= Peak'
    BY <1>4, <1>7, PeakThen
  <2> QED BY <1>2, <1>6, <1>7, <1>8, <1>9, <2>1
<1> QED BY <1>8, <1>9 DEF now, r

LEMMA ExecuteCaps ==
  ASSUME RiskTypeOK, RiskTypeOK', OrdersStand, BookAddsUp, strays = {} => OneAtATime /\ CapsHold,
         NEW i \in Places, NEW o \in RiskOrder, o.status = "WAITING", Standing(o),
         i \in DOMAIN asked => o = asked[i], Execute(i, o), strays' = {}
  PROVE  OneAtATime' /\ CapsHold'
<1> DEFINE d == Decision(o, Profile(o), Account)
           r == [o EXCEPT !.status = "REJECTED_RISK"]
<1>1. ~Placed(o)
  BY DEF Standing
<1>2. /\ UNCHANGED <<risk, book, table, trips, moment>>
      /\ Loud(i, o, d.qty, d.sound) \/ (Quiet(i, r) /\ ~Placed(r) /\ r.status = "REJECTED_RISK")
  BY <1>1, ExecuteIs
<1>3. /\ Peak \in Nat /\ Peak' \in Nat /\ Peak <= Peak'
      /\ Recorded(o, Profile(o)) => Account.now <= Peak'
  BY PeakAfter
<1> HIDE DEF d, r
<1>4. CASE Loud(i, o, d.qty, d.sound)
  <2>1. d.sound /\ strays = {}
    BY <1>4 DEF Loud, Send
  <2>2. OneAtATime /\ CapsHold /\ d.qty = Decision(o, Profile(o), Account).qty
        /\ Decision(o, Profile(o), Account).sound
    BY <2>1 DEF d
  <2> QED BY <1>3, <1>4, <2>2, SentCaps
<1>5. CASE Quiet(i, r) /\ r.status = "REJECTED_RISK"
  <2>1. strays = {} /\ r \in RiskOrder /\ asked' = Stored(i, r) /\ r.status # "SENT"
    BY <1>5 DEF Quiet
  <2>2. UNCHANGED <<risk, book, table>>
    BY <1>2
  <2> QED BY <1>3, <2>1, <2>2, QuietCaps
<1> QED BY <1>2, <1>4, <1>5

LEMMA CapsNext ==
  ASSUME RiskTypeOK, OrdersStand, CapsInv, [RiskNext]_riskVars
  PROVE  CapsInv'
<1>0. RiskTypeOK'
  BY RiskTypedNext
<1>1. BookAddsUp' /\ BookAddsUp
  BY BookNext DEF CapsInv
<1>2. strays = {} => OneAtATime /\ CapsHold
  BY DEF CapsInv
<1> SUFFICES ASSUME strays' = {} PROVE OneAtATime' /\ CapsHold'
  BY <1>1 DEF CapsInv
<1>3. CASE \E i \in Places, o \in RiskOrder :
              /\ Timely(o) /\ Standing(o) /\ o.status = "WAITING" /\ (i \in DOMAIN asked => o = asked[i])
              /\ Execute(i, o)
  BY <1>0, <1>1, <1>2, <1>3, ExecuteCaps
<1>4. CASE \E deal \in risk.menu : Ask(deal) /\ Quiet(Len(asked) + 1, Blank(deal))
  <2>1. PICK deal \in risk.menu : Ask(deal) /\ Quiet(Len(asked) + 1, Blank(deal))
    BY <1>4
  <2>2. Blank(deal).status # "SENT"
    BY <2>1, BlankTyped
  <2>3. UNCHANGED <<risk, book, table, strays, snaps>>
    BY <2>1 DEF Ask
  <2>4. Peak' = Peak /\ Peak \in Nat
    BY <2>3, PeakTyped DEF Peak
  <2>5. Len(asked) + 1 \in Places /\ Blank(deal) \in RiskOrder /\ asked' = Stored(Len(asked) + 1, Blank(deal))
    BY <2>1 DEF Quiet
  <2>6. Peak' \in Nat /\ Peak <= Peak'
    BY <2>4
  <2>7. OneAtATime /\ CapsHold
    BY <1>2, <2>3
  <2> QED BY <2>2, <2>3, <2>5, <2>6, <2>7, QuietCaps
<1>5. CASE \E i \in DOMAIN asked : Lapsed(i) /\ Fills(i, "CANCELLED")
  <2>1. PICK i \in DOMAIN asked : Lapsed(i) /\ Fills(i, "CANCELLED")
    BY <1>5
  <2> DEFINE o == [asked[i] EXCEPT !.status = "CANCELLED"]
  <2>2. Quiet(i, o) /\ UNCHANGED <<risk, book, table, strays, snaps>> /\ asked[i] \in RiskOrder
    BY <2>1, AskedTyped DEF Fills, Lapsed
  <2>3. o.status = "CANCELLED"
    BY <2>2 DEF RiskOrder
  <2> HIDE DEF o
  <2>4. Peak' = Peak /\ Peak \in Nat
    BY <2>2, PeakTyped DEF Peak
  <2>5. i \in Places /\ o \in RiskOrder /\ asked' = Stored(i, o) /\ o.status # "SENT"
    BY <2>2, <2>3 DEF Quiet
  <2>6. Peak' \in Nat /\ Peak <= Peak'
    BY <2>4
  <2>7. OneAtATime /\ CapsHold
    BY <1>2, <2>2
  <2> QED BY <2>2, <2>5, <2>6, <2>7, QuietCaps
<1>6. CASE \E i \in DOMAIN asked : Filled(i) /\ Fills(i, "EXECUTED")
  <2>1. PICK i \in DOMAIN asked : Filled(i)
    BY <1>6
  <2>2. strays = {}
    BY <2>1 DEF Filled, Ends
  <2> QED BY <1>2, <2>1, <2>2, FilledCaps
<1>7. ASSUME UNCHANGED <<risk, asked, book, strays, snaps>>
      PROVE  CapsHold' /\ (table' = table => OneAtATime') /\ (table' = book => OneAtATime')
  <2>1. Peak' = Peak
    BY <1>7 DEF Peak
  <2>2. OneAtATime /\ CapsHold
    BY <1>2, <1>7
  <2>3. OneAtATime => (table' = table => OneAtATime') /\ (table' = book => OneAtATime')
    BY <1>7 DEF OneAtATime, Underway
  <2>4. \A i \in DOMAIN asked : WithFill(i)' = WithFill(i)
    BY <1>7, WithFillThen DEF WithFill
  <2>5. CapsHold'
    BY <1>7, <2>1, <2>2, <2>4 DEF CapsHold, Capped, Underway
  <2> QED BY <2>2, <2>3, <2>5
<1>8. SyncPositions => UNCHANGED <<risk, asked, book, strays, snaps>> /\ table' = book
  BY DEF SyncPositions
<1>9. RebuildTrades \/ NextBarPasses \/ UNCHANGED riskVars
        => UNCHANGED <<risk, asked, book, strays, snaps>> /\ table' = table
  BY DEF RebuildTrades, NextBarPasses, riskVars
<1> QED BY <1>3, <1>4, <1>5, <1>6, <1>7, <1>8, <1>9, RiskStepIs

LEMMA CapsInit == RiskInit => CapsInv
<1> SUFFICES ASSUME RiskInit PROVE CapsInv
  OBVIOUS
<1>1. RiskTypeOK
  BY RiskTypedInit
<1>2. DOMAIN asked = {} /\ table = book /\ \A h \in Holding : book[h].qty = 0
  BY EmptySeq, LenProperties DEF RiskInit
<1>3. OneAtATime
  BY <1>2 DEF OneAtATime
<1>4. ASSUME NEW h \in Holding PROVE book[h].qty = SumFunctionOnSet(SignedQty, FilledOf(h))
  <2>1. FilledOf(h) = {}
    BY <1>2 DEF FilledOf
  <2> QED BY <1>2, <2>1, SumNothing
<1>5. ASSUME NEW product \in Product PROVE Capped(book, product, Peak)
  <2> DEFINE ps == {ProfileIn(risk, src, product) : src \in Source}
  <2>1. HeldIn(book, product) = {}
    BY <1>2 DEF HeldIn
  <2>2. Cardinality(HeldIn(book, product)) = 0
    BY <2>1, FS_EmptySet
  <2>3. Exposure(book, product) = 0
    <3>1. \A h \in Holding : Cost(book)[h] = 0
      <4>1. ASSUME NEW h \in Holding PROVE Cost(book)[h] = 0
        <5>1. book[h].qty = 0 /\ book[h].avg = 0
          BY DEF RiskInit
        <5>2. Magnitude(0) * 0 = 0
          BY DEF Magnitude
        <5> QED BY <5>1, <5>2 DEF Cost
      <4> QED BY <4>1
    <3> DEFINE Zero == {0}
    <3>2. \A x, y \in Zero : x + y \in Zero
      OBVIOUS
    <3>3. OfProduct(product) \subseteq Holding /\ IsFiniteSet(OfProduct(product)) /\ 0 \in Zero
      BY HoldingsFinite DEF OfProduct
    <3>4. \A h \in OfProduct(product) : Cost(book)[h] \in Zero
      BY <3>1, <3>3
    <3> HIDE DEF Zero
    <3>5. SumFunctionOnSet(Cost(book), OfProduct(product)) \in Zero
      BY <3>2, <3>3, <3>4, SumStaysIn
    <3> QED BY <3>5 DEF Exposure, OfProduct, Zero
  <2>4. NoProfile \notin ps => \A p \in ps : p.slots \in Nat /\ p.exposure \in Nat
    <3>1. ps \subseteq RiskProfile \cup {NoProfile}
      BY <1>1, SettingsAssumption DEF RiskTypeOK
    <3> QED BY <3>1, ProfileFields
  <2>5. Peak \in Nat /\ "MANUAL" \in Source
    BY <1>1, PeakTyped DEF Source
  <2>6. ProfileIn(risk, "MANUAL", product) \in ps
    BY <2>5
  <2> DEFINE c == Cardinality(HeldIn(book, product))
             e == Exposure(book, product)
             m == Peak
  <2> HIDE DEF ps, c, e, m
  <2>7. c = 0 /\ e = 0 /\ m \in Nat
    BY <2>2, <2>3, <2>5 DEF c, e, m
  <2>8. ASSUME NoProfile \notin ps
        PROVE  (\E p \in ps : c <= p.slots) /\ \E p \in ps : 100 * e <= m * p.exposure
    <3>1. \A p \in ps : c <= p.slots
      BY <2>4, <2>7, <2>8
    <3>2. ASSUME NEW p \in ps PROVE 100 * e <= m * p.exposure
      <4>1. m * p.exposure \in Nat
        BY <2>4, <2>7, <2>8, IntProducts
      <4> DEFINE w == m * p.exposure
      <4> HIDE DEF w
      <4>2. 100 * e <= w
        BY <2>7, <4>1 DEF w
      <4> QED BY <4>2 DEF w
    <3> QED BY <2>6, <3>1, <3>2
  <2> QED BY <2>8 DEF Capped, CappedIn, ps, c, e, m
<1> QED BY <1>2, <1>3, <1>4, <1>5 DEF CapsInv, BookAddsUp, CapsHold

\* What the table and the broker hold follows from the orders, and as long as each
\* order was judged on a table in step, the one that is on its way is within the caps.
CapsAlwaysInv == RiskTypeOK /\ OrdersStand /\ CapsInv

\* The positions at the broker stay within the number and the exposure that the
\* settings allow, for every sequence of orders, fills, cancellations and syncs in
\* which each order was judged on a table in step (evaluate_order_risk in
\* risk_engine.py, sync_positions_from_zerodha).
THEOREM CapsAreKept == RiskSpec => []PositionsWithinCap
<1>1. RiskInit => CapsAlwaysInv
  BY RecordsInit, CapsInit DEF RecordsInv, CapsAlwaysInv
<1>2. CapsAlwaysInv /\ [RiskNext]_riskVars => CapsAlwaysInv'
  BY RiskTypedNext, StandingNext, CapsNext DEF CapsAlwaysInv
<1>3. CapsAlwaysInv => PositionsWithinCap
  BY CapIs DEF CapsAlwaysInv, CapsInv, CapsHold
<1> QED BY <1>1, <1>2, <1>3, PTL DEF RiskSpec

-----------------------------------------------------------------------------
(* What the round trips made is what the orders cost *)

\* The orders that begin round trips, and those that end them.
EntryIds == {t.entry : t \in trips}
ExitIds == {t.exit : t \in trips}

LEMMA UsedTyped ==
  ASSUME RiskTypeOK, TripsPairOff
  PROVE  /\ IsFiniteSet(trips) /\ IsFiniteSet(EntryIds) /\ IsFiniteSet(ExitIds)
         /\ Used = EntryIds \cup ExitIds /\ EntryIds \cap ExitIds = {}
         /\ EntryIds \subseteq DOMAIN asked /\ ExitIds \subseteq DOMAIN asked
         /\ \A t, u \in trips : (t.entry = u.entry => t = u) /\ (t.exit = u.exit => t = u)
         /\ \A t \in trips : Executed(asked[t.entry]) /\ Executed(asked[t.exit]) /\ t.exit > 0
                             /\ TripGain(t) \in Int
<1>1. asked \in Seq(RiskOrder) /\ trips \subseteq [entry : DOMAIN asked, exit : DOMAIN asked]
  BY DEF RiskTypeOK
<1>2. IsFiniteSet(trips) /\ \A t \in trips : TripGain(t) \in Int
  BY <1>1, TripsAreFinite
<1>3. /\ \A t \in trips : GoodTrip(t)
      /\ \A t, u \in trips : t # u => Apart(t, u)
  BY PairOffIs
<1>4. \A t \in trips : t.entry \in Nat \ {0} /\ t.exit \in Nat \ {0} /\ t.entry < t.exit
                       /\ t.entry \in DOMAIN asked /\ t.exit \in DOMAIN asked
  BY <1>1, <1>3, LenProperties DEF GoodTrip
<1>5. \A t, u \in trips : t # u => t.entry # u.entry /\ t.exit # u.exit /\ t.entry # u.exit
  BY <1>3 DEF Apart
<1>6. EntryIds \cap ExitIds = {}
  <2>1. ASSUME NEW t \in trips, NEW u \in trips, t.entry = u.exit PROVE FALSE
    BY <1>4, <1>5, <2>1
  <2> QED BY <2>1 DEF EntryIds, ExitIds
<1>7. IsFiniteSet(EntryIds) /\ IsFiniteSet(ExitIds)
  <2>1. EntryIds \subseteq DOMAIN asked /\ ExitIds \subseteq DOMAIN asked /\ IsFiniteSet(DOMAIN asked)
    BY <1>1, <1>4, SizesTyped DEF EntryIds, ExitIds
  <2> QED BY <2>1, FS_Subset
<1> QED BY <1>2, <1>3, <1>4, <1>5, <1>6, <1>7 DEF GoodTrip, EntryIds, ExitIds, Used

\* The sum of a function over the trips of T, as one over all of them.
LEMMA SumOfSome ==
  ASSUME NEW S, IsFiniteSet(S), NEW T \in SUBSET S, NEW f, NEW g, \A x \in S : f[x] \in Int,
         \A x \in T : g[x] = f[x], \A x \in S \ T : g[x] = 0
  PROVE  SumFunctionOnSet(g, S) = SumFunctionOnSet(f, T)
<1> DEFINE R == S \ T
           Zero == {0}
<1>1. IsFiniteSet(T) /\ IsFiniteSet(R) /\ T \cap R = {} /\ T \cup R = S
  BY FS_Subset
<1>2. \A x \in S : g[x] \in Int
  OBVIOUS
<1>3. \A x \in R : g[x] \in Zero
  OBVIOUS
<1>4. \A x, y \in Zero : x + y \in Zero
  OBVIOUS
<1>5. 0 \in Zero
  OBVIOUS
<1> HIDE DEF R, Zero
<1>6. SumFunctionOnSet(g, R) \in Zero
  BY <1>1, <1>3, <1>4, <1>5, SumStaysIn
<1>7. SumFunctionOnSet(g, T) = SumFunctionOnSet(f, T)
  <2>1. \A x \in T : f[x] \in Int /\ f[x] = g[x]
    OBVIOUS
  <2> QED BY <1>1, <2>1, SumSame
<1>8. SumFunctionOnSet(f, T) \in Int
  BY <1>1, SumIsInt
<1>9. SumFunctionOnSet(g, S) = SumFunctionOnSet(g, T) + SumFunctionOnSet(g, R)
  <2>1. \A x \in T \cup R : g[x] \in Int
    BY <1>1, <1>2
  <2>2. SumFunctionOnSet(g, T \cup R) = SumFunctionOnSet(g, T) + SumFunctionOnSet(g, R)
    BY <1>1, <2>1, SumUnites
  <2> QED BY <1>1, <2>2
<1> QED BY <1>6, <1>7, <1>8, <1>9 DEF Zero

LEMMA TripsSpend ==
  ASSUME RiskTypeOK, TripsPairOff, NEW T \in SUBSET trips, NEW M, \A i \in DOMAIN asked : M[i] \in Int,
         \A t \in T : M[t.entry] + M[t.exit] + TripGain(t) = 0,
         \A t \in trips \ T : M[t.entry] + M[t.exit] = 0
  PROVE  SumFunctionOnSet(M, Used) + GainOf(T) = 0 /\ GainOf(T) \in Int
<1> DEFINE m == [t \in trips |-> t.entry]
           n == [t \in trips |-> t.exit]
           f == [t \in trips |-> M[m[t]]]
           g == [t \in trips |-> M[n[t]]]
           e == [t \in trips |-> M[m[t]] + M[n[t]]]
           G == [t \in trips |-> TripGain(t)]
           H == [t \in trips |-> IF t \in T THEN TripGain(t) ELSE 0]
           Z == [t \in trips |-> e[t] + H[t]]
<1>1. /\ IsFiniteSet(trips) /\ IsFiniteSet(EntryIds) /\ IsFiniteSet(ExitIds)
      /\ Used = EntryIds \cup ExitIds /\ EntryIds \cap ExitIds = {}
      /\ EntryIds \subseteq DOMAIN asked /\ ExitIds \subseteq DOMAIN asked
      /\ \A t, u \in trips : (t.entry = u.entry => t = u) /\ (t.exit = u.exit => t = u)
      /\ \A t \in trips : TripGain(t) \in Int
  BY UsedTyped
<1>2. EntryIds = {m[t] : t \in trips} /\ ExitIds = {n[t] : t \in trips}
  BY DEF EntryIds, ExitIds
<1>3. /\ \A t, u \in trips : m[t] = m[u] => t = u
      /\ \A t, u \in trips : n[t] = n[u] => t = u
  BY <1>1
<1>4. (\A t \in trips : M[m[t]] \in Int) /\ (\A t \in trips : M[n[t]] \in Int)
  BY <1>1, <1>2
<1>5. \A t \in trips : f[t] = M[m[t]] /\ g[t] = M[n[t]] /\ e[t] = f[t] + g[t] /\ Z[t] = e[t] + H[t]
  OBVIOUS
<1>6. \A t \in trips : G[t] \in Int /\ H[t] \in Int /\ (t \in T => H[t] = G[t]) /\ (t \notin T => H[t] = 0)
  BY <1>1
<1>7. \A t \in trips : Z[t] = 0
  BY <1>4
<1>8. GainOf(T) = SumFunctionOnSet(G, T)
  BY DEF GainOf
<1> HIDE DEF e, G, H, Z
<1>9. /\ SumFunctionOnSet(f, trips) = SumFunctionOnSet(M, EntryIds)
      /\ SumFunctionOnSet(g, trips) = SumFunctionOnSet(M, ExitIds)
  <2> HIDE DEF m, n
  <2> QED BY <1>1, <1>2, <1>3, <1>4, SumMaps
<1> HIDE DEF f, g, m, n
<1>10. SumFunctionOnSet(M, Used) = SumFunctionOnSet(M, EntryIds) + SumFunctionOnSet(M, ExitIds)
  <2>1. \A i \in EntryIds \cup ExitIds : M[i] \in Int
    BY <1>1
  <2> QED BY <1>1, <2>1, SumUnites
<1>11. \A t \in trips : f[t] \in Int /\ g[t] \in Int /\ e[t] \in Int
  BY <1>4, <1>5
<1>12. SumFunctionOnSet(e, trips) = SumFunctionOnSet(f, trips) + SumFunctionOnSet(g, trips)
  BY <1>1, <1>5, <1>11, SumSplits
<1>13. SumFunctionOnSet(Z, trips) = SumFunctionOnSet(e, trips) + SumFunctionOnSet(H, trips)
  BY <1>1, <1>5, <1>6, <1>11, SumSplits
<1>14. SumFunctionOnSet(H, trips) = SumFunctionOnSet(G, T)
  BY <1>1, <1>6, SumOfSome
<1>15. SumFunctionOnSet(Z, trips) = 0
  <2> DEFINE Zero == {0}
  <2>1. (\A x, y \in Zero : x + y \in Zero) /\ 0 \in Zero /\ \A t \in trips : Z[t] \in Zero
    BY <1>7
  <2> HIDE DEF Zero
  <2>2. SumFunctionOnSet(Z, trips) \in Zero
    BY <1>1, <2>1, SumStaysIn
  <2> QED BY <2>2 DEF Zero
<1>16. SumFunctionOnSet(G, T) \in Int
  <2>1. IsFiniteSet(T) /\ \A t \in T : G[t] \in Int
    BY <1>1, <1>6, FS_Subset
  <2> QED BY <2>1, SumIsInt
<1> QED BY <1>8, <1>9, <1>10, <1>12, <1>13, <1>14, <1>15, <1>16

LEMMA TripMoney ==
  ASSUME RiskTypeOK, TripsPairOff, NEW t \in trips
  PROVE  Money[t.entry] + Money[t.exit] + TripGain(t) = 0 /\ Money[t.entry] \in Int /\ Money[t.exit] \in Int
<1> DEFINE o == asked[t.entry]
           p == asked[t.exit]
           q == p.qty
           x == o.price
           y == p.price
<1>1. t.entry \in DOMAIN asked /\ t.exit \in DOMAIN asked
  BY DEF RiskTypeOK
<1>2. o \in RiskOrder /\ p \in RiskOrder
  BY <1>1, AskedTyped
<1>3. o.qty = q /\ o.side # p.side
  BY DEF TripsPairOff, Matches
<1>4. q \in Nat /\ x \in Nat /\ y \in Nat
  BY <1>2, OrderFields
<1>5. o.side \in {"BUY", "SELL"} /\ p.side \in {"BUY", "SELL"}
  BY <1>2 DEF RiskOrder
<1>6. Money[t.entry] = Signed(o) * x /\ Money[t.exit] = Signed(p) * y
  BY <1>1 DEF Money
<1>7. /\ Signed(o) = (IF o.side = "BUY" THEN q ELSE -q)
      /\ Signed(p) = (IF o.side = "BUY" THEN -q ELSE q)
  BY <1>3, <1>5 DEF Signed
<1>8. TripGain(t) = (IF o.side = "BUY" THEN y - x ELSE x - y) * q
  BY DEF TripGain
<1>9. \A i, j, k \in Int : /\ i * j + (-i) * k + (k - j) * i = 0
                           /\ (-i) * j + i * k + (j - k) * i = 0
                           /\ i * j \in Int /\ (-i) * j \in Int
  OBVIOUS
<1> HIDE DEF o, p, q, x, y
<1> QED BY <1>4, <1>6, <1>7, <1>8, <1>9

\* The round trips that ended today, which the day's loss is made of.
TripsToday == {t \in trips : DayOf(asked[t.exit].made) = DayOf(moment)}
LEMMA AccountIs ==
  ASSUME RiskTypeOK, TripsPairOff
  PROVE  /\ Account.now = Baseline + GainOf(trips) /\ Account.today = GainOf(TripsToday)
         /\ Account.peak >= Baseline
         /\ Account.now \in Int /\ Account.peak \in Nat /\ Account.today \in Int /\ Baseline \in Nat \ {0}
<1> DEFINE E == [n \in 0..Len(asked) |-> EquityAfter(n)]
           S == {E[n] : n \in 0..Len(asked)}
<1>1. /\ asked \in Seq(RiskOrder) /\ trips \subseteq [entry : DOMAIN asked, exit : DOMAIN asked]
      /\ Len(asked) \in Nat /\ DOMAIN asked = 1..Len(asked)
  BY LenProperties DEF RiskTypeOK
<1>2. {t \in trips : t.exit <= Len(asked)} = trips
  BY <1>1
<1>3. {t \in trips : t.exit <= 0} = {}
  BY <1>1
<1>4. GainOf({}) = 0
  BY SumNothing DEF GainOf
<1>5. EquityAfter(0) = Baseline /\ EquityAfter(Len(asked)) = Baseline + GainOf(trips)
  <2>1. GainOf({t \in trips : t.exit <= 0}) = 0
    BY <1>3, <1>4
  <2>2. GainOf({t \in trips : t.exit <= Len(asked)}) = GainOf(trips)
    BY <1>2
  <2>3. EquityAfter(0) = Baseline + GainOf({t \in trips : t.exit <= 0})
    BY DEF EquityAfter
  <2>4. EquityAfter(Len(asked)) = Baseline + GainOf({t \in trips : t.exit <= Len(asked)})
    BY DEF EquityAfter
  <2> QED BY <2>1, <2>2, <2>3, <2>4, RiskAssumption
<1>6. \A n \in 0..Len(asked) : EquityAfter(n) \in Int
  BY <1>1, GainsTyped, RiskAssumption DEF EquityAfter
<1>7. IsFiniteSet(S) /\ S # {} /\ S \subseteq Int /\ E[0] \in S /\ E[0] = Baseline
  <2>1. IsFiniteSet(0..Len(asked)) /\ 0 \in 0..Len(asked)
    BY <1>1, FS_Interval
  <2>2. IsFiniteSet(S)
    <3> HIDE DEF E
    <3> QED BY <2>1, ImageIsFinite
  <2> QED BY <1>5, <1>6, <2>1, <2>2
<1>8. Account.peak = Max(S)
  <2>1. {EquityAfter(n) : n \in 0..Len(asked)} = S
    OBVIOUS
  <2> HIDE DEF S
  <2> QED BY <2>1 DEF Account
<1> HIDE DEF S, E
<1>9. Account.peak >= Baseline
  <2>1. Max(S) \in Int /\ E[0] <= Max(S)
    BY <1>7, LargestOf
  <2> QED BY <1>7, <1>8, <2>1, RiskAssumption
<1>10. Account.now = EquityAfter(Len(asked)) /\ Account.today = GainOf(TripsToday)
  BY DEF Account, TripsToday
<1> QED BY <1>1, <1>5, <1>9, <1>10, AccountTyped, RiskAssumption

\* With every order in a round trip, what was paid is what was lost.
LEMMA LossesArePaid ==
  ASSUME RiskTypeOK, OrdersStand, TripsPairOff, AllRecorded
  PROVE  /\ Account.now = Baseline - Tally(Placed, Paid) /\ Tally(Placed, Paid) \in Int
         /\ WithinDays => /\ Account.today = -Tally(LAMBDA x : Placed(x) /\ DayOf(x.made) = DayOf(moment), Paid)
                          /\ Tally(LAMBDA x : Placed(x) /\ DayOf(x.made) = DayOf(moment), Paid) \in Int
<1> DEFINE All == {i \in DOMAIN asked : Placed(asked[i])}
           Day == {i \in DOMAIN asked : Placed(asked[i]) /\ DayOf(asked[i].made) = DayOf(moment)}
           some == [i \in DOMAIN asked |-> IF i \in Day THEN Money[i] ELSE 0]
<1>1. asked \in Seq(RiskOrder)
  BY DEF RiskTypeOK
<1>2. \A i \in DOMAIN asked : Money[i] \in Int
  BY <1>1, OwnTyped
<1>3. All = Used
  <2>1. \A i \in DOMAIN asked : Executed(asked[i]) => Placed(asked[i])
    BY DEF OrdersStand, Standing, Executed
  <2>2. \A i \in Used : i \in DOMAIN asked /\ Executed(asked[i])
    <3>1. \A t \in trips : t.entry \in DOMAIN asked /\ t.exit \in DOMAIN asked
      BY DEF RiskTypeOK
    <3> QED BY <3>1, UsedTyped DEF Used
  <2> QED BY <2>1, <2>2 DEF AllRecorded
<1>4. Tally(Placed, Paid) = SumFunctionOnSet(Money, All)
  BY DEF Tally, Money, Paid
<1>5. Tally(LAMBDA x : Placed(x) /\ DayOf(x.made) = DayOf(moment), Paid) = SumFunctionOnSet(Money, Day)
  BY DEF Tally, Money, Paid
<1>6. SumFunctionOnSet(Money, Used) + GainOf(trips) = 0 /\ GainOf(trips) \in Int
  <2>1. \A t \in trips : Money[t.entry] + Money[t.exit] + TripGain(t) = 0
    BY TripMoney
  <2> QED BY <1>2, <2>1, TripsSpend
<1>7. IsFiniteSet(Used) /\ Used \subseteq DOMAIN asked
  <2>1. IsFiniteSet(EntryIds \cup ExitIds)
    BY UsedTyped, FS_Union
  <2> QED BY <2>1, UsedTyped
<1>8. SumFunctionOnSet(Money, Used) \in Int
  BY <1>2, <1>7, SumIsInt
<1>9. ASSUME WithinDays PROVE SumFunctionOnSet(Money, Day) + GainOf(TripsToday) = 0 /\ SumFunctionOnSet(Money, Day) \in Int
  <2>1. \A i \in DOMAIN asked : some[i] \in Int
    BY <1>2
  <2>2. \A t \in trips : /\ t.entry \in All /\ t.exit \in All
                         /\ t.entry \in Day <=> t \in TripsToday
                         /\ t.exit \in Day <=> t \in TripsToday
    <3>1. \A t \in trips : t.entry \in Used /\ t.exit \in Used
      BY DEF Used
    <3> QED BY <1>3, <1>9, <3>1 DEF WithinDays, TripsToday
  <2>3. TripsToday \in SUBSET trips
    BY DEF TripsToday
  <2>4. ASSUME NEW t \in trips
        PROVE  /\ t \in TripsToday => some[t.entry] + some[t.exit] + TripGain(t) = 0
               /\ t \notin TripsToday => some[t.entry] + some[t.exit] = 0
    <3>1. /\ t.entry \in DOMAIN asked /\ t.exit \in DOMAIN asked
          /\ t.entry \in Day <=> t \in TripsToday
          /\ t.exit \in Day <=> t \in TripsToday
      BY <2>2
    <3>2. Money[t.entry] + Money[t.exit] + TripGain(t) = 0
      BY TripMoney
    <3> HIDE DEF Day
    <3> QED BY <3>1, <3>2
  <2>5. Day \in SUBSET Used
    BY <1>3
  <2>6. /\ \A i \in Used : Money[i] \in Int
        /\ \A i \in Day : some[i] = Money[i]
        /\ \A i \in Used \ Day : some[i] = 0
    BY <1>2, <1>7
  <2> HIDE DEF some, Day
  <2>7. SumFunctionOnSet(some, Used) + GainOf(TripsToday) = 0
    BY <2>1, <2>3, <2>4, TripsSpend
  <2>8. SumFunctionOnSet(some, Used) = SumFunctionOnSet(Money, Day)
    BY <1>7, <2>5, <2>6, SumOfSome
  <2>9. SumFunctionOnSet(Money, Day) \in Int
    BY <1>7, <2>5, <2>6, FS_Subset, SumIsInt
  <2> QED BY <2>7, <2>8, <2>9
<1> HIDE DEF All, Day
<1>10. Account.now = Baseline + GainOf(trips) /\ Account.today = GainOf(TripsToday)
       /\ Account.today \in Int /\ Baseline \in Int
  BY AccountIs
<1>11. Account.now = Baseline - Tally(Placed, Paid) /\ Tally(Placed, Paid) \in Int
  BY <1>3, <1>4, <1>6, <1>8, <1>10
<1>12. WithinDays => /\ Account.today = -SumFunctionOnSet(Money, Day) /\ SumFunctionOnSet(Money, Day) \in Int
  BY <1>9, <1>10
<1> QED BY <1>5, <1>11, <1>12

\* What the orders of today cost, and all orders.
PaidToday == SumFunctionOnSet(Money, {i \in DOMAIN asked : Placed(asked[i]) /\ DayOf(asked[i].made) = DayOf(moment)})
PaidInAll == SumFunctionOnSet(Money, {i \in DOMAIN asked : Placed(asked[i])})

LEMMA PaidIs ==
  /\ Tally(Placed, Paid) = PaidInAll
  /\ Tally(LAMBDA x : Placed(x) /\ DayOf(x.made) = DayOf(moment), Paid) = PaidToday
BY DEF Tally, Money, Paid, PaidToday, PaidInAll

LEMMA PaidIsLost ==
  ASSUME RiskTypeOK, OrdersStand, TripsPairOff, AllRecorded
  PROVE  /\ Account.now = Baseline - PaidInAll /\ PaidInAll \in Int
         /\ WithinDays => Account.today = -PaidToday /\ PaidToday \in Int
BY LossesArePaid, PaidIs

\* What the limits leave room for, of a loss in all and a loss of the day.
LEMMA LimitsMean ==
  ASSUME NEW p \in RiskProfile, NEW o, NEW a, a.peak \in Nat, a.peak >= Baseline, a.today \in Int,
         ~BarredByLosses(o, p, a, DrawdownState(a, p))
  PROVE  /\ \A day \in Int : a.today = -day /\ p.daily > 0 => 100 * day < p.daily * Baseline
         /\ \A all \in Int : a.now = Baseline - all /\ p.hard \in 1..100 => 100 * all < p.hard * Baseline
<1>1. Baseline \in Nat /\ Baseline > 0 /\ p.daily \in Nat /\ p.hard \in Nat
  BY ProfileFields, RiskAssumption
<1>2. \A i, j \in Nat : i > 0 /\ j > 0 => i * j \in Nat /\ i * j > 0
  OBVIOUS
<1>3. ASSUME NEW day \in Int, a.today = -day, p.daily > 0 PROVE 100 * day < p.daily * Baseline
  <2> DEFINE limit == p.daily * Baseline
             least == Min({0, a.today})
  <2>1. limit \in Nat /\ limit > 0
    BY <1>1, <1>2, <1>3
  <2>2. ~(100 * Magnitude(least) >= limit)
    BY <1>3 DEF BarredByLosses
  <2>3. least = IF 0 <= a.today THEN 0 ELSE a.today
    <3>1. \A d \in Int : Min({0, d}) = IF 0 <= d THEN 0 ELSE d
      BY LargerOf
    <3> QED BY <3>1
  <2> HIDE DEF limit, least
  <2>4. 100 * day < limit
    BY <1>3, <2>1, <2>2, <2>3 DEF Magnitude
  <2> QED BY <2>4 DEF limit
<1>4. ASSUME NEW all \in Int, a.now = Baseline - all, p.hard \in 1..100 PROVE 100 * all < p.hard * Baseline
  <2>1. ~FellBy(a, p.hard)
    BY DEF BarredByLosses, DrawdownState
  <2>2. ~((a.peak - a.now) * 100 >= p.hard * a.peak)
    BY <1>4, <2>1 DEF FellBy
  <2> DEFINE over == a.peak - Baseline
             more == p.hard * over
             limit == p.hard * Baseline
  <2>3. over \in Nat /\ a.peak = Baseline + over
    BY <1>1
  <2>4. \A h, b, e \in Nat : h <= 100 => h * (b + e) = h * b + h * e /\ h * e <= 100 * e /\ h * e \in Nat /\ h * b \in Nat
    OBVIOUS
  <2> HIDE DEF over
  <2>5. p.hard * a.peak = limit + more /\ more <= 100 * over /\ more \in Nat /\ limit \in Nat
    BY <1>1, <1>4, <2>3, <2>4
  <2> HIDE DEF more, limit
  <2>6. ~((over + all) * 100 >= limit + more)
    BY <1>1, <1>4, <2>2, <2>3, <2>5
  <2>7. 100 * all < limit
    BY <1>1, <2>3, <2>5, <2>6
  <2> QED BY <2>7 DEF limit
<1> QED BY <1>3, <1>4

\* An entry of which the risk engine has made a quantity.
LEMMA EntryMeans ==
  ASSUME RiskTypeOK, NEW o \in RiskOrder, NEW p \in RiskProfile, NEW a, p # NoProfile,
         ~IsExit(o), ~(o.src = "MANUAL" /\ risk.manual_override), Decision(o, p, a).qty # 0
  PROVE  ~BarredByLosses(o, p, a, DrawdownState(a, p))
<1>2. Decision(o, p, a).qty = Verdict(o, p, a)
  <2> DEFINE v == Verdict(o, p, a)
             s == TableInStep /\ o.price # 0 /\ a.now > 0
  <2>1. Decision(o, p, a) = [qty |-> v, sound |-> s]
    BY DEF Decision
  <2> HIDE DEF v, s
  <2> QED BY <2>1 DEF v
<1>3. Verdict(o, p, a) > 0
  <2>1. Decision(o, p, a).qty \in Nat
    BY DecisionTyped DEF RiskTypeOK
  <2> QED BY <1>2, <2>1
<1> QED BY <1>3, VerdictMeans

\* An exit is sent for what it was asked for.
LEMMA ExitMeans ==
  ASSUME NEW o, NEW p, NEW a, IsExit(o)
  PROVE  Decision(o, p, a).qty = o.qty
<1> DEFINE s == TableInStep /\ Reduces(o, table[HoldingOf(o)].qty)
<1>1. Decision(o, p, a) = [qty |-> o.qty, sound |-> s]
  BY DEF Decision
<1> HIDE DEF s
<1> QED BY <1>1

LEMMA SentHeeds ==
  ASSUME RiskTypeOK, OrdersStand, TripsPairOff, NEW o \in RiskOrder, NEW q \in Nat \ {0},
         q = Decision(o, Profile(o), Account).qty, NEW s, s = SentNow(o, q), ~IsExit(s)
  PROVE  HeedsLosses(s)
<1> DEFINE p == Profile(o)
           a == Account
<1>1. /\ s.qty = q /\ s.price = o.price /\ s.side = o.side /\ HoldingOf(s) = HoldingOf(o)
      /\ s.src = o.src /\ s.product = o.product /\ s.exit = o.exit
  <2>1. moment \in Nat
    BY SettingsAssumption DEF RiskTypeOK
  <2> QED BY <2>1, SentIs
<1>2. ~IsExit(o)
  <2>1. SUFFICES ASSUME IsExit(o) PROVE FALSE
    OBVIOUS
  <2>2. s.qty = o.qty
    BY <1>1, <2>1, ExitMeans
  <2> QED BY <1>1, <2>1, <2>2 DEF IsExit, Signed
<1>3. Profile(s) = p
  BY <1>1 DEF Profile
<1>4. p \in RiskProfile \cup {NoProfile}
  BY ProfileTyped DEF RiskTypeOK
<1>5. ASSUME p # NoProfile, AllRecorded, ~(risk.manual_override /\ s.src = "MANUAL")
      PROVE  /\ p.daily > 0 /\ WithinDays => 100 * PaidToday < p.daily * Baseline
             /\ p.hard \in 1..100 => 100 * PaidInAll < p.hard * Baseline
  <2>1. ~BarredByLosses(o, p, a, DrawdownState(a, p))
    <3>1. p \in RiskProfile /\ ~(o.src = "MANUAL" /\ risk.manual_override) /\ Decision(o, p, a).qty # 0
      BY <1>1, <1>4, <1>5
    <3> HIDE DEF p, a
    <3> QED BY <1>2, <1>5, <3>1, EntryMeans
  <2>2. a.peak \in Nat /\ a.peak >= Baseline /\ a.today \in Int
    BY AccountIs
  <2>3. /\ a.now = Baseline - PaidInAll /\ PaidInAll \in Int
        /\ WithinDays => a.today = -PaidToday /\ PaidToday \in Int
    BY <1>5, PaidIsLost
  <2>4. p \in RiskProfile
    BY <1>4, <1>5
  <2> HIDE DEF p, a
  <2>5. /\ \A day \in Int : a.today = -day /\ p.daily > 0 => 100 * day < p.daily * Baseline
        /\ \A all \in Int : a.now = Baseline - all /\ p.hard \in 1..100 => 100 * all < p.hard * Baseline
    BY <2>1, <2>2, <2>4, LimitsMean
  <2> QED BY <2>3, <2>5
<1> HIDE DEF p, a
<1> QED BY <1>3, <1>5, PaidIs DEF HeedsLosses

LEMMA LossesHeeded ==
  ASSUME RiskTypeOK, OrdersStand, TripsPairOff, [RiskNext]_riskVars, NEW j \in DOMAIN asked', EntrySent(j)
  PROVE  HeedsLosses(asked'[j])
<1>1. asked \in Seq(RiskOrder) /\ Len(asked) \in Nat /\ DOMAIN asked = 1..Len(asked)
  BY LenProperties DEF RiskTypeOK
<1>2. Placed(asked'[j]) /\ (j \in DOMAIN asked => ~Placed(asked[j])) /\ ~IsExit(asked'[j])
  BY <1>1 DEF EntrySent
<1>3. ASSUME NEW i, NEW o, Quiet(i, o) PROVE FALSE
  <2>1. i \in Places /\ o \in RiskOrder /\ asked' = Stored(i, o)
    BY <1>3 DEF Quiet
  <2>2. /\ DOMAIN asked' = DOMAIN asked \cup {i} /\ asked'[i] = o
        /\ \A k \in DOMAIN asked : k # i => asked'[k] = asked[k]
    BY <1>1, <2>1, StoredFact
  <2> QED BY <1>2, <1>3, <2>2 DEF Quiet
<1>4. ASSUME NEW i \in Places, NEW o \in RiskOrder, o.status = "WAITING", Standing(o),
             i \in DOMAIN asked => o = asked[i], Execute(i, o)
      PROVE  HeedsLosses(asked'[j])
  <2> DEFINE d == Decision(o, Profile(o), Account)
             r == [o EXCEPT !.status = "REJECTED_RISK"]
             s == SentNow(o, d.qty)
  <2>1. Loud(i, o, d.qty, d.sound) \/ Quiet(i, r)
    <3>1. ~Placed(o)
      BY <1>4 DEF Standing
    <3> QED BY <1>4, <3>1, ExecuteIs
  <2>2. Loud(i, o, d.qty, d.sound)
    <3> HIDE DEF d, r
    <3> QED BY <1>3, <2>1
  <2>3. d.qty \in Nat \ {0} /\ asked' = Stored(i, s) /\ s \in RiskOrder
    <3>1. d.qty \in Nat \ {0}
      BY <2>2 DEF Loud
    <3> HIDE DEF d
    <3> QED BY <2>2, <3>1, LoudStands
  <2> HIDE DEF s
  <2>4. /\ DOMAIN asked' = DOMAIN asked \cup {i} /\ asked'[i] = s
        /\ \A k \in DOMAIN asked : k # i => asked'[k] = asked[k]
    BY ZenonT(60), <1>1, <2>3, StoredFact
  <2>5. asked'[j] = s /\ ~IsExit(s)
    BY <1>2, <2>4
  <2>6. HeedsLosses(s)
    <3> HIDE DEF d
    <3>1. d.qty = Decision(o, Profile(o), Account).qty
      BY DEF d
    <3> QED BY <2>3, <2>5, <3>1, SentHeeds DEF s
  <2> QED BY <2>5, <2>6
<1>5. CASE asked' = asked
  BY <1>2, <1>5
<1>6. SyncPositions \/ RebuildTrades \/ NextBarPasses \/ UNCHANGED riskVars => asked' = asked
  BY DEF SyncPositions, RebuildTrades, NextBarPasses, riskVars
<1>7. ASSUME NEW i, NEW status, Fills(i, status) PROVE FALSE
  BY <1>3, <1>7 DEF Fills
<1> QED BY <1>3, <1>4, <1>5, <1>6, <1>7, RiskStepIs

\* Whatever was traded before, execute_order_internal sends no entry once the money
\* really lost has reached the day's limit or the hard stop, if all orders are filled
\* and rebuild_trades has recorded them (evaluate_order_risk,
\* compute_portfolio_pnl_state).
THEOREM EntriesHeedLosses == RiskSpec => EntriesStopAfterLosses
<1>1. RecordsInv /\ [RiskNext]_riskVars => \A i \in DOMAIN asked' : EntrySent(i) => HeedsLosses(asked'[i])
  BY LossesHeeded DEF RecordsInv
<1> QED BY <1>1, RecordsAlways, PTL DEF RiskSpec, EntriesStopAfterLosses
=============================================================================
