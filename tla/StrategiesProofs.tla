--------------------------- MODULE StrategiesProofs ---------------------------
(* Theorems about CandleStore, DeploymentScheduler and Backtests, for every    *)
(* value of their constants, and about MCStrategies, which puts the strategies *)
(* side by side: what is missing of the candles is known, the bars of a        *)
(* deployment are emitted without gap or overlap, and what a backtest reports  *)
(* its trades can explain.                                                     *)
EXTENDS MCStrategies, RiskProofs

-----------------------------------------------------------------------------
(* Candles: the inductive invariant                                           *)

\* What is still to be fetched under the lock.
Rest(load) == Between(load.at, Head(load.segs)[2])
              \cup (IF Len(load.segs) = 2 THEN Between(load.segs[2][1], load.segs[2][2]) ELSE {})
Begun(load) == load.at # Head(load.segs)[1]

\* Everything of B between two bars of A.
Patched(A, B) == \A x, y \in A, b \in CandleBar : x < b /\ b < y => b \in B

LoadOp == {"read", "auto", "hydrate", "tail", "sync"}
LoadType == [pc : {"idle", "wait", "fetch"}, op : LoadOp, from : Int, upto : Int,
             segs : Seq(Int \X Int), at : Int, has : SUBSET CandleBar]
CandleTyped ==
  /\ feed \in Feeds /\ wall \in FirstNow..LastNow
  /\ candles \subseteq CandleBar /\ unmet \subseteq CandleBar /\ holes \subseteq CandleBar
  /\ histLock \in Loader \cup {Unheld}
  /\ loads \in [Loader -> LoadType]
  /\ outages \in 0..MaxOutages
  /\ \A c \in candles : 2 * c <= wall

\* The pieces that remain, in order, and within the time.
Ordered(load) ==
  LET segs == load.segs IN
  /\ Len(segs) \in {1, 2}
  /\ \A i \in 1..Len(segs) : segs[i][1] < segs[i][2] /\ segs[i][2] <= wall
  /\ segs[1][1] <= load.at /\ load.at < segs[1][2]
  /\ load.op = "hydrate" => segs = <<<<load.from, load.upto>>>>
  /\ Len(segs) = 2 => segs[1][2] < segs[2][1] /\ \A c \in candles : 2 * c < segs[2][1]

\* The one that holds the lock knows all candles; what it does not know to be
\* missing and is not stored, inside the store or its window, it is about to fetch.
Fetching(load) ==
  /\ Ordered(load)
  /\ load.has = candles
  /\ ~Begun(load) => Patched(candles, candles \cup holes)
  /\ Begun(load) \/ load.op # "hydrate"
       => Patched(candles \cup Rest(load), candles \cup holes \cup Rest(load))
  /\ Between(load.from, load.upto) \subseteq candles \cup holes \cup Rest(load)

CandleInv ==
  /\ CandleTyped
  /\ \A r \in Loader : (loads[r].pc = "fetch") = (histLock = r)
  /\ \A r \in Loader : loads[r].pc = "fetch" => Fetching(loads[r])
  /\ histLock = Unheld => Patched(candles, candles \cup holes)
  /\ unmet \subseteq candles \cup holes

-----------------------------------------------------------------------------
(* Candles: the earliest and the latest one                                   *)

\* A set of natural numbers has a smallest one, one within a bound a greatest.
LEMMA Smallest ==
  ASSUME NEW S \in SUBSET Nat, S # {}
  PROVE  \E m \in S : \A n \in S : m <= n
<1>1. PICK m \in S : \A n \in S : <<n, m>> \notin OpToRel(<, Nat)
  BY NatLessThanWellFounded, WFMin
<1>2. \A n \in S : ~ (n < m)
  BY <1>1, Zenon DEF OpToRel
<1> QED BY <1>2

LEMMA Greatest ==
  ASSUME NEW N \in Nat, NEW S \in SUBSET (0..N), S # {}
  PROVE  \E m \in S : \A n \in S : m >= n
<1> DEFINE above == {k \in Nat : \A n \in S : k >= n}
<1>1. N \in above
  OBVIOUS
<1>2. PICK k \in above : \A j \in above : k <= j
  <2>1. above \in SUBSET Nat /\ above # {}
    BY <1>1
  <2> HIDE DEF above
  <2> QED BY <2>1, Smallest
<1>3. k \in S
  <2>1. SUFFICES ASSUME k \notin S PROVE FALSE
    OBVIOUS
  <2>2. PICK n \in S : TRUE
    OBVIOUS
  <2>3. k > n /\ n >= 0
    BY <2>1, <2>2
  <2>4. k - 1 \in above
    BY <2>1, <2>3
  <2> QED BY <2>4, <1>2
<1> QED BY <1>3

LEMMA LastBarFact == LastNow \div 2 \in Nat /\ CandleBar = 0..(LastNow \div 2)
BY NowAssumption DEF CandleBar

\* What ensure_history asks the store for.
LEMMA Extremes ==
  ASSUME NEW C \in SUBSET CandleBar, C # {}
  PROVE  /\ Min(C) \in C /\ \A c \in C : Min(C) <= c
         /\ Max(C) \in C /\ \A c \in C : c <= Max(C)
<1>1. C \in SUBSET Nat
  BY LastBarFact
<1>2. \E m \in C : \A n \in C : m <= n
  BY <1>1, Smallest
<1>3. \E m \in C : \A n \in C : m >= n
  BY LastBarFact, Greatest
<1>4. Min(C) \in C /\ \A c \in C : Min(C) <= c
  BY <1>2 DEF Min
<1>5. Max(C) \in C /\ \A c \in C : Max(C) >= c
  BY <1>3 DEF Max
<1> QED BY <1>1, <1>4, <1>5

LEMMA BetweenFact ==
  ASSUME NEW a \in Int, NEW z \in Int
  PROVE  /\ Between(a, z) \subseteq CandleBar
         /\ \A b \in CandleBar : b \in Between(a, z) <=> a <= 2 * b /\ 2 * b <= z
BY DEF Between

LEMMA CandleBarInt == CandleBar \subseteq Int
BY LastBarFact

-----------------------------------------------------------------------------
(* Candles: the steps of the requests and of the clock                        *)

LEMMA NoLoadType == NoLoad \in LoadType /\ NoLoad.pc = "idle"
BY DEF NoLoad, LoadType, LoadOp

LEMMA WaitingType ==
  ASSUME NEW op \in LoadOp, NEW from \in Int, NEW upto \in Int
  PROVE  Waiting(op, from, upto) \in LoadType /\ Waiting(op, from, upto).pc = "wait"
BY NoLoadType DEF Waiting, LoadType, NoLoad

LEMMA CandleInitHolds == CandleInit => CandleInv
<1> SUFFICES ASSUME CandleInit PROVE CandleInv
  OBVIOUS
<1>1. CandleTyped
  BY NoLoadType, NowAssumption DEF CandleInit, CandleTyped
<1>2. \A r \in Loader : loads[r].pc = "idle" /\ histLock # r
  BY NoLoadType, NowAssumption DEF CandleInit
<1>3. Patched(candles, candles \cup holes)
  BY DEF CandleInit, Patched
<1> QED BY <1>1, <1>2, <1>3 DEF CandleInv, CandleInit

\* A step that leaves the store alone, and of the loads only one that does not fetch.
LEMMA AskingKeeps ==
  ASSUME CandleInv, NEW r \in Loader, NEW new \in LoadType, loads[r].pc # "fetch", new.pc # "fetch",
         loads' = [loads EXCEPT ![r] = new], unmet' \subseteq candles \cup holes,
         unmet' \subseteq CandleBar,
         UNCHANGED <<feed, wall, candles, histLock, holes, outages>>
  PROVE  CandleInv'
<1>1. CandleTyped'
  BY DEF CandleInv, CandleTyped
<1>2. \A q \in Loader : (loads'[q].pc = "fetch") = (histLock' = q)
  BY DEF CandleInv, CandleTyped
<1>3. \A q \in Loader : loads'[q].pc = "fetch" => Fetching(loads[q])' /\ loads'[q] = loads[q]
  <2>1. SUFFICES ASSUME NEW q \in Loader, loads'[q].pc = "fetch"
                 PROVE  Fetching(loads[q])' /\ loads'[q] = loads[q]
    OBVIOUS
  <2>2. q # r /\ loads'[q] = loads[q]
    BY <2>1 DEF CandleInv, CandleTyped
  <2>3. Fetching(loads[q])
    BY <2>1, <2>2 DEF CandleInv
  <2> QED BY <2>2, <2>3 DEF Fetching, Ordered
<1>4. histLock' = Unheld => Patched(candles, candles \cup holes)'
  BY DEF CandleInv, Patched
<1> QED BY <1>1, <1>2, <1>3, <1>4 DEF CandleInv

LEMMA TailOfType ==
  ASSUME CandleInv, NEW from \in Int, NEW upto \in Int
  PROVE  TailOf(from, upto) \in LoadType /\ TailOf(from, upto).pc # "fetch"
<1>1. upto - TailGap \in Int /\ "tail" \in LoadOp
  BY SpanAssumption DEF LoadOp
<1> QED BY <1>1, NoLoadType, WaitingType DEF TailOf

LEMMA AsksKeep ==
  ASSUME CandleInv, NEW r \in Reader, NEW w \in Spans,
         (\E op \in {"read", "auto", "hydrate"} : AskFor(r, op, w)) \/ AskTail(r, w)
  PROVE  CandleInv'
<1>1. w[1] \in Int /\ w[2] \in Int /\ wall \in Int /\ r \in Loader
  BY SpanAssumption, NowAssumption DEF CandleInv, CandleTyped, Loader
<1>2. unmet \subseteq CandleBar /\ unmet \subseteq candles \cup holes
  BY DEF CandleInv, CandleTyped
<1>3. CASE AskTail(r, w)
  <2>1. TailOf(w[1], wall) \in LoadType /\ TailOf(w[1], wall).pc # "fetch"
    BY <1>1, TailOfType
  <2> QED BY <1>1, <1>2, <1>3, <2>1, AskingKeeps DEF AskTail
<1>4. CASE \E op \in {"read", "auto", "hydrate"} : AskFor(r, op, w)
  <2>1. PICK op \in {"read", "auto", "hydrate"} : AskFor(r, op, w)
    BY <1>4
  <2> DEFINE upto == IF op = "read" THEN w[2] ELSE wall
  <2>2. Waiting(op, w[1], upto) \in LoadType /\ Waiting(op, w[1], upto).pc = "wait"
    <3>1. op \in LoadOp /\ upto \in Int
      BY <1>1 DEF LoadOp
    <3> QED BY <1>1, <3>1, WaitingType
  <2>3. loads' = [loads EXCEPT ![r] = Waiting(op, w[1], upto)] /\ loads[r].pc = "idle"
    BY <2>1 DEF AskFor
  <2>4. UNCHANGED <<feed, wall, candles, histLock, unmet, holes, outages>>
    BY <2>1 DEF AskFor
  <2> HIDE DEF upto
  <2> QED BY <1>1, <1>2, <2>2, <2>3, <2>4, AskingKeeps
<1> QED BY <1>3, <1>4

LEMMA SyncKeeps == ASSUME CandleInv, SyncOnce PROVE CandleInv'
<1> DEFINE latest == IF candles = {} THEN wall - Keep ELSE Most(2 * Max(candles), wall - Keep)
<1>1. wall \in Int /\ Syncer \in Loader /\ "sync" \in LoadOp
  BY NowAssumption DEF CandleInv, CandleTyped, Loader, LoadOp
<1>2. latest \in Int
  <2>1. CASE candles = {}
    BY <2>1, <1>1, SpanAssumption
  <2>2. CASE candles # {}
    <3>1. Max(candles) \in Int
      BY <2>2, Extremes, CandleBarInt DEF CandleInv, CandleTyped
    <3> QED BY <2>2, <3>1, <1>1, SpanAssumption DEF Most
  <2> QED BY <2>1, <2>2
<1>3. /\ loads' = [loads EXCEPT ![Syncer] = Waiting("sync", latest, wall)] /\ loads[Syncer].pc = "idle"
      /\ UNCHANGED <<feed, wall, candles, histLock, unmet, holes, outages>>
  BY DEF SyncOnce
<1> HIDE DEF latest
<1>4. Waiting("sync", latest, wall) \in LoadType /\ Waiting("sync", latest, wall).pc = "wait"
  BY <1>1, <1>2, WaitingType
<1>5. unmet \subseteq CandleBar /\ unmet \subseteq candles \cup holes
  BY DEF CandleInv, CandleTyped
<1> QED BY <1>1, <1>3, <1>4, <1>5, AskingKeeps

LEMMA TickKeeps == ASSUME CandleInv, Tick PROVE CandleInv'
<1>1. wall \in FirstNow..LastNow /\ wall' \in FirstNow..LastNow /\ wall < wall' /\ wall \in Int /\ wall' \in Int
  BY NowAssumption DEF CandleInv, CandleTyped, Tick
<1>2. UNCHANGED <<feed, candles, histLock, loads, unmet, holes, outages>>
  BY DEF Tick
<1>3. CandleTyped'
  <2>1. \A c \in candles : 2 * c <= wall'
    BY <1>1, CandleBarInt DEF CandleInv, CandleTyped
  <2> QED BY <1>1, <1>2, <2>1 DEF CandleInv, CandleTyped
<1>4. ASSUME NEW r \in Loader, loads[r].pc = "fetch" PROVE Fetching(loads[r])'
  <2>1. Fetching(loads[r]) /\ loads[r].segs \in Seq(Int \X Int)
    BY <1>4 DEF CandleInv, CandleTyped, LoadType
  <2>2. Ordered(loads[r])'
    <3>1. \A i \in 1..Len(loads[r].segs) : loads[r].segs[i][2] <= wall /\ loads[r].segs[i][2] \in Int
      BY <2>1 DEF Fetching, Ordered
    <3>2. \A i \in 1..Len(loads[r].segs) : loads[r].segs[i][2] <= wall'
      BY <3>1, <1>1
    <3> QED BY <2>1, <3>2, <1>2 DEF Fetching, Ordered
  <2> QED BY <2>1, <2>2, <1>2 DEF Fetching
<1> QED BY <1>2, <1>3, <1>4 DEF CandleInv, Patched

-----------------------------------------------------------------------------
(* Candles: what ensure_history decides                                       *)

\* The pieces before and after what is stored, as far as the window has them.
Before(from, S) == IF from < 2 * Min(S) - 1 THEN Between(from, 2 * Min(S) - 1) ELSE {}
After(upto, S) == IF 2 * Max(S) + 1 < upto THEN Between(2 * Max(S) + 1, upto) ELSE {}

LEMMA AroundStore ==
  ASSUME candles \subseteq CandleBar, candles # {}, NEW from \in Int, NEW upto \in Int,
         Patched(candles, candles \cup holes)
  PROVE  LET R == Before(from, candles) \cup After(upto, candles)
         IN  /\ Patched(candles \cup R, candles \cup holes \cup R)
             /\ from < upto => Between(from, upto) \subseteq candles \cup holes \cup R
<1> DEFINE lo == Min(candles) hi == Max(candles)
           R1 == Before(from, candles) R2 == After(upto, candles)
<1>1. /\ lo \in candles /\ hi \in candles /\ lo \in Int /\ hi \in Int
      /\ \A c \in candles : lo <= c /\ c <= hi
  BY Extremes, CandleBarInt
<1>2. \A b \in CandleBar : lo <= b /\ b <= hi => b \in candles \cup holes
  <2>1. SUFFICES ASSUME NEW b \in CandleBar, lo <= b, b <= hi, b # lo, b # hi
                 PROVE  b \in candles \cup holes
    BY <1>1
  <2>2. lo < b /\ b < hi
    BY <1>1, <2>1, CandleBarInt
  <2> QED BY <1>1, <2>2 DEF Patched
<1>3. \A b \in CandleBar : b \in R1 <=> from < 2 * lo - 1 /\ from <= 2 * b /\ 2 * b <= 2 * lo - 1
  BY <1>1, BetweenFact DEF Before
<1>4. \A b \in CandleBar : b \in R2 <=> 2 * hi + 1 < upto /\ 2 * hi + 1 <= 2 * b /\ 2 * b <= upto
  BY <1>1, BetweenFact DEF After
<1>5. R1 \subseteq CandleBar /\ R2 \subseteq CandleBar
  BY <1>1, BetweenFact DEF Before, After
<1> HIDE DEF lo, hi, R1, R2
<1>6. Patched(candles \cup (R1 \cup R2), candles \cup holes \cup (R1 \cup R2))
  <2>1. SUFFICES ASSUME NEW x \in candles \cup R1 \cup R2, NEW y \in candles \cup R1 \cup R2,
                        NEW b \in CandleBar, x < b, b < y
                 PROVE  b \in candles \cup holes \cup R1 \cup R2
    BY DEF Patched
  <2>2. x \in CandleBar /\ y \in CandleBar /\ x \in Int /\ y \in Int /\ b \in Int
    BY <1>5, CandleBarInt
  <2>3. CASE b < lo
    <3>1. x \in R1
      BY <2>1, <2>2, <2>3, <1>1, <1>4
    <3> QED BY <3>1, <2>1, <2>2, <2>3, <1>1, <1>3
  <2>4. CASE b > hi
    <3>1. y \in R2
      BY <2>1, <2>2, <2>4, <1>1, <1>3
    <3> QED BY <3>1, <2>1, <2>2, <2>4, <1>1, <1>4
  <2> QED BY <2>2, <2>3, <2>4, <1>1, <1>2
<1>7. ASSUME from < upto, NEW b \in Between(from, upto)
      PROVE  b \in candles \cup holes \cup R1 \cup R2
  <2>1. b \in CandleBar /\ b \in Int /\ from <= 2 * b /\ 2 * b <= upto
    BY BetweenFact, CandleBarInt
  <2>2. CASE b < lo
    BY <2>1, <2>2, <1>1, <1>3
  <2>3. CASE b > hi
    BY <2>1, <2>3, <1>1, <1>4
  <2> QED BY <2>1, <2>2, <2>3, <1>1, <1>2
<1> QED BY <1>6, <1>7 DEF R1, R2

LEMMA SameSequence ==
  ASSUME NEW S, NEW s \in Seq(S), NEW t \in Seq(S), Len(s) = Len(t), \A i \in 1..Len(s) : s[i] = t[i]
  PROVE  s = t
OBVIOUS

LEMMA Joined ==
  ASSUME NEW S, NEW a \in S, NEW b \in S
  PROVE  <<a>> \o <<b>> = <<a, b>> /\ <<a>> \o <<>> = <<a>> /\ <<>> \o <<b>> = <<b>>
<1>1. /\ <<a>> \o <<b>> \in Seq(S) /\ Len(<<a>> \o <<b>>) = 2
      /\ (<<a>> \o <<b>>)[1] = a /\ (<<a>> \o <<b>>)[2] = b
  OBVIOUS
<1>2. <<a, b>> \in Seq(S) /\ Len(<<a, b>>) = 2 /\ <<a, b>>[1] = a /\ <<a, b>>[2] = b
  OBVIOUS
<1> DEFINE s == <<a>> \o <<b>> t == <<a, b>>
<1>3. s = t
  <2>1. s \in Seq(S) /\ t \in Seq(S) /\ Len(s) = 2 /\ Len(t) = 2 /\ s[1] = t[1] /\ s[2] = t[2]
    BY <1>1, <1>2
  <2> HIDE DEF s, t
  <2>2. \A i \in 1..Len(s) : s[i] = t[i]
    BY <2>1
  <2> QED BY <2>1, <2>2, SameSequence
<1>4. <<a>> \o <<>> = <<a>> /\ <<>> \o <<b>> = <<b>>
  OBVIOUS
<1> QED BY <1>3, <1>4

\* The pieces of ensure_history: one for an empty store; else before, after or both.
LEMMA SegmentsAre ==
  ASSUME NEW from \in Int, NEW upto \in Int, candles \subseteq CandleBar, candles # {}
  PROVE  LET lo == 2 * Min(candles) - 1
             hi == 2 * Max(candles) + 1
         IN  /\ lo \in Int /\ hi \in Int /\ lo < hi
             /\ \/ from >= lo /\ hi >= upto /\ Segments(from, upto) = <<>>
                \/ from < lo /\ hi >= upto /\ Segments(from, upto) = <<<<from, lo>>>>
                \/ from >= lo /\ hi < upto /\ Segments(from, upto) = <<<<hi, upto>>>>
                \/ from < lo /\ hi < upto /\ Segments(from, upto) = <<<<from, lo>>, <<hi, upto>>>>
<1>1. /\ Min(candles) \in Int /\ Max(candles) \in Int /\ Min(candles) <= Max(candles)
  BY Extremes, CandleBarInt
<1> DEFINE lo == 2 * Min(candles) - 1 hi == 2 * Max(candles) + 1
<1>2. lo \in Int /\ hi \in Int /\ lo < hi
  BY <1>1
<1>3. Segments(from, upto) = (IF from < lo THEN <<<<from, lo>>>> ELSE <<>>)
                             \o (IF hi < upto THEN <<<<hi, upto>>>> ELSE <<>>)
  BY DEF Segments
<1>4. /\ <<<<from, lo>>>> \o <<<<hi, upto>>>> = <<<<from, lo>>, <<hi, upto>>>>
      /\ <<<<from, lo>>>> \o <<>> = <<<<from, lo>>>> /\ <<>> \o <<<<hi, upto>>>> = <<<<hi, upto>>>>
  <2>1. <<from, lo>> \in Int \X Int /\ <<hi, upto>> \in Int \X Int
    BY <1>2
  <2> HIDE DEF lo, hi
  <2> QED BY <2>1, Joined
<1>5. <<>> \o <<>> = <<>>
  OBVIOUS
<1> HIDE DEF lo, hi
<1>6. from < lo /\ hi < upto => Segments(from, upto) = <<<<from, lo>>, <<hi, upto>>>>
  BY <1>3, <1>4
<1>7. from < lo /\ ~(hi < upto) => Segments(from, upto) = <<<<from, lo>>>>
  BY <1>3, <1>4
<1>8. ~(from < lo) /\ hi < upto => Segments(from, upto) = <<<<hi, upto>>>>
  BY <1>3, <1>4
<1>9. ~(from < lo) /\ ~(hi < upto) => Segments(from, upto) = <<>>
  BY <1>3, <1>5
<1>10. \/ from >= lo /\ hi >= upto /\ Segments(from, upto) = <<>>
       \/ from < lo /\ hi >= upto /\ Segments(from, upto) = <<<<from, lo>>>>
       \/ from >= lo /\ hi < upto /\ Segments(from, upto) = <<<<hi, upto>>>>
       \/ from < lo /\ hi < upto /\ Segments(from, upto) = <<<<from, lo>>, <<hi, upto>>>>
  BY <1>2, <1>6, <1>7, <1>8, <1>9
<1> QED BY <1>2, <1>10 DEF lo, hi

\* What is left of one piece, or of two.
LEMMA RestOne ==
  ASSUME NEW load, NEW a \in Int, NEW z \in Int, load.segs = <<<<a, z>>>>
  PROVE  /\ Rest(load) = Between(load.at, z) /\ (Begun(load) <=> load.at # a)
         /\ Len(load.segs) = 1 /\ load.segs[1] = <<a, z>> /\ Head(load.segs) = <<a, z>> /\ Tail(load.segs) = <<>>
BY DEF Rest, Begun

LEMMA RestTwo ==
  ASSUME NEW load, NEW a \in Int, NEW z \in Int, NEW b \in Int, NEW y \in Int,
         load.segs = <<<<a, z>>, <<b, y>>>>
  PROVE  /\ Rest(load) = Between(load.at, z) \cup Between(b, y) /\ (Begun(load) <=> load.at # a)
         /\ Len(load.segs) = 2 /\ load.segs[1] = <<a, z>> /\ load.segs[2] = <<b, y>>
         /\ Head(load.segs) = <<a, z>>
BY DEF Rest, Begun

\* A load begins with everything it may need still to be fetched.
LEMMA BeginsToFetch ==
  ASSUME CandleInv, Patched(candles, candles \cup holes), NEW load \in LoadType,
         load.from < load.upto, load.upto <= wall, load.has = candles,
         load.segs = Pieces(load, load.from, load.upto), load.segs # <<>>,
         load.at = load.segs[1][1]
  PROVE  Fetching(load)
<1> DEFINE from == load.from upto == load.upto
<1>1. /\ from \in Int /\ upto \in Int /\ wall \in Int /\ load.at \in Int
      /\ candles \subseteq CandleBar /\ \A c \in candles : 2 * c <= wall
  BY NowAssumption DEF CandleInv, CandleTyped, LoadType
<1>2. ASSUME load.segs = <<<<from, upto>>>>, load.op = "hydrate" \/ candles = {}
      PROVE  Fetching(load)
  <2>1. /\ Rest(load) = Between(from, upto) /\ ~Begun(load) /\ Len(load.segs) = 1
        /\ load.segs[1] = <<from, upto>> /\ load.at = from
    BY <1>1, <1>2, RestOne
  <2>2. Ordered(load)
    BY <1>1, <1>2, <2>1 DEF Ordered
  <2>3. candles = {} => Patched(candles \cup Rest(load), candles \cup holes \cup Rest(load))
    <3>1. SUFFICES ASSUME NEW x \in Rest(load), NEW y \in Rest(load), NEW b \in CandleBar, x < b, b < y
                   PROVE  b \in Rest(load)
      BY DEF Patched
    <3>2. from <= 2 * x /\ 2 * y <= upto /\ x \in Int /\ y \in Int /\ b \in Int
      BY <1>1, <2>1, <3>1, BetweenFact, CandleBarInt
    <3>3. from <= 2 * b /\ 2 * b <= upto
      BY <1>1, <3>1, <3>2
    <3> QED BY <1>1, <2>1, <3>3, BetweenFact
  <2> QED BY <1>2, <2>1, <2>2, <2>3 DEF Fetching
<1>3. CASE load.op = "hydrate"
  <2>1. load.segs = <<<<from, upto>>>>
    BY <1>1, <1>3 DEF Pieces
  <2> QED BY <2>1, <1>2, <1>3
<1>4. CASE load.op # "hydrate" /\ candles = {}
  <2>1. load.segs = <<<<from, upto>>>>
    BY <1>1, <1>4 DEF Pieces, Segments
  <2> QED BY <2>1, <1>2, <1>4
<1>5. CASE load.op # "hydrate" /\ candles # {}
  <2> DEFINE lo == 2 * Min(candles) - 1 hi == 2 * Max(candles) + 1
             R == Before(from, candles) \cup After(upto, candles)
  <2>1. load.segs = Segments(from, upto)
    BY <1>1, <1>5 DEF Pieces
  <2>2. /\ Patched(candles \cup R, candles \cup holes \cup R)
        /\ Between(from, upto) \subseteq candles \cup holes \cup R
    BY <1>1, <1>5, AroundStore
  <2>3. /\ lo \in Int /\ hi \in Int /\ lo < hi
        /\ \/ from < lo /\ hi >= upto /\ load.segs = <<<<from, lo>>>>
           \/ from >= lo /\ hi < upto /\ load.segs = <<<<hi, upto>>>>
           \/ from < lo /\ hi < upto /\ load.segs = <<<<from, lo>>, <<hi, upto>>>>
    BY <1>1, <1>5, <2>1, SegmentsAre
  <2>4. lo <= wall /\ \A c \in candles : c \in Int /\ 2 * c < hi
    <3>1. candles \in SUBSET CandleBar /\ candles # {} /\ candles \subseteq Int
      BY <1>1, <1>5, CandleBarInt
    <3>2. /\ Min(candles) \in candles /\ \A c \in candles : Min(candles) <= c
          /\ Max(candles) \in candles /\ \A c \in candles : c <= Max(candles)
      BY <3>1, Extremes
    <3>3. 2 * Min(candles) <= wall /\ Min(candles) \in Int /\ Max(candles) \in Int
      BY <1>1, <3>1, <3>2
    <3>4. lo <= wall
      BY <1>1, <3>3
    <3>5. ASSUME NEW c \in candles PROVE c \in Int /\ 2 * c < hi
      <4>1. c \in Int /\ c <= Max(candles)
        BY <3>1, <3>2
      <4> QED BY <3>3, <4>1
    <3> QED BY <3>4, <3>5
  <2>5. R = (IF from < lo THEN Between(from, lo) ELSE {}) \cup (IF hi < upto THEN Between(hi, upto) ELSE {})
    BY DEF Before, After
  <2> HIDE DEF lo, hi, R
  <2>6. CASE from < lo /\ hi >= upto /\ load.segs = <<<<from, lo>>>>
    <3>1. /\ Rest(load) = Between(load.at, lo) /\ Len(load.segs) = 1
          /\ load.segs[1] = <<from, lo>> /\ load.at = from /\ ~Begun(load)
      <4>1. load.segs = <<<<from, lo>>>> /\ from \in Int /\ lo \in Int
        BY <1>1, <2>3, <2>6
      <4>2. /\ Rest(load) = Between(load.at, lo) /\ (Begun(load) <=> load.at # from)
            /\ Len(load.segs) = 1 /\ load.segs[1] = <<from, lo>>
        BY <4>1, RestOne
      <4> QED BY <4>2
    <3>2. Rest(load) = R
      BY <1>1, <2>3, <2>5, <2>6, <3>1
    <3>3. Ordered(load)
      BY <1>1, <1>5, <2>3, <2>4, <2>6, <3>1 DEF Ordered
    <3> QED BY <2>2, <3>1, <3>2, <3>3 DEF Fetching
  <2>7. CASE from >= lo /\ hi < upto /\ load.segs = <<<<hi, upto>>>>
    <3>1. /\ Rest(load) = Between(load.at, upto) /\ Len(load.segs) = 1
          /\ load.segs[1] = <<hi, upto>> /\ load.at = hi /\ ~Begun(load)
      <4>1. load.segs = <<<<hi, upto>>>> /\ hi \in Int /\ upto \in Int
        BY <1>1, <2>3, <2>7
      <4>2. /\ Rest(load) = Between(load.at, upto) /\ (Begun(load) <=> load.at # hi)
            /\ Len(load.segs) = 1 /\ load.segs[1] = <<hi, upto>>
        BY <4>1, RestOne
      <4> QED BY <4>2
    <3>2. Rest(load) = R
      BY <1>1, <2>3, <2>5, <2>7, <3>1
    <3>3. Ordered(load)
      BY <1>1, <1>5, <2>3, <2>4, <2>7, <3>1 DEF Ordered
    <3> QED BY <2>2, <3>1, <3>2, <3>3 DEF Fetching
  <2>8. CASE from < lo /\ hi < upto /\ load.segs = <<<<from, lo>>, <<hi, upto>>>>
    <3>1. /\ Rest(load) = Between(load.at, lo) \cup Between(hi, upto) /\ Len(load.segs) = 2
          /\ load.segs[1] = <<from, lo>> /\ load.segs[2] = <<hi, upto>> /\ load.at = from /\ ~Begun(load)
      <4>1. load.segs = <<<<from, lo>>, <<hi, upto>>>> /\ from \in Int /\ lo \in Int /\ hi \in Int
            /\ upto \in Int
        BY <1>1, <2>3, <2>8
      <4>2. /\ Rest(load) = Between(load.at, lo) \cup Between(hi, upto) /\ (Begun(load) <=> load.at # from)
            /\ Len(load.segs) = 2 /\ load.segs[1] = <<from, lo>> /\ load.segs[2] = <<hi, upto>>
        <5>1. Head(load.segs) = <<from, lo>> /\ Len(load.segs) = 2 /\ load.segs[1] = <<from, lo>>
              /\ load.segs[2] = <<hi, upto>>
          BY <4>1
        <5> HIDE DEF lo, hi, from, upto
        <5> QED BY <5>1 DEF Rest, Begun
      <4>3. load.segs[1][1] = from
        BY <4>2
      <4> QED BY <4>2, <4>3
    <3>2. Rest(load) = R
      BY <1>1, <2>3, <2>5, <2>8, <3>1
    <3>3. Ordered(load)
      BY <1>1, <1>5, <2>3, <2>4, <2>8, <3>1 DEF Ordered
    <3> QED BY <2>2, <3>1, <3>2, <3>3 DEF Fetching
  <2> QED BY <2>3, <2>6, <2>7, <2>8
<1> QED BY <1>3, <1>4, <1>5

LEMMA OnePiece ==
  ASSUME NEW a \in Int, NEW z \in Int
  PROVE  <<<<a, z>>>> \in Seq(Int \X Int) /\ <<>> \in Seq(Int \X Int)
<1>1. <<a, z>> \in Int \X Int
  OBVIOUS
<1>2. \A S : \A x \in S : <<x>> \in Seq(S) /\ <<>> \in Seq(S)
  OBVIOUS
<1> QED BY <1>1, <1>2, Zenon

LEMMA TwoPieces ==
  ASSUME NEW p \in Int \X Int, NEW q \in Int \X Int
  PROVE  <<p, q>> \in Seq(Int \X Int)
<1>1. \A S : \A x, y \in S : <<x, y>> \in Seq(S)
  OBVIOUS
<1> QED BY <1>1, Zenon

LEMMA PiecesType ==
  ASSUME CandleInv, NEW load, NEW from \in Int, NEW upto \in Int
  PROVE  Pieces(load, from, upto) \in Seq(Int \X Int)
<1>1. candles \subseteq CandleBar
  BY DEF CandleInv, CandleTyped
<1>2. Segments(from, upto) \in Seq(Int \X Int)
  <2>1. CASE candles = {}
    BY <2>1, OnePiece DEF Segments
  <2>2. CASE candles # {}
    <3> DEFINE lo == 2 * Min(candles) - 1 hi == 2 * Max(candles) + 1
    <3>1. /\ lo \in Int /\ hi \in Int
          /\ Segments(from, upto) \in {<<>>, <<<<from, lo>>>>, <<<<hi, upto>>>>, <<<<from, lo>>, <<hi, upto>>>>}
      BY <1>1, <2>2, SegmentsAre
    <3> HIDE DEF lo, hi
    <3>2. /\ <<>> \in Seq(Int \X Int) /\ <<<<from, lo>>>> \in Seq(Int \X Int)
          /\ <<<<hi, upto>>>> \in Seq(Int \X Int)
      BY <3>1, OnePiece
    <3>3. <<from, lo>> \in Int \X Int /\ <<hi, upto>> \in Int \X Int
      BY <3>1
    <3>4. <<<<from, lo>>, <<hi, upto>>>> \in Seq(Int \X Int)
      BY <3>3, TwoPieces
    <3> QED BY <3>1, <3>2, <3>4
  <2> QED BY <2>1, <2>2
<1> QED BY <1>2, OnePiece DEF Pieces

LEMMA EnsureKeeps ==
  ASSUME CandleInv, NEW r \in Loader, EnsureHistory(r)
  PROVE  CandleInv'
<1> DEFINE load == loads[r]
           from == Most(load.from, wall - Keep)
           upto == Least(load.upto, wall)
           segs == Pieces(load, from, upto)
<1>1. /\ load \in LoadType /\ load.pc = "wait" /\ histLock = Unheld
      /\ candles \subseteq CandleBar /\ unmet \subseteq CandleBar /\ unmet \subseteq candles \cup holes
      /\ wall \in Int /\ Patched(candles, candles \cup holes)
  BY NowAssumption DEF EnsureHistory, CandleInv, CandleTyped
<1>2. from \in Int /\ upto \in Int /\ upto <= wall
  BY <1>1, SpanAssumption DEF LoadType, Most, Least
<1>3. UNCHANGED <<feed, wall, candles, holes, outages>>
  BY DEF EnsureHistory
<1>4. CASE segs = <<>>
  <2>1. /\ loads' = [loads EXCEPT ![r] = NoLoad]
        /\ unmet' = IF from < upto THEN unmet \cup (Between(from, upto) \ candles) ELSE unmet
        /\ histLock' = histLock
    BY <1>4 DEF EnsureHistory
  <2>2. ASSUME from < upto PROVE Between(from, upto) \subseteq candles \cup holes
    <3> HIDE DEF from, upto
    <3>1. load.op # "hydrate" /\ Segments(from, upto) = <<>>
      BY <1>4, <1>2, <2>2 DEF Pieces
    <3>2. candles # {}
      BY <3>1 DEF Segments
    <3>3. from >= 2 * Min(candles) - 1 /\ 2 * Max(candles) + 1 >= upto
      <4> DEFINE lo == 2 * Min(candles) - 1 hi == 2 * Max(candles) + 1
      <4>1. \/ from >= lo /\ hi >= upto
            \/ Segments(from, upto) \in {<<<<from, lo>>>>, <<<<hi, upto>>>>, <<<<from, lo>>, <<hi, upto>>>>}
        BY <1>1, <1>2, <3>2, SegmentsAre
      <4> HIDE DEF lo, hi
      <4>2. <<<<from, lo>>>> # <<>> /\ <<<<hi, upto>>>> # <<>> /\ <<<<from, lo>>, <<hi, upto>>>> # <<>>
        OBVIOUS
      <4> QED BY <3>1, <4>1, <4>2 DEF lo, hi
    <3>4. 2 * Min(candles) - 1 \in Int /\ 2 * Max(candles) + 1 \in Int
      BY <1>1, <1>2, <3>2, SegmentsAre
    <3>5. Before(from, candles) = {} /\ After(upto, candles) = {}
      BY <1>2, <3>3, <3>4 DEF Before, After
    <3>6. Between(from, upto) \subseteq candles \cup holes \cup (Before(from, candles) \cup After(upto, candles))
      BY <1>1, <1>2, <2>2, <3>2, AroundStore
    <3> QED BY <3>5, <3>6
  <2>3. unmet' \subseteq candles \cup holes /\ unmet' \subseteq CandleBar
    BY <1>1, <1>2, <2>1, <2>2, BetweenFact
  <2> QED BY <1>1, <1>3, <2>1, <2>3, NoLoadType, AskingKeeps
<1>5. CASE segs # <<>>
  <2> DEFINE new == [load EXCEPT !.pc = "fetch", !.from = from, !.upto = upto,
                                 !.segs = segs, !.at = segs[1][1], !.has = candles]
  <2>1. histLock' = r /\ loads' = [loads EXCEPT ![r] = new] /\ unmet' = unmet
    BY <1>5 DEF EnsureHistory
  <2>2. from < upto
    BY <1>2, <1>5 DEF Pieces
  <2>3. segs \in Seq(Int \X Int) /\ segs[1][1] \in Int
    <3>1. segs \in Seq(Int \X Int)
      BY <1>2, PiecesType
    <3>2. segs[1] \in Int \X Int
      <4> HIDE DEF segs
      <4>1. Len(segs) \in Nat /\ Len(segs) # 0
        BY <3>1, <1>5
      <4> QED BY <3>1, <4>1
    <3> QED BY <3>1, <3>2
  <2> HIDE DEF from, upto, segs
  <2>4. /\ new \in LoadType /\ new.pc = "fetch" /\ new.from = from /\ new.upto = upto
        /\ new.segs = segs /\ new.at = segs[1][1] /\ new.has = candles /\ new.op = load.op
    BY <1>1, <1>2, <2>3 DEF LoadType
  <2>5. segs = Pieces(new, from, upto)
    BY <2>4 DEF segs, Pieces
  <2> HIDE DEF new
  <2>6. Fetching(new)
    BY <1>1, <1>2, <1>5, <2>2, <2>4, <2>5, BeginsToFetch
  <2>7. loads'[r] = new /\ \A q \in Loader : q # r => loads'[q] = loads[q] /\ loads[q].pc # "fetch"
    BY <1>1, <2>1, NowAssumption DEF CandleInv, CandleTyped
  <2>8. CandleTyped'
    BY <1>3, <2>1, <2>4 DEF CandleInv, CandleTyped
  <2>9. \A q \in Loader : (loads'[q].pc = "fetch") = (histLock' = q)
    BY <2>1, <2>4, <2>7
  <2>10. \A q \in Loader : loads'[q].pc = "fetch" => Fetching(loads[q])'
    <3>1. SUFFICES ASSUME NEW q \in Loader, loads'[q].pc = "fetch" PROVE Fetching(loads[q])'
      OBVIOUS
    <3>2. loads'[q] = new
      BY <2>7, <3>1
    <3> QED BY <1>3, <2>6, <3>2 DEF Fetching, Ordered, Patched
  <2>11. histLock' # Unheld
    BY <2>1, NowAssumption
  <2>12. (unmet \subseteq candles \cup holes)'
    BY <1>1, <1>3, <2>1
  <2> QED BY <2>8, <2>9, <2>10, <2>11, <2>12 DEF CandleInv
<1> QED BY <1>4, <1>5

-----------------------------------------------------------------------------
(* Candles: the steps of the one that fetches                                 *)

LEMMA FillsLess ==
  ASSUME NEW A, NEW B, NEW A1, NEW B1, Patched(A, B), A1 \subseteq A, B \subseteq B1
  PROVE  Patched(A1, B1)
BY DEF Patched

LEMMA TailFact ==
  ASSUME NEW S, NEW s \in Seq(S), s # <<>>
  PROVE  /\ Tail(s) \in Seq(S) /\ Len(Tail(s)) = Len(s) - 1
         /\ Tail(s) = <<>> <=> Len(s) = 1
         /\ Len(s) = 2 => Tail(s) # <<>>
<1>1. Tail(s) \in Seq(S) /\ Len(Tail(s)) = Len(s) - 1 /\ Len(s) \in Nat
  OBVIOUS
<1>2. \A t \in Seq(S) : t = <<>> <=> Len(t) = 0
  OBVIOUS
<1>3. Tail(s) = <<>> <=> Len(Tail(s)) = 0
  BY <1>1, <1>2, Zenon
<1> QED BY <1>1, <1>3

\* The pieces of the one that fetches: the first, and what comes after it.
LEMMA PiecesOf ==
  ASSUME CandleInv, NEW load \in LoadType, Ordered(load)
  PROVE  LET s1 == Head(load.segs)[1]
             end == Head(load.segs)[2]
             rest == Tail(load.segs)
         IN  /\ s1 \in Int /\ end \in Int /\ s1 <= load.at /\ load.at < end /\ end <= wall
             /\ load.op = "hydrate" => s1 = load.from /\ end = load.upto /\ rest = <<>>
             /\ \/ rest = <<>> /\ Rest(load) = Between(load.at, end)
                \/ /\ load.op # "hydrate" /\ rest # <<>> /\ rest \in Seq(Int \X Int) /\ Len(rest) = 1
                   /\ rest[1][1] \in Int /\ rest[1][2] \in Int
                   /\ end < rest[1][1] /\ rest[1][1] < rest[1][2] /\ rest[1][2] <= wall
                   /\ \A c \in candles : 2 * c < rest[1][1]
                   /\ Rest(load) = Between(load.at, end) \cup Between(rest[1][1], rest[1][2])
<1> DEFINE segs == load.segs
<1>1. segs \in Seq(Int \X Int) /\ Len(segs) \in {1, 2}
  BY DEF LoadType, Ordered
<1>2. Head(segs) = segs[1] /\ segs[1] \in Int \X Int
  BY <1>1
<1>3. /\ segs[1][2] <= wall /\ segs[1][1] <= load.at /\ load.at < segs[1][2]
  BY <1>1 DEF Ordered
<1>4. ASSUME load.op = "hydrate"
      PROVE  segs[1][1] = load.from /\ segs[1][2] = load.upto /\ Tail(segs) = <<>>
  BY <1>4 DEF Ordered
<1>5. CASE Len(segs) = 1
  <2>1. Tail(segs) = <<>>
    BY <1>1, <1>5, TailFact
  <2>2. Rest(load) = Between(load.at, segs[1][2])
    BY <1>2, <1>5 DEF Rest
  <2> QED BY <1>2, <1>3, <1>4, <2>1, <2>2
<1>6. CASE Len(segs) = 2
  <2>1. Tail(segs) \in Seq(Int \X Int) /\ Len(Tail(segs)) = 1 /\ Tail(segs)[1] = segs[2] /\ segs[2] \in Int \X Int
    BY <1>1, <1>6
  <2>2. Tail(segs) # <<>>
    <3>1. segs # <<>>
      BY <1>6
    <3> HIDE DEF segs
    <3> QED BY <1>1, <1>6, <3>1, TailFact
  <2>3. /\ segs[1][2] < segs[2][1] /\ segs[2][1] < segs[2][2] /\ segs[2][2] <= wall
        /\ \A c \in candles : 2 * c < segs[2][1]
    BY <1>1, <1>6 DEF Ordered
  <2>4. Rest(load) = Between(load.at, segs[1][2]) \cup Between(segs[2][1], segs[2][2])
    BY <1>2, <1>6 DEF Rest
  <2>5. load.op # "hydrate"
    BY <2>2, <1>4
  <2> QED BY <1>2, <1>3, <2>1, <2>2, <2>3, <2>4, <2>5
<1> QED BY <1>1, <1>5, <1>6

\* What a hydration away from the store leaves between is written down.
LEMMA DetachedFills ==
  ASSUME candles \subseteq CandleBar, Patched(candles, candles \cup holes),
         NEW load \in LoadType, load.op = "hydrate", load.at = load.from
  PROVE  LET R == Between(load.at, load.upto)
         IN  Patched(candles \cup R, candles \cup holes \cup R \cup Detached(load))
<1> DEFINE at == load.at upto == load.upto R == Between(at, upto) D == Detached(load)
<1>1. at \in Int /\ upto \in Int
  BY DEF LoadType
<1>2. \A b \in CandleBar : b \in R <=> at <= 2 * b /\ 2 * b <= upto
  BY <1>1, BetweenFact
<1>3. CASE candles = {}
  <2> HIDE DEF at, upto, R, D
  <2>1. SUFFICES ASSUME NEW x \in R, NEW y \in R, NEW b \in CandleBar, x < b, b < y
                 PROVE  b \in R
    BY <1>3 DEF Patched, R, at, upto
  <2>2. R \subseteq CandleBar
    BY <1>1, BetweenFact DEF R
  <2>3. x \in CandleBar /\ y \in CandleBar /\ x \in Int /\ y \in Int /\ b \in Int
    BY <2>2, CandleBarInt
  <2> QED BY <1>1, <1>2, <2>1, <2>3
<1>4. CASE candles # {}
  <2> DEFINE lo == Min(candles) hi == Max(candles)
  <2>1. /\ lo \in candles /\ hi \in candles /\ lo \in Int /\ hi \in Int
        /\ \A c \in candles : lo <= c /\ c <= hi
    BY <1>4, Extremes, CandleBarInt
  <2>2. \A b \in CandleBar : lo <= b /\ b <= hi => b \in candles \cup holes
    <3>1. SUFFICES ASSUME NEW b \in CandleBar, lo <= b, b <= hi, b # lo, b # hi
                   PROVE  b \in candles \cup holes
      BY <2>1
    <3>2. lo < b /\ b < hi
      BY <2>1, <3>1, CandleBarInt
    <3> QED BY <2>1, <3>2 DEF Patched
  <2>3. \A b \in CandleBar : /\ 2 * hi + 1 <= 2 * b /\ 2 * b <= at - 1 => b \in D
                             /\ upto + 1 <= 2 * b /\ 2 * b <= 2 * lo - 1 => b \in D
    <3>1. D = Between(2 * hi + 1, at - 1) \cup Between(upto + 1, 2 * lo - 1)
      BY <1>4 DEF Detached
    <3> HIDE DEF D, lo, hi, at, upto
    <3>2. 2 * hi + 1 \in Int /\ at - 1 \in Int /\ upto + 1 \in Int /\ 2 * lo - 1 \in Int
      BY <1>1, <2>1
    <3> QED BY <3>1, <3>2, BetweenFact
  <2>4. R \subseteq CandleBar
    BY <1>1, BetweenFact
  <2> HIDE DEF at, upto, R, D, lo, hi
  <2>5. SUFFICES ASSUME NEW x \in candles \cup R, NEW y \in candles \cup R, NEW b \in CandleBar,
                        x < b, b < y, b \notin candles \cup holes, b \notin R
                 PROVE  b \in D
    BY DEF Patched, D, R, at, upto
  <2>6. x \in CandleBar /\ y \in CandleBar /\ x \in Int /\ y \in Int /\ b \in Int
    BY <2>4, CandleBarInt
  <2>7. b < lo \/ b > hi
    BY <2>1, <2>2, <2>5, <2>6
  <2>8. 2 * b < at \/ 2 * b > upto
    BY <1>1, <1>2, <2>5, <2>6
  <2>9. (x >= lo /\ x <= hi) \/ (at <= 2 * x /\ 2 * x <= upto)
    BY <1>1, <1>2, <2>1, <2>6
  <2>10. (y >= lo /\ y <= hi) \/ (at <= 2 * y /\ 2 * y <= upto)
    BY <1>1, <1>2, <2>1, <2>6
  <2>11. \/ 2 * hi + 1 <= 2 * b /\ 2 * b <= at - 1
         \/ upto + 1 <= 2 * b /\ 2 * b <= 2 * lo - 1
    BY <1>1, <2>1, <2>5, <2>6, <2>7, <2>8, <2>9, <2>10
  <2> QED BY <2>3, <2>11
<1> QED BY <1>3, <1>4

\* Before a chunk: what a load fetches and what it leaves close the store.
LEMMA FetchCloses ==
  ASSUME CandleInv, NEW load \in LoadType, Fetching(load)
  PROVE  /\ Patched(candles \cup Rest(load), candles \cup holes \cup Rest(load) \cup Detached(load))
         /\ Between(load.from, load.upto) \subseteq candles \cup holes \cup Rest(load)
<1>1. Ordered(load) /\ candles \subseteq CandleBar
  BY DEF Fetching, CandleInv, CandleTyped
<1>2. CASE Begun(load) \/ load.op # "hydrate"
  <2>1. Patched(candles \cup Rest(load), candles \cup holes \cup Rest(load))
    BY <1>2 DEF Fetching
  <2> QED BY <2>1, FillsLess DEF Fetching
<1>3. CASE ~Begun(load) /\ load.op = "hydrate"
  <2>1. Patched(candles, candles \cup holes)
    BY <1>3 DEF Fetching
  <2>2. load.at = load.from /\ Rest(load) = Between(load.at, load.upto)
    BY <1>1, <1>3, PiecesOf DEF Begun
  <2> QED BY <1>1, <1>3, <2>1, <2>2, DetachedFills DEF Fetching
<1> QED BY <1>2, <1>3

\* What a chunk stores, and what of the pieces it leaves behind.
Upto(load) == IF NextChunk(load.at, Head(load.segs)[2]) < Head(load.segs)[2]
              THEN NextChunk(load.at, Head(load.segs)[2]) - 1 ELSE Head(load.segs)[2]

LEMMA ChunkStores ==
  ASSUME CandleInv, NEW r \in Loader, FetchChunk(r), loads[r].pc = "fetch"
  PROVE  LET load == loads[r]
             got == Between(load.at, ChunkEnd(load.at, Head(load.segs)[2]))
         IN  /\ candles' = candles \cup got /\ got \subseteq CandleBar
             /\ {b \in got : 2 * b <= wall} \ load.has = got \ candles
             /\ candles' \cup holes' = candles \cup holes \cup Between(load.at, Upto(load)) \cup Detached(load)
             /\ holes' \subseteq CandleBar
             /\ \A b \in got : 2 * b <= Head(load.segs)[2]
             /\ NextChunk(load.at, Head(load.segs)[2]) \in Int
             /\ load.at < NextChunk(load.at, Head(load.segs)[2])
<1> DEFINE load == loads[r]
           end == Head(load.segs)[2]
           stop == ChunkEnd(load.at, end)
           next == NextChunk(load.at, end)
           lim == Upto(load)
           got == Between(load.at, stop)
<1>1. /\ load \in LoadType /\ Fetching(load) /\ wall \in Int /\ feed.chunk \in Nat /\ feed.day \in Nat \ {0}
      /\ candles \subseteq CandleBar /\ holes \subseteq CandleBar
  BY NowAssumption, FeedAssumption DEF CandleInv, CandleTyped
<1>2. load.at \in Int /\ end \in Int /\ load.at < end /\ end <= wall /\ load.has = candles
  BY <1>1, PiecesOf DEF Fetching, LoadType
<1>3. /\ stop \in Int /\ next \in Int /\ load.at <= stop /\ stop <= end /\ stop < next
  <2> HIDE DEF end, load
  <2> QED BY <1>1, <1>2 DEF ChunkEnd, NextChunk, Least
<1>4. lim = (IF next < end THEN next - 1 ELSE end)
  BY DEF Upto
<1>5. /\ candles' = IF (({b \in got : 2 * b <= wall} \ load.has) \cap candles) # {} THEN candles
                    ELSE candles \cup ({b \in got : 2 * b <= wall} \ load.has)
      /\ holes' = (holes \cup Between(stop + 1, IF next < end THEN next - 1 ELSE end) \cup Detached(load)) \ candles'
  BY DEF FetchChunk
<1>6. Detached(load) \subseteq CandleBar
  BY DEF Detached, Between
<1> HIDE DEF load, end, stop, next, lim
<1>7. \A b \in got : b \in CandleBar /\ b \in Int /\ load.at <= 2 * b /\ 2 * b <= stop
  BY <1>2, <1>3, BetweenFact, CandleBarInt
<1>8. {b \in got : 2 * b <= wall} = got
  BY <1>1, <1>2, <1>3, <1>7
<1>9. candles' = candles \cup got
  BY <1>2, <1>5, <1>8
<1>10. got \cup Between(stop + 1, lim) = Between(load.at, lim)
  <2>1. lim \in Int /\ stop <= lim /\ stop + 1 \in Int
    BY <1>2, <1>3, <1>4
  <2>2. /\ Between(stop + 1, lim) \subseteq CandleBar /\ Between(load.at, lim) \subseteq CandleBar
        /\ \A b \in CandleBar : /\ b \in Between(stop + 1, lim) <=> stop + 1 <= 2 * b /\ 2 * b <= lim
                                /\ b \in Between(load.at, lim) <=> load.at <= 2 * b /\ 2 * b <= lim
                                /\ b \in got <=> load.at <= 2 * b /\ 2 * b <= stop
    BY <1>2, <1>3, <2>1, BetweenFact
  <2>3. \A b \in CandleBar : b \in got \/ b \in Between(stop + 1, lim) <=> b \in Between(load.at, lim)
    BY <1>2, <1>3, <2>1, <2>2, CandleBarInt
  <2> HIDE DEF got
  <2> QED BY <1>7, <2>2, <2>3
<1>11. candles' \cup holes' = candles \cup holes \cup Between(load.at, lim) \cup Detached(load)
  <2> HIDE DEF got
  <2> QED BY <1>4, <1>5, <1>9, <1>10
<1>12. holes' \subseteq CandleBar
  <2>1. Between(stop + 1, IF next < end THEN next - 1 ELSE end) \subseteq CandleBar
    BY DEF Between
  <2> QED BY <1>1, <1>5, <1>6, <2>1
<1>13. \A b \in got : 2 * b <= end
  BY <1>2, <1>3, <1>7
<1>14. got \subseteq CandleBar
  BY <1>7
<1>15. load.at < next
  BY <1>2, <1>3
<1> HIDE DEF got
<1>16. {b \in got : 2 * b <= wall} \ load.has = got \ candles
  BY <1>2, <1>8
<1> QED BY <1>3, <1>9, <1>11, <1>12, <1>13, <1>14, <1>15, <1>16 DEF load, end, stop, next, lim, got

\* What the invariant says of the loads, from what it says of the one that fetches.
LEMMA OneFetches ==
  ASSUME CandleInv, NEW r \in Loader, loads[r].pc = "fetch", NEW new \in LoadType,
         loads' = [loads EXCEPT ![r] = new]
  PROVE  /\ loads'[r] = new /\ loads' \in [Loader -> LoadType] /\ histLock = r
         /\ \A q \in Loader : q # r => loads'[q] = loads[q] /\ loads'[q].pc # "fetch"
BY DEF CandleInv, CandleTyped

LEMMA FetchGoesOn ==
  ASSUME CandleInv, NEW r \in Loader, loads[r].pc = "fetch", NEW new \in LoadType, new.pc = "fetch",
         loads' = [loads EXCEPT ![r] = new], Fetching(new)', CandleTyped',
         histLock' = histLock, unmet' = unmet, candles \cup holes \subseteq candles' \cup holes'
  PROVE  CandleInv'
<1>1. /\ loads'[r] = new /\ histLock = r
      /\ \A q \in Loader : q # r => loads'[q] = loads[q] /\ loads'[q].pc # "fetch"
  BY OneFetches
<1>2. \A q \in Loader : (loads'[q].pc = "fetch") = (histLock' = q)
  BY <1>1
<1>3. \A q \in Loader : loads'[q].pc = "fetch" => Fetching(loads[q])'
  <2>1. SUFFICES ASSUME NEW q \in Loader, loads'[q].pc = "fetch" PROVE Fetching(loads[q])'
    OBVIOUS
  <2>2. q = r /\ loads'[q] = new
    BY <1>1, <2>1
  <2> QED BY <2>2 DEF Fetching, Ordered, Begun, Rest
<1>4. histLock' # Unheld
  BY <1>1, NowAssumption
<1>5. (unmet \subseteq candles \cup holes)'
  BY DEF CandleInv
<1> QED BY <1>2, <1>3, <1>4, <1>5 DEF CandleInv

LEMMA FetchEnds ==
  ASSUME CandleInv, NEW r \in Loader, loads[r].pc = "fetch", NEW new \in LoadType, new.pc # "fetch",
         loads' = [loads EXCEPT ![r] = new], CandleTyped', histLock' = Unheld,
         Patched(candles, candles \cup holes)', (unmet \subseteq candles \cup holes)'
  PROVE  CandleInv'
<1>1. /\ loads'[r] = new
      /\ \A q \in Loader : q # r => loads'[q] = loads[q] /\ loads'[q].pc # "fetch"
  BY OneFetches
<1>2. \A q \in Loader : loads'[q].pc # "fetch" /\ histLock' # q
  BY <1>1, NowAssumption
<1> QED BY <1>2 DEF CandleInv

LEMMA ChunkKeeps ==
  ASSUME CandleInv, NEW r \in Loader, FetchChunk(r)
  PROVE  CandleInv'
<1> DEFINE load == loads[r]
           end == Head(load.segs)[2]
           stop == ChunkEnd(load.at, end)
           next == NextChunk(load.at, end)
           rest == Tail(load.segs)
           got == Between(load.at, stop)
           S == candles \cup holes \cup Rest(load) \cup Detached(load)
<1>1. load.pc = "fetch"
  BY DEF FetchChunk
<1>2. /\ load \in LoadType /\ Fetching(load) /\ Ordered(load) /\ wall \in Int /\ load.has = candles
      /\ candles \subseteq CandleBar /\ unmet \subseteq candles \cup holes /\ unmet \subseteq CandleBar
      /\ \A c \in candles : 2 * c <= wall
      /\ feed \in Feeds /\ wall \in FirstNow..LastNow /\ outages \in 0..MaxOutages
  <2>1. /\ load \in LoadType /\ Fetching(load) /\ wall \in Int
        /\ candles \subseteq CandleBar /\ unmet \subseteq candles \cup holes /\ unmet \subseteq CandleBar
        /\ \A c \in candles : 2 * c <= wall
        /\ feed \in Feeds /\ wall \in FirstNow..LastNow /\ outages \in 0..MaxOutages
    BY <1>1, NowAssumption DEF CandleInv, CandleTyped
  <2> HIDE DEF load
  <2> QED BY <2>1 DEF Fetching
<1>3. /\ Patched(candles \cup Rest(load), S)
      /\ Between(load.from, load.upto) \subseteq candles \cup holes \cup Rest(load)
  BY <1>2, FetchCloses
<1>4. /\ candles' = candles \cup got /\ got \subseteq CandleBar /\ holes' \subseteq CandleBar
      /\ {b \in got : 2 * b <= wall} \ load.has = got \ candles
      /\ candles' \cup holes' = candles \cup holes \cup Between(load.at, Upto(load)) \cup Detached(load)
      /\ \A b \in got : 2 * b <= end
      /\ next \in Int /\ load.at < next
  BY <1>1, ChunkStores
<1>5. /\ Head(load.segs)[1] \in Int /\ end \in Int /\ load.at \in Int
      /\ Head(load.segs)[1] <= load.at /\ load.at < end /\ end <= wall
      /\ load.op = "hydrate" => rest = <<>>
      /\ \/ rest = <<>> /\ Rest(load) = Between(load.at, end)
         \/ /\ load.op # "hydrate" /\ rest # <<>> /\ rest \in Seq(Int \X Int) /\ Len(rest) = 1
            /\ rest[1][1] \in Int /\ rest[1][2] \in Int
            /\ end < rest[1][1] /\ rest[1][1] < rest[1][2] /\ rest[1][2] <= wall
            /\ \A c \in candles : 2 * c < rest[1][1]
            /\ Rest(load) = Between(load.at, end) \cup Between(rest[1][1], rest[1][2])
  BY <1>2, PiecesOf DEF LoadType
<1>6. /\ UNCHANGED <<feed, wall, outages>>
      /\ next < end => /\ loads' = [loads EXCEPT ![r].at = next, ![r].has = @ \cup ({b \in got : 2 * b <= wall} \ load.has)]
                       /\ UNCHANGED <<histLock, unmet>>
      /\ ~(next < end) /\ rest # <<>> =>
           /\ loads' = [loads EXCEPT ![r].segs = rest, ![r].at = rest[1][1], ![r].has = candles']
           /\ UNCHANGED <<histLock, unmet>>
      /\ ~(next < end) /\ rest = <<>> =>
           /\ loads' = [loads EXCEPT ![r] = NoLoad]
           /\ histLock' = Unheld
           /\ unmet' = unmet \cup (Between(load.from, load.upto) \ candles')
  BY DEF FetchChunk
<1>7. Upto(load) = (IF next < end THEN next - 1 ELSE end)
  BY DEF Upto
<1>8. (\A c \in candles : 2 * c <= wall)'
  BY <1>2, <1>4, <1>5, <1>6, CandleBarInt
<1>9. candles' \subseteq CandleBar /\ unmet \subseteq candles' \cup holes'
  BY <1>2, <1>4
<1>10. ASSUME NEW new \in LoadType, loads' = [loads EXCEPT ![r] = new], histLock' \in Loader \cup {Unheld},
              unmet' \subseteq CandleBar
       PROVE  CandleTyped'
  BY <1>1, <1>2, <1>4, <1>6, <1>8, <1>9, <1>10, OneFetches DEF CandleTyped
<1>11. histLock \in Loader \cup {Unheld} /\ loads \in [Loader -> LoadType]
  BY DEF CandleInv, CandleTyped
<1>12. CASE next < end
  <2>0. [load EXCEPT !.at = next, !.has = candles'] \in LoadType
    <3> HIDE DEF next, load
    <3> QED BY <1>2, <1>4, <1>9 DEF LoadType
  <2>1. PICK new \in LoadType : /\ new = [load EXCEPT !.at = next, !.has = candles']
                                /\ loads' = [loads EXCEPT ![r] = new]
    <3>1. loads' = [loads EXCEPT ![r].at = next, ![r].has = @ \cup ({b \in got : 2 * b <= wall} \ load.has)]
      BY <1>6, <1>12
    <3>2. load.has \cup ({b \in got : 2 * b <= wall} \ load.has) = candles'
      BY <1>2, <1>4
    <3>3. loads' = [loads EXCEPT ![r] = [load EXCEPT !.at = next,
                                            !.has = load.has \cup ({b \in got : 2 * b <= wall} \ load.has)]]
      BY <3>1, <1>11, <1>2 DEF LoadType
    <3> QED BY <2>0, <3>2, <3>3
  <2> HIDE DEF next, end, stop, got, load, S
  <2>2. /\ new \in LoadType /\ new.pc = "fetch" /\ new.op = load.op /\ new.from = load.from /\ new.upto = load.upto
        /\ new.segs = load.segs /\ new.at = next /\ new.has = candles'
    BY <1>1, <1>2, <2>1 DEF LoadType, load
  <2>3. Ordered(new)'
    <3>1. /\ Len(load.segs) \in {1, 2}
          /\ \A i \in 1..Len(load.segs) : load.segs[i][1] < load.segs[i][2] /\ load.segs[i][2] <= wall
          /\ load.op = "hydrate" => load.segs = <<<<load.from, load.upto>>>>
          /\ load.segs \in Seq(Int \X Int)
          /\ Len(load.segs) = 2 => /\ load.segs[1][2] < load.segs[2][1]
                                   /\ \A c \in candles : 2 * c < load.segs[2][1]
      BY <1>2 DEF Ordered, LoadType
    <3>2. Head(load.segs) = load.segs[1]
      BY <3>1
    <3>3. load.segs[1][1] <= next /\ next < load.segs[1][2]
      BY <1>4, <1>5, <1>12, <3>2 DEF end
    <3>4. Len(load.segs) = 2 => \A c \in candles' : 2 * c < load.segs[2][1]
      <4>1. SUFFICES ASSUME Len(load.segs) = 2, NEW c \in got PROVE 2 * c < load.segs[2][1]
        BY <1>4, <3>1
      <4>2. load.segs[2][1] \in Int /\ end < load.segs[2][1] /\ c \in Int
        BY <1>4, <3>1, <3>2, <4>1, CandleBarInt DEF end
      <4> QED BY <1>4, <1>5, <4>2
    <3> QED BY <1>6, <2>2, <3>1, <3>3, <3>4 DEF Ordered
  <2>4. Begun(new)
    BY <1>4, <1>5, <2>2 DEF Begun
  <2>5. Rest(load) \subseteq Between(load.at, Upto(load)) \cup Rest(new) /\ Rest(new) \subseteq Rest(load)
    <3> DEFINE R2 == IF Len(load.segs) = 2 THEN Between(load.segs[2][1], load.segs[2][2]) ELSE {}
    <3>1. Rest(load) = Between(load.at, end) \cup R2 /\ Rest(new) = Between(next, end) \cup R2
      BY <2>2 DEF Rest, end
    <3> HIDE DEF R2
    <3>2. Between(load.at, end) \subseteq Between(load.at, Upto(load)) \cup Between(next, end)
      <4>1. Upto(load) = next - 1 /\ next - 1 \in Int
        BY <1>4, <1>7, <1>12
      <4>2. SUFFICES ASSUME NEW b \in Between(load.at, end)
                     PROVE  b \in Between(load.at, Upto(load)) \cup Between(next, end)
        OBVIOUS
      <4>3. b \in CandleBar /\ b \in Int /\ load.at <= 2 * b /\ 2 * b <= end
        BY <1>5, BetweenFact, CandleBarInt
      <4>4. 2 * b <= next - 1 \/ next <= 2 * b
        BY <1>4, <4>3
      <4> QED BY <1>4, <1>5, <4>1, <4>3, <4>4, BetweenFact
    <3>3. Between(next, end) \subseteq Between(load.at, end)
      <4>1. SUFFICES ASSUME NEW b \in Between(next, end) PROVE b \in Between(load.at, end)
        OBVIOUS
      <4>2. b \in CandleBar /\ b \in Int /\ next <= 2 * b /\ 2 * b <= end
        BY <1>4, <1>5, BetweenFact, CandleBarInt
      <4>3. load.at <= 2 * b
        BY <1>4, <1>5, <4>2
      <4> QED BY <1>5, <4>2, <4>3, BetweenFact
    <3> QED BY <3>1, <3>2, <3>3
  <2>6. got \subseteq Rest(load)
    <3>1. SUFFICES ASSUME NEW b \in got PROVE b \in Between(load.at, end)
      BY <1>5
    <3>2. stop \in Int
      BY <1>2, <1>5, FeedAssumption DEF ChunkEnd, Least, stop
    <3>3. b \in CandleBar /\ load.at <= 2 * b /\ 2 * b <= end
      BY <1>4, <1>5, <3>2, BetweenFact DEF got
    <3> QED BY <1>5, <3>3, BetweenFact
  <2>7. candles' \cup Rest(new) \subseteq candles \cup Rest(load)
        /\ S \subseteq candles' \cup holes' \cup Rest(new)
    BY <1>4, <2>5, <2>6 DEF S
  <2>8. Patched(candles' \cup Rest(new), candles' \cup holes' \cup Rest(new))
    BY <1>3, <2>7, FillsLess
  <2>9. Between(new.from, new.upto) \subseteq candles' \cup holes' \cup Rest(new)
    BY <1>3, <2>2, <2>7 DEF S
  <2>10. Fetching(new)'
    BY <2>2, <2>3, <2>4, <2>8, <2>9 DEF Fetching, Begun, Rest
  <2>11. CandleTyped'
    BY <1>2, <1>6, <1>11, <1>12, <1>10, <2>1, <2>2
  <2> QED BY <1>1, <1>4, <1>6, <1>12, <2>1, <2>2, <2>10, <2>11, FetchGoesOn DEF load
<1>13. CASE ~(next < end) /\ rest # <<>>
  <2>0. [load EXCEPT !.segs = rest, !.at = rest[1][1], !.has = candles'] \in LoadType
    <3>1. rest \in Seq(Int \X Int) /\ rest[1][1] \in Int
      BY <1>5, <1>13
    <3> HIDE DEF load, rest
    <3> QED BY <1>2, <1>9, <3>1 DEF LoadType
  <2>1. PICK new \in LoadType : /\ new = [load EXCEPT !.segs = rest, !.at = rest[1][1], !.has = candles']
                                /\ loads' = [loads EXCEPT ![r] = new]
    <3>1. loads' = [loads EXCEPT ![r].segs = rest, ![r].at = rest[1][1], ![r].has = candles']
      BY <1>6, <1>13
    <3> HIDE DEF rest
    <3>2. loads' = [loads EXCEPT ![r] = [load EXCEPT !.segs = rest, !.at = rest[1][1], !.has = candles']]
      BY <3>1, <1>11, <1>2 DEF LoadType
    <3> QED BY <2>0, <3>2
  <2> DEFINE at == rest[1][1] z == rest[1][2]
  <2>2. /\ load.op # "hydrate" /\ rest \in Seq(Int \X Int) /\ Len(rest) = 1
        /\ at \in Int /\ z \in Int /\ end < at /\ at < z /\ z <= wall
        /\ \A c \in candles : 2 * c < at
        /\ Rest(load) = Between(load.at, end) \cup Between(at, z)
    BY <1>5, <1>13
  <2>3. Head(rest) = rest[1] /\ rest[1] = <<at, z>>
    <3>1. \A T : \A s \in Seq(T) : Len(s) = 1 => Head(s) = s[1] /\ s[1] \in T
      OBVIOUS
    <3>2. rest \in Seq(Int \X Int) /\ Len(rest) = 1
      BY <2>2
    <3> HIDE DEF rest
    <3>3. Head(rest) = rest[1] /\ rest[1] \in Int \X Int
      BY <3>1, <3>2, Zenon
    <3> QED BY <3>3
  <2> HIDE DEF next, end, stop, got, load, S, rest
  <2>4. /\ new \in LoadType /\ new.pc = "fetch" /\ new.op = load.op /\ new.from = load.from /\ new.upto = load.upto
        /\ new.segs = rest /\ new.at = at /\ new.has = candles'
    BY <1>1, <1>2, <2>1 DEF LoadType, load
  <2> HIDE DEF at, z
  <2>5. Ordered(new)'
    <3>1. rest[1][1] = at /\ rest[1][2] = z
      BY <2>3
    <3> QED BY <1>6, <2>2, <2>4, <3>1 DEF Ordered
  <2>6. ~Begun(new) /\ Rest(new) = Between(at, z)
    <3>1. Head(rest)[1] = at /\ Head(rest)[2] = z
      BY <2>3
    <3> QED BY <2>2, <2>4, <3>1 DEF Begun, Rest
  <2>7. Upto(load) = end
    BY <1>7, <1>13
  <2>8. got \subseteq Between(load.at, end)
    <3>1. SUFFICES ASSUME NEW b \in got PROVE b \in Between(load.at, end)
      OBVIOUS
    <3>2. stop \in Int
      BY <1>2, <1>5, FeedAssumption DEF ChunkEnd, Least, stop
    <3>3. b \in CandleBar /\ load.at <= 2 * b /\ 2 * b <= end
      BY <1>4, <1>5, <3>2, BetweenFact DEF got
    <3> QED BY <1>5, <3>3, BetweenFact
  <2>9. candles' \cup Rest(new) \subseteq candles \cup Rest(load)
        /\ S \subseteq candles' \cup holes' \cup Rest(new)
    BY <1>4, <2>2, <2>6, <2>7, <2>8 DEF S
  <2>10. Patched(candles' \cup Rest(new), candles' \cup holes' \cup Rest(new))
    BY <1>3, <2>9, FillsLess
  <2>11. Between(new.from, new.upto) \subseteq candles' \cup holes' \cup Rest(new)
    BY <1>3, <2>4, <2>9 DEF S
  <2>12. Patched(candles', candles' \cup holes')
    <3>1. SUFFICES ASSUME NEW x \in candles', NEW y \in candles', NEW b \in CandleBar, x < b, b < y,
                          b \in Between(at, z)
                   PROVE  FALSE
      BY <2>6, <2>10 DEF Patched
    <3>2. b \in Int /\ y \in Int /\ at <= 2 * b
      BY <1>9, <2>2, <3>1, BetweenFact, CandleBarInt
    <3>3. 2 * y < at
      <4>1. CASE y \in candles
        BY <4>1, <2>2
      <4>2. CASE y \in got
        BY <4>2, <3>2, <1>4, <1>5, <2>2
      <4> QED BY <4>1, <4>2, <1>4
    <3> QED BY <2>2, <3>1, <3>2, <3>3
  <2>13. Fetching(new)'
    BY <2>4, <2>5, <2>6, <2>10, <2>11, <2>12 DEF Fetching, Begun, Rest
  <2>14. CandleTyped'
    BY <1>2, <1>6, <1>11, <1>13, <1>10, <2>1, <2>4
  <2> QED BY <1>1, <1>4, <1>6, <1>13, <2>1, <2>4, <2>13, <2>14, FetchGoesOn DEF load
<1>14. CASE ~(next < end) /\ rest = <<>>
  <2>1. /\ loads' = [loads EXCEPT ![r] = NoLoad] /\ histLock' = Unheld
        /\ unmet' = unmet \cup (Between(load.from, load.upto) \ candles')
    BY <1>6, <1>14
  <2>2. Rest(load) = Between(load.at, end) /\ Upto(load) = end
    BY <1>5, <1>7, <1>14
  <2> HIDE DEF next, end, stop, load, S, rest
  <2>3. got \subseteq Between(load.at, end)
    <3>1. SUFFICES ASSUME NEW b \in got PROVE b \in Between(load.at, end)
      OBVIOUS
    <3>2. stop \in Int
      BY <1>2, <1>5, FeedAssumption DEF ChunkEnd, Least, stop
    <3>3. b \in CandleBar /\ load.at <= 2 * b /\ 2 * b <= end
      BY <1>4, <1>5, <3>2, BetweenFact DEF got
    <3> QED BY <1>5, <3>3, BetweenFact
  <2> HIDE DEF got
  <2>4. candles' \subseteq candles \cup Rest(load) /\ S \subseteq candles' \cup holes'
    BY <1>4, <2>2, <2>3 DEF S
  <2>5. Patched(candles', candles' \cup holes')
    BY <1>3, <2>4, FillsLess
  <2>6. unmet' \subseteq candles' \cup holes'
    BY <1>3, <1>9, <2>1, <2>4 DEF S
  <2>7. CandleTyped'
    <3>1. unmet' \subseteq CandleBar
      BY <1>4, <1>9, <2>6
    <3> QED BY <1>10, <2>1, <3>1, NoLoadType
  <2>8. (Patched(candles, candles \cup holes))' /\ (unmet \subseteq candles \cup holes)'
    BY <2>5, <2>6 DEF Patched
  <2>9. loads[r].pc = "fetch" /\ NoLoad \in LoadType /\ NoLoad.pc # "fetch"
    BY <1>1, NoLoadType DEF load
  <2> QED BY <2>1, <2>7, <2>8, <2>9, FetchEnds
<1> QED BY <1>12, <1>13, <1>14

LEMMA FetchFailsKeeps ==
  ASSUME CandleInv, NEW r \in Loader, FetchFails(r)
  PROVE  CandleInv'
<1> DEFINE load == loads[r]
           end == Head(load.segs)[2]
           rest == Tail(load.segs)
           gone == {b \in Between(load.at, end) \ candles : \E c \in candles : c > b}
<1>1. /\ load.pc = "fetch" /\ outages < MaxOutages /\ outages' = outages + 1 /\ histLock' = Unheld
      /\ holes' = IF Begun(load) THEN holes \cup gone ELSE holes
      /\ loads' = [loads EXCEPT ![r] = IF load.op = "auto" THEN TailOf(load.from, load.upto) ELSE NoLoad]
      /\ UNCHANGED <<feed, wall, candles, unmet>>
  BY DEF FetchFails, Begun
<1>2. /\ load \in LoadType /\ Fetching(load) /\ Ordered(load)
      /\ candles \subseteq CandleBar /\ unmet \subseteq candles \cup holes /\ holes \subseteq CandleBar
  <2>1. /\ load \in LoadType /\ Fetching(load)
        /\ candles \subseteq CandleBar /\ unmet \subseteq candles \cup holes /\ holes \subseteq CandleBar
    BY <1>1 DEF CandleInv, CandleTyped
  <2> HIDE DEF load
  <2> QED BY <2>1 DEF Fetching
<1>3. gone \subseteq CandleBar
  <2>1. Between(load.at, end) \subseteq CandleBar
    BY DEF Between
  <2> QED BY <2>1
<1>4. /\ end \in Int /\ load.at \in Int
      /\ \/ Rest(load) = Between(load.at, end)
         \/ /\ rest[1][1] \in Int /\ rest[1][2] \in Int
            /\ \A c \in candles : 2 * c < rest[1][1]
            /\ Rest(load) = Between(load.at, end) \cup Between(rest[1][1], rest[1][2])
  BY <1>2, PiecesOf DEF LoadType
<1>5. Patched(candles, candles \cup holes')
  <2>1. CASE ~Begun(load)
    BY <1>1, <1>2, <2>1 DEF Fetching
  <2>2. CASE Begun(load)
    <3>1. holes' = holes \cup gone
      BY <1>1, <2>2
    <3>2. Patched(candles \cup Rest(load), candles \cup holes \cup Rest(load))
      BY <1>2, <2>2 DEF Fetching
    <3>3. SUFFICES ASSUME NEW x \in candles, NEW y \in candles, NEW b \in CandleBar, x < b, b < y,
                          b \in Rest(load), b \notin candles
                   PROVE  b \in gone
      BY <3>1, <3>2 DEF Patched
    <3>4. b \in Int /\ y \in Int
      BY <1>2, CandleBarInt
    <3>5. b \in Between(load.at, end)
      <4> HIDE DEF load, end, rest
      <4>1. SUFFICES ASSUME rest[1][1] \in Int, rest[1][2] \in Int, \A c \in candles : 2 * c < rest[1][1],
                            b \in Between(rest[1][1], rest[1][2])
                     PROVE  FALSE
        BY <1>4, <3>3
      <4>2. rest[1][1] <= 2 * b /\ 2 * y < rest[1][1]
        BY <4>1, BetweenFact
      <4> QED BY <3>3, <3>4, <4>1, <4>2
    <3> QED BY <3>3, <3>4, <3>5
  <2> QED BY <2>1, <2>2
<1> DEFINE left == IF load.op = "auto" THEN TailOf(load.from, load.upto) ELSE NoLoad
<1>6. left \in LoadType /\ left.pc # "fetch"
  <2>1. load.from \in Int /\ load.upto \in Int
    BY <1>2 DEF LoadType
  <2> QED BY <2>1, TailOfType, NoLoadType
<1>7. loads' = [loads EXCEPT ![r] = left] /\ loads[r].pc = "fetch"
  BY <1>1
<1>8. holes \subseteq holes' /\ holes' \subseteq CandleBar
  BY <1>1, <1>2, <1>3
<1> HIDE DEF load, end, rest, gone, left
<1>9. CandleTyped'
  <2>1. loads' \in [Loader -> LoadType]
    BY <1>6, <1>7, OneFetches
  <2>2. outages' \in 0..MaxOutages
    BY <1>1, NowAssumption DEF CandleInv, CandleTyped
  <2>3. /\ feed \in Feeds /\ wall \in FirstNow..LastNow /\ unmet \subseteq CandleBar
        /\ \A c \in candles : 2 * c <= wall
    BY DEF CandleInv, CandleTyped
  <2> QED BY <1>1, <1>2, <1>8, <2>1, <2>2, <2>3 DEF CandleTyped
<1>10. (Patched(candles, candles \cup holes))' /\ (unmet \subseteq candles \cup holes)'
  BY <1>1, <1>2, <1>5, <1>8 DEF Patched
<1> QED BY <1>1, <1>6, <1>7, <1>9, <1>10, FetchEnds

-----------------------------------------------------------------------------
(* Candles: the theorems                                                      *)

LEMMA CandlesKeep == CandleInv /\ [CandleNext]_candleVars => CandleInv'
<1> SUFFICES ASSUME CandleInv, [CandleNext]_candleVars PROVE CandleInv'
  OBVIOUS
<1>1. ASSUME NEW r \in Reader, NEW w \in Spans,
             (\E op \in {"read", "auto", "hydrate"} : AskFor(r, op, w)) \/ AskTail(r, w)
      PROVE  CandleInv'
  BY <1>1, AsksKeep
<1>2. CASE SyncOnce
  BY <1>2, SyncKeeps
<1>3. ASSUME NEW r \in Loader, EnsureHistory(r) PROVE CandleInv'
  BY <1>3, EnsureKeeps
<1>4. ASSUME NEW r \in Loader, FetchChunk(r) PROVE CandleInv'
  BY <1>4, ChunkKeeps
<1>5. ASSUME NEW r \in Loader, FetchFails(r) PROVE CandleInv'
  BY <1>5, FetchFailsKeeps
<1>6. CASE Tick
  BY <1>6, TickKeeps
<1>7. CASE UNCHANGED candleVars
  <2>1. UNCHANGED <<feed, wall, candles, histLock, loads, unmet, holes, outages>>
    BY <1>7 DEF candleVars
  <2>2. \A r \in Loader : Fetching(loads[r]) => Fetching(loads[r])'
    BY <2>1 DEF Fetching, Ordered
  <2> QED BY <2>1, <2>2 DEF CandleInv, CandleTyped, Patched
<1> QED BY <1>1, <1>2, <1>3, <1>4, <1>5, <1>6, <1>7 DEF CandleNext

LEMMA CandlesAlways == CandleSpec => []CandleInv
<1>1. CandleInit => CandleInv
  BY CandleInitHolds
<1>2. CandleInv /\ [CandleNext]_candleVars => CandleInv'
  BY CandlesKeep
<1> QED BY <1>1, <1>2, PTL DEF CandleSpec

\* The candles, the loads and their lock keep their types.
THEOREM CandlesTyped == CandleSpec => []CandleTypeOK
<1>1. CandleInv => CandleTypeOK
  BY DEF CandleInv, CandleTyped, CandleTypeOK, LoadType
<1> QED BY <1>1, CandlesAlways, PTL

\* Whatever requests and syncs do, and wherever the broker refuses, a bar missing
\* between the earliest and the latest candle, or in a window whose load returned,
\* is one that _fetch_and_store_history is known to leave behind.
THEOREM CandleGapsAreKnown == CandleSpec => []GapsAreKnown
<1>1. CandleInv => GapsAreKnown
  <2>1. SUFFICES ASSUME CandleInv PROVE GapsAreKnown
    OBVIOUS
  <2>2. unmet \subseteq candles \cup holes /\ candles \subseteq CandleBar
    BY <2>1 DEF CandleInv, CandleTyped
  <2>3. ASSUME histLock = Unheld, candles # {}, NEW b \in Min(candles)..Max(candles)
        PROVE  b \in candles \cup holes
    <3> DEFINE lo == Min(candles) hi == Max(candles)
    <3>1. lo \in candles /\ hi \in candles /\ lo \in CandleBar /\ hi \in CandleBar
      BY <2>2, <2>3, Extremes
    <3>2. Patched(candles, candles \cup holes)
      BY <2>1, <2>3 DEF CandleInv
    <3>0. b \in lo..hi
      BY <2>3
    <3> HIDE DEF lo, hi
    <3>3. lo \in Int /\ hi \in Int /\ lo <= b /\ b <= hi /\ b \in Int
      BY <3>0, <3>1, CandleBarInt
    <3>4. b \in CandleBar
      BY <3>1, <3>3, LastBarFact
    <3>5. CASE b = lo \/ b = hi
      BY <3>1, <3>5
    <3>6. CASE lo < b /\ b < hi
      BY <3>1, <3>2, <3>4, <3>6 DEF Patched
    <3> QED BY <3>3, <3>5, <3>6
  <2> QED BY <2>2, <2>3 DEF GapsAreKnown
<1> QED BY <1>1, CandlesAlways, PTL

-----------------------------------------------------------------------------
(* The scheduler: the inductive invariant                                     *)

BarAt(s, d, m) == <<"BAR", s, [day |-> d, min |-> m]>>

\* The bars of symbol s in the jobs X end at the cursor c; of its day, one grid
\* without a gap up to it, but for what is lost.
Complete(s, X, L, c) ==
  \A d \in Day, n \in 0..Last : BarAt(s, d, n) \in X =>
    /\ d <= c.day
    /\ d = c.day => /\ n <= c.min /\ (c.min - n) % Bar = 0
                    /\ \A m \in n..c.min : (m - n) % Bar = 0 => BarAt(s, d, m) \in X \cup L

OneGrid(X) ==
  \A s \in Sym, d \in Day, n, m \in 0..Last :
    BarAt(s, d, n) \in X /\ BarAt(s, d, m) \in X => (n - m) % Bar = 0

\* What is committed, and what a pass adds to it before it commits.
Committed ==
  /\ \A s \in Sym : Complete(s, queue, lost, cursor[s]) /\ cursor[s].day <= clock.day
  /\ OneGrid(queue)
Passing ==
  /\ pump.clock.day <= clock.day
  /\ OneGrid(queue \cup pump.staged)
  /\ \A s \in Sym : /\ Complete(s, queue \cup pump.staged, lost, pump.cursor[s])
                    /\ pump.cursor[s].day <= pump.clock.day
                    /\ cursor[s].day <= pump.clock.day
                    /\ pump.left[s] > 0 => BarsOpen(pump.clock)

SchedInv == SchedTypeOK /\ Committed /\ (pump.on => Passing)

-----------------------------------------------------------------------------
(* The scheduler: bars on a grid                                              *)

LEMMA Multiple ==
  ASSUME NEW B \in Nat \ {0}, NEW a \in Int
  PROVE  a % B = 0 <=> \E k \in Int : a = k * B
<1>1. \A k \in Int : (k * B) % B = 0
  OBVIOUS
<1>2. a % B = 0 => \E k \in Int : a = k * B
  OBVIOUS
<1> QED BY <1>1, <1>2

LEMMA Multiples ==
  ASSUME NEW B \in Nat \ {0}, NEW a \in Int, NEW b \in Int, a % B = 0, b % B = 0
  PROVE  (a + b) % B = 0 /\ (a - b) % B = 0
<1>1. PICK j \in Int, k \in Int : a = j * B /\ b = k * B
  BY Multiple
<1>2. j + k \in Int /\ j - k \in Int /\ a + b = (j + k) * B /\ a - b = (j - k) * B
  BY <1>1
<1>3. a + b \in Int /\ a - b \in Int
  OBVIOUS
<1> QED BY <1>2, <1>3, Multiple

LEMMA OneStep ==
  ASSUME NEW B \in Nat \ {0}, NEW a \in Int, a % B = 0, 0 < a, a <= B
  PROVE  a = B
OBVIOUS

LEMMA GridFact ==
  /\ 0 % Bar = 0 /\ Bar % Bar = 0 /\ Bar \in Nat \ {0} /\ Last \in Nat /\ Days \in Nat
  /\ Open \in Nat /\ Close \in Nat /\ Close < Last /\ MaxBackfill \in Nat \ {0}
BY ClockAssumption

LEMMA BarAtFact ==
  ASSUME NEW s, NEW d, NEW m, NEW q, NEW e, NEW n, BarAt(s, d, m) = BarAt(q, e, n)
  PROVE  s = q /\ d = e /\ m = n
<1>1. [day |-> d, min |-> m] = [day |-> e, min |-> n] /\ s = q
  BY DEF BarAt
<1>2. [day |-> d, min |-> m].day = d /\ [day |-> d, min |-> m].min = m
  OBVIOUS
<1>3. [day |-> e, min |-> n].day = e /\ [day |-> e, min |-> n].min = n
  OBVIOUS
<1> QED BY <1>1, <1>2, <1>3, Zenon

\* A symbol's bars stay complete where none of its is added and none is forgotten.
LEMMA StaysComplete ==
  ASSUME NEW s, NEW X, NEW L, NEW Y, NEW M, NEW c, Complete(s, X, L, c),
         \A d \in Day, n \in 0..Last : BarAt(s, d, n) \in Y => BarAt(s, d, n) \in X,
         X \cup L \subseteq Y \cup M
  PROVE  Complete(s, Y, M, c)
BY DEF Complete

\* The next bar after the cursor, or the first one of a later day, keeps the grid.
LEMMA AddsBar ==
  ASSUME NEW s \in Sym, NEW X, NEW L, NEW c \in BarEnd \cup {Never}, Complete(s, X, L, c), OneGrid(X),
         NEW d \in Day, NEW m \in 0..Last, c.day <= d, c.day = d => m = c.min + Bar
  PROVE  /\ Complete(s, X \cup {BarAt(s, d, m)}, L, [day |-> d, min |-> m])
         /\ OneGrid(X \cup {BarAt(s, d, m)})
<1> DEFINE Y == X \cup {BarAt(s, d, m)}
<1>1. c.day \in Int /\ c.min \in Int /\ d \in Int /\ m \in Int /\ Bar \in Nat \ {0} /\ Last \in Nat
      /\ Days \in Nat
  BY GridFact DEF BarEnd, Never, Day
<1>2. ASSUME NEW n \in 0..Last, BarAt(s, d, n) \in X
      PROVE  /\ c.day = d /\ m = c.min + Bar /\ n <= c.min /\ n \in Int
             /\ (c.min - n) % Bar = 0 /\ (m - n) % Bar = 0 /\ (n - m) % Bar = 0
             /\ \A k \in n..c.min : (k - n) % Bar = 0 => BarAt(s, d, k) \in X \cup L
  <2>1. d <= c.day
    BY <1>2 DEF Complete
  <2>2. c.day = d /\ n \in Int
    BY <1>1, <2>1
  <2>3. /\ n <= c.min /\ (c.min - n) % Bar = 0
        /\ \A k \in n..c.min : (k - n) % Bar = 0 => BarAt(s, d, k) \in X \cup L
    BY <1>2, <2>2 DEF Complete
  <2>4. m = c.min + Bar
    BY <2>2
  <2>5. c.min - n \in Int /\ Bar \in Int /\ (c.min - n) + Bar = m - n
    BY <1>1, <2>2, <2>4
  <2>6. (m - n) % Bar = 0
    <3>1. ((c.min - n) + Bar) % Bar = 0
      BY <1>1, <2>3, <2>5, GridFact, Multiples
    <3> QED BY <2>5, <3>1
  <2>7. (n - m) % Bar = 0
    <3>1. m - n \in Int /\ 0 - (m - n) = n - m
      BY <1>1, <2>2
    <3>2. (0 - (m - n)) % Bar = 0
      BY <1>1, <2>6, <3>1, GridFact, Multiples
    <3> QED BY <3>1, <3>2
  <2> QED BY <2>2, <2>3, <2>4, <2>6, <2>7
<1>3. Complete(s, Y, L, [day |-> d, min |-> m])
  <2>1. SUFFICES ASSUME NEW e \in Day, NEW n \in 0..Last, BarAt(s, e, n) \in Y
                 PROVE  /\ e <= d
                        /\ e = d => /\ n <= m /\ (m - n) % Bar = 0
                                    /\ \A k \in n..m : (k - n) % Bar = 0 => BarAt(s, e, k) \in Y \cup L
    BY DEF Complete
  <2>2. e \in Int /\ n \in Int
    BY <1>1 DEF Day
  <2>3. CASE BarAt(s, e, n) = BarAt(s, d, m)
    <3>1. e = d /\ n = m
      BY <2>3, BarAtFact
    <3>2. m - n = 0 /\ \A k \in n..m : k = m
      BY <1>1, <3>1
    <3> QED BY <1>1, <2>1, <3>1, <3>2, GridFact
  <2>4. CASE BarAt(s, e, n) \in X
    <3>1. e <= c.day
      BY <2>4 DEF Complete
    <3>2. e <= d
      BY <1>1, <2>2, <3>1
    <3>3. ASSUME e = d
          PROVE  /\ n <= m /\ (m - n) % Bar = 0
                 /\ \A k \in n..m : (k - n) % Bar = 0 => BarAt(s, e, k) \in Y \cup L
      <4>1. /\ m = c.min + Bar /\ n <= c.min /\ (c.min - n) % Bar = 0 /\ (m - n) % Bar = 0
            /\ \A k \in n..c.min : (k - n) % Bar = 0 => BarAt(s, d, k) \in X \cup L
        BY <1>2, <2>4, <3>3
      <4>2. ASSUME NEW k \in n..m, (k - n) % Bar = 0 PROVE BarAt(s, e, k) \in Y \cup L
        <5>1. CASE k <= c.min
          <6>1. k \in n..c.min
            BY <1>1, <2>2, <5>1
          <6> QED BY <3>3, <4>1, <4>2, <6>1
        <5>2. CASE k > c.min
          <6>1. k - n \in Int /\ c.min - n \in Int /\ (k - n) - (c.min - n) = k - c.min
                /\ k - c.min \in Int /\ 0 < k - c.min /\ k - c.min <= Bar
            BY <1>1, <2>2, <4>1, <5>2
          <6>2. (k - c.min) % Bar = 0
            <7>1. ((k - n) - (c.min - n)) % Bar = 0
              BY <1>1, <4>1, <4>2, <6>1, Multiples
            <7> QED BY <6>1, <7>1
          <6>3. k - c.min = Bar
            BY <1>1, <6>1, <6>2, OneStep
          <6>4. k = m
            BY <1>1, <2>2, <4>1, <6>3
          <6> QED BY <3>3, <6>4
        <5> QED BY <1>1, <2>2, <5>1, <5>2
      <4>3. n <= m
        BY <1>1, <2>2, <4>1
      <4> QED BY <4>1, <4>2, <4>3
    <3> QED BY <3>2, <3>3
  <2> QED BY <2>1, <2>3, <2>4
<1>4. OneGrid(Y)
  <2>1. SUFFICES ASSUME NEW q \in Sym, NEW e \in Day, NEW n \in 0..Last, NEW k \in 0..Last,
                        BarAt(q, e, n) \in Y, BarAt(q, e, k) \in Y
                 PROVE  (n - k) % Bar = 0
    BY DEF OneGrid
  <2>2. CASE BarAt(q, e, n) \in X /\ BarAt(q, e, k) \in X
    BY <2>2 DEF OneGrid
  <2>3. CASE BarAt(q, e, n) = BarAt(s, d, m) /\ BarAt(q, e, k) \in X
    <3>1. q = s /\ e = d /\ n = m
      BY <2>3, BarAtFact
    <3> QED BY <1>2, <2>3, <3>1
  <2>4. CASE BarAt(q, e, n) \in X /\ BarAt(q, e, k) = BarAt(s, d, m)
    <3>1. q = s /\ e = d /\ k = m
      BY <2>4, BarAtFact
    <3> QED BY <1>2, <2>4, <3>1
  <2>5. CASE BarAt(q, e, n) = BarAt(s, d, m) /\ BarAt(q, e, k) = BarAt(s, d, m)
    <3>1. n = m /\ k = m
      BY <2>5, BarAtFact
    <3>2. n - k = 0
      BY <1>1, <3>1
    <3> QED BY <3>2, GridFact
  <2> QED BY <2>1, <2>2, <2>3, <2>4, <2>5
<1> QED BY <1>3, <1>4

-----------------------------------------------------------------------------
(* The scheduler: types                                                       *)

PumpType == [on : BOOLEAN, status : DepStatus, clock : Time, staged : SUBSET BarJob,
             cursor : [Sym -> BarEnd \cup {Never}], left : [Sym -> 0..MaxBackfill]]

LEMMA TimeFact ==
  ASSUME NEW t \in Time
  PROVE  t.day \in Day /\ t.half \in Int /\ LatestBar(t) \in Int /\ t.day \in Int /\ t.day >= 0
<1>1. t.day \in Day /\ t.half \in Int
  BY GridFact DEF Time
<1>2. 2 * Bar \in Nat \ {0} /\ t.half - 1 \in Int
  BY <1>1, GridFact
<1>3. (t.half - 1) \div (2 * Bar) \in Int
  BY <1>2
<1>4. LatestBar(t) \in Int
  <2> DEFINE q == (t.half - 1) \div (2 * Bar)
  <2>1. q \in Int
    BY <1>3
  <2> HIDE DEF q
  <2>2. q * Bar \in Int
    BY <2>1, GridFact
  <2> QED BY <2>2 DEF q, LatestBar
<1> QED BY <1>1, <1>4, GridFact DEF Day

LEMMA AsleepFact ==
  /\ Asleep \in PumpType /\ Asleep.on = FALSE /\ Opening \in Time
  /\ [s \in Sym |-> Never] \in [Sym -> BarEnd \cup {Never}]
<1>1. Opening \in Time
  BY ClockAssumption DEF Opening, Time, Day
<1> QED BY <1>1, GridFact DEF Asleep, PumpType, DepStatus

LEMMA NeverFact == Never.day = -1 /\ Never \notin BarEnd
BY GridFact DEF Never, BarEnd, Day

LEMMA BarAtType ==
  ASSUME NEW s \in Sym, NEW d \in Day, NEW m \in 0..Last
  PROVE  BarAt(s, d, m) \in BarJob /\ [day |-> d, min |-> m] \in BarEnd
BY DEF BarAt, BarJob, BarEnd

\* A bar's job is no other job.
LEMMA OtherJobs ==
  ASSUME NEW j \in NowJob \cup DayJob
  PROVE  j[1] # "BAR" /\ \A s, d, m : j # BarAt(s, d, m)
<1>1. j[1] # "BAR"
  BY DEF NowJob, DayJob
<1>2. \A s, d, m : BarAt(s, d, m)[1] = "BAR"
  BY DEF BarAt
<1> QED BY <1>1, <1>2

LEMMA SchedInitHolds == SchedInit => SchedInv
<1> SUFFICES ASSUME SchedInit PROVE SchedInv
  OBVIOUS
<1>1. /\ plan \in Plans /\ dep \in [enabled : BOOLEAN, status : DepStatus] /\ clock = Opening
      /\ cursor = [s \in Sym |-> Never] /\ queue = {} /\ pump = Asleep /\ lost = {} /\ ops = 0 /\ glitches = 0
  BY DEF SchedInit, DepStatus
<1>2. SchedTypeOK
  BY <1>1, AsleepFact, OpAssumption DEF SchedTypeOK, PumpType
<1>3. Committed
  <2>1. \A s \in Sym : cursor[s].day = -1 /\ clock.day = 0
    BY <1>1, NeverFact DEF Opening
  <2> QED BY <1>1, <2>1 DEF Committed, Complete, OneGrid
<1> QED BY <1>1, <1>2, <1>3, AsleepFact DEF SchedInv

\* A step that adds no bar and leaves the pass and the time alone.
LEMMA DemandKeeps ==
  ASSUME SchedInv, dep' \in [enabled : BOOLEAN, status : DepStatus], ops' \in 0..MaxOps,
         UNCHANGED <<plan, clock, cursor, pump, lost, glitches>>,
         NEW new \in SUBSET (NowJob \cup DayJob), queue' = queue \cup new
  PROVE  SchedInv'
<1>1. SchedTypeOK'
  BY DEF SchedInv, SchedTypeOK
<1>2. \A s, d, n : BarAt(s, d, n) \notin new
  BY OtherJobs
<1>3. Committed'
  <2>1. ASSUME NEW s \in Sym PROVE Complete(s, queue', lost', cursor'[s])
    <3>1. Complete(s, queue, lost, cursor[s])
      BY DEF SchedInv, Committed
    <3>2. Complete(s, queue', lost, cursor[s])
      BY <1>2, <3>1, StaysComplete
    <3> QED BY <3>2
  <2>2. OneGrid(queue')
    BY <1>2 DEF SchedInv, Committed, OneGrid
  <2>3. \A s \in Sym : cursor'[s].day <= clock'.day
    BY DEF SchedInv, Committed
  <2> QED BY <2>1, <2>2, <2>3 DEF Committed, Complete, OneGrid
<1>4. ASSUME pump.on PROVE Passing'
  <2>1. Passing
    BY <1>4 DEF SchedInv
  <2>2. ASSUME NEW s \in Sym PROVE Complete(s, queue' \cup pump'.staged, lost', pump'.cursor[s])
    <3>1. Complete(s, queue \cup pump.staged, lost, pump.cursor[s])
      BY <2>1 DEF Passing
    <3>2. Complete(s, queue' \cup pump.staged, lost, pump.cursor[s])
      BY <1>2, <3>1, StaysComplete
    <3> QED BY <3>2
  <2>3. OneGrid(queue' \cup pump'.staged)
    BY <1>2, <2>1 DEF Passing, OneGrid
  <2>4. /\ pump'.clock.day <= clock'.day
        /\ \A s \in Sym : /\ pump'.cursor[s].day <= pump'.clock.day /\ cursor'[s].day <= pump'.clock.day
                          /\ pump'.left[s] > 0 => BarsOpen(pump'.clock)
    BY <2>1 DEF Passing
  <2> QED BY <2>2, <2>3, <2>4 DEF Passing, Complete, OneGrid, BarsOpen, TradingTime, LatestBar
<1> QED BY <1>1, <1>3, <1>4 DEF SchedInv

LEMMA BarNowType ==
  ASSUME SchedInv, NEW kind \in {"RUN_NOW", "ENTER_ON_START"}
  PROVE  BarNow(kind) \subseteq NowJob
<1>1. clock \in Time
  BY DEF SchedInv, SchedTypeOK
<1>2. SUFFICES ASSUME NEW m \in {x \in {LatestBar(clock)} : ~plan.daily /\ BarsOpen(clock)}
               PROVE  <<kind, [day |-> clock.day, min |-> m]>> \in NowJob
  BY DEF BarNow
<1>3. m = LatestBar(clock) /\ BarsOpen(clock)
  OBVIOUS
<1>4. m \in 0..Last /\ clock.day \in Day
  BY <1>1, <1>3, TimeFact, GridFact DEF BarsOpen
<1>5. [day |-> clock.day, min |-> m] \in BarEnd
  BY <1>4 DEF BarEnd
<1> QED BY <1>5 DEF NowJob

\* An operator's request: the deployment's status, and jobs that are not of a bar.
LEMMA OperatorsKeep ==
  ASSUME SchedInv,
         StartOrResume \/ Pause \/ Stop \/ UpdateConfig \/ UpdateEnabled \/ RunNow \/ Resolve
  PROVE  SchedInv'
<1>1. /\ dep \in [enabled : BOOLEAN, status : DepStatus] /\ ops \in 0..MaxOps /\ clock \in Time
  BY DEF SchedInv, SchedTypeOK
<1>2. Operator
  BY DEF StartOrResume, Pause, Stop, UpdateConfig, UpdateEnabled, RunNow, Resolve
<1>3. ops' \in 0..MaxOps /\ UNCHANGED <<plan, clock, cursor, pump, lost, glitches>>
  BY <1>1, <1>2, OpAssumption DEF Operator
<1>4. dep' \in [enabled : BOOLEAN, status : DepStatus]
  <2>1. \A s \in DepStatus : [dep EXCEPT !.status = s] \in [enabled : BOOLEAN, status : DepStatus]
    BY <1>1
  <2>2. \A e \in BOOLEAN, s \in DepStatus :
          [enabled |-> e, status |-> s] \in [enabled : BOOLEAN, status : DepStatus]
    OBVIOUS
  <2>3. "RUNNING" \in DepStatus /\ "PAUSED" \in DepStatus /\ "STOPPED" \in DepStatus
    BY DEF DepStatus
  <2>4. CASE StartOrResume
    <3>1. \E s \in DepStatus : dep' = [enabled |-> TRUE, status |-> s]
      BY <2>3, <2>4 DEF StartOrResume
    <3> QED BY <2>2, <3>1
  <2>5. CASE Pause \/ UpdateConfig \/ Resolve
    <3>1. \E s \in DepStatus : dep' = [dep EXCEPT !.status = s]
      BY <2>3, <2>5 DEF Pause, UpdateConfig, Resolve
    <3> QED BY <2>1, <3>1
  <2>6. CASE Stop \/ UpdateEnabled
    <3>1. \E e \in BOOLEAN, s \in DepStatus : dep' = [enabled |-> e, status |-> s]
      <4>1. (IF dep.status = "PAUSED" THEN "PAUSED" ELSE "RUNNING") \in DepStatus
        BY <2>3
      <4> QED BY <2>3, <2>6, <4>1 DEF Stop, UpdateEnabled
    <3> QED BY <2>2, <3>1
  <2>7. CASE RunNow
    BY <1>1, <2>7 DEF RunNow
  <2> QED BY <2>4, <2>5, <2>6, <2>7
<1>5. \E new \in SUBSET (NowJob \cup DayJob) : queue' = queue \cup new
  <2>1. BarNow("ENTER_ON_START") \subseteq NowJob /\ BarNow("RUN_NOW") \subseteq NowJob
    BY BarNowType
  <2>2. clock.day \in Day
    BY <1>1, TimeFact
  <2>3. {<<"RUN_NOW_PROXY", clock.day>>} \subseteq DayJob /\ {<<"FORCE_FLATTEN", clock.day>>} \subseteq DayJob
    BY <2>2 DEF DayJob
  <2>4. \E new \in {{}, BarNow("ENTER_ON_START"), BarNow("RUN_NOW"), {<<"RUN_NOW_PROXY", clock.day>>},
                    {<<"FORCE_FLATTEN", clock.day>>}} : queue' = queue \cup new
    BY DEF StartOrResume, Pause, Stop, UpdateConfig, UpdateEnabled, RunNow, Resolve
  <2> QED BY <2>1, <2>3, <2>4
<1>6. PICK new \in SUBSET (NowJob \cup DayJob) : queue' = queue \cup new
  BY <1>5
<1> QED BY <1>3, <1>4, <1>6, DemandKeeps

-----------------------------------------------------------------------------
(* The scheduler: the steps of a pass, and of the clock                       *)

LEMMA PassBeginKeeps == ASSUME SchedInv, PassBegin PROVE SchedInv'
<1> DEFINE left == [s \in Sym |-> IF dep.status = "RUNNING" /\ BarsOpen(clock) THEN MaxBackfill ELSE 0]
           new == [on |-> TRUE, status |-> dep.status, clock |-> clock, staged |-> {},
                   cursor |-> cursor, left |-> left]
<1>1. pump' = new /\ UNCHANGED <<plan, dep, clock, cursor, queue, lost, ops, glitches>>
  BY DEF PassBegin, deployment
<1>2. /\ dep.status \in DepStatus /\ clock \in Time /\ cursor \in [Sym -> BarEnd \cup {Never}] /\ SchedTypeOK
  BY DEF SchedInv, SchedTypeOK
<1>3. left \in [Sym -> 0..MaxBackfill] /\ \A s \in Sym : left[s] > 0 => BarsOpen(clock)
  <2>1. MaxBackfill \in 0..MaxBackfill /\ 0 \in 0..MaxBackfill
    BY GridFact
  <2> QED BY <2>1
<1> HIDE DEF left
<1>4. new \in PumpType
  BY <1>2, <1>3 DEF PumpType
<1>5. SchedTypeOK'
  BY <1>1, <1>2, <1>4 DEF SchedTypeOK, PumpType
<1>6. Committed
  BY DEF SchedInv
<1>7. Committed'
  BY <1>1, <1>6 DEF Committed, Complete, OneGrid
<1>8. Passing'
  <2>1. /\ pump'.clock = clock /\ pump'.staged = {} /\ pump'.cursor = cursor /\ pump'.left = left
    BY <1>1
  <2>2. pump'.clock.day <= clock'.day
    BY <1>1, <1>2, <2>1, TimeFact
  <2>3. OneGrid(queue' \cup pump'.staged)
    BY <1>1, <1>6, <2>1 DEF Committed, OneGrid
  <2>4. ASSUME NEW s \in Sym
        PROVE  /\ Complete(s, queue' \cup pump'.staged, lost', pump'.cursor[s])
               /\ pump'.cursor[s].day <= pump'.clock.day /\ cursor'[s].day <= pump'.clock.day
               /\ pump'.left[s] > 0 => BarsOpen(pump'.clock)
    <3>1. Complete(s, queue, lost, cursor[s]) /\ cursor[s].day <= clock.day
      BY <1>6 DEF Committed
    <3>2. queue' \cup pump'.staged = queue
      BY <1>1, <2>1
    <3> QED BY <1>1, <1>3, <2>1, <3>1, <3>2
  <2> QED BY <2>2, <2>3, <2>4 DEF Passing, Complete, OneGrid, BarsOpen, TradingTime, LatestBar
<1> QED BY <1>5, <1>7, <1>8 DEF SchedInv

\* A bar that is due: it closes in the session, and follows the pass's cursor.
LEMMA DueFact ==
  ASSUME SchedInv, NEW s \in Sym, Due(s)
  PROVE  LET c == pump.cursor[s]
         IN  /\ DueBar(s) \in 0..Last /\ pump.clock.day \in Day
             /\ c \in BarEnd \cup {Never} /\ c.day <= pump.clock.day
             /\ c.day = pump.clock.day => DueBar(s) = c.min + Bar
             /\ pump.left[s] \in 1..MaxBackfill /\ pump \in PumpType /\ pump.on /\ Passing
<1> DEFINE c == pump.cursor[s] t == pump.clock m == DueBar(s)
<1>1. /\ pump \in PumpType /\ pump.on /\ Passing /\ pump.left[s] > 0 /\ m <= LatestBar(t)
  BY DEF SchedInv, SchedTypeOK, PumpType, Due
<1>2. /\ t \in Time /\ c \in BarEnd \cup {Never} /\ pump.left[s] \in 0..MaxBackfill
  BY <1>1 DEF PumpType
<1>3. BarsOpen(t) /\ c.day <= t.day
  BY <1>1 DEF Passing
<1>4. /\ t.day \in Day /\ t.day >= 0 /\ t.day \in Int /\ LatestBar(t) \in Int
      /\ Open < LatestBar(t) /\ LatestBar(t) <= Close
  BY <1>2, <1>3, TimeFact DEF BarsOpen
<1>5. c.min \in 0..Last /\ c.day \in Int
  BY <1>2, GridFact DEF BarEnd, Never, Day
<1>6. m = NextBar(c, t)
  BY DEF DueBar
<1> HIDE DEF c, t, m
<1>7. CASE c = Never
  <2>1. m = LatestBar(t)
    BY <1>6, <1>7 DEF NextBar
  <2>2. c.day # t.day
    BY <1>4, <1>7, NeverFact
  <2> QED BY <1>1, <1>2, <1>3, <1>4, <2>1, <2>2, GridFact DEF c, t, m
<1>8. CASE c # Never /\ c.day # t.day
  <2>1. m = Open + Bar
    BY <1>6, <1>8 DEF NextBar
  <2>2. m \in 0..Last
    BY <1>1, <1>4, <2>1, GridFact
  <2> QED BY <1>1, <1>2, <1>3, <1>4, <1>8, <2>2, GridFact DEF c, t, m
<1>9. CASE c # Never /\ c.day = t.day
  <2>1. m = c.min + Bar
    BY <1>6, <1>9 DEF NextBar
  <2>2. m \in 0..Last
    BY <1>1, <1>4, <1>5, <2>1, GridFact
  <2> QED BY <1>1, <1>2, <1>3, <1>4, <2>1, <2>2, GridFact DEF c, t, m
<1> QED BY <1>7, <1>8, <1>9

\* What emitting it makes of the pass.
LEMMA EmitIs ==
  ASSUME SchedInv, NEW s \in Sym, Due(s), NEW staged \in SUBSET BarJob,
         NEW cur \in [Sym -> BarEnd \cup {Never}], Emit(s, staged, cur)
  PROVE  LET d == pump.clock.day
             m == DueBar(s)
         IN  /\ pump' \in PumpType /\ pump'.on /\ pump'.clock = pump.clock
             /\ pump'.staged = staged \cup {BarAt(s, d, m)}
             /\ pump'.cursor = [cur EXCEPT ![s] = [day |-> d, min |-> m]]
             /\ \A q \in Sym : pump'.left[q] > 0 => pump.left[q] > 0
<1> DEFINE d == pump.clock.day m == DueBar(s) due == [day |-> d, min |-> m]
<1>1. /\ m \in 0..Last /\ d \in Day /\ pump.left[s] \in 1..MaxBackfill /\ pump \in PumpType /\ pump.on
  BY DueFact
<1>2. BarAt(s, d, m) \in BarJob /\ due \in BarEnd
  BY <1>1, BarAtType
<1>3. pump' = [pump EXCEPT !.staged = staged \cup {BarAt(s, d, m)},
                           !.cursor = [cur EXCEPT ![s] = due],
                           !.left[s] = @ - 1]
  BY DEF Emit, BarAt
<1> HIDE DEF d, m, due
<1> DEFINE left == [pump.left EXCEPT ![s] = pump.left[s] - 1]
<1>4. pump.left \in [Sym -> 0..MaxBackfill] /\ pump.clock \in Time /\ pump.status \in DepStatus
  BY <1>1 DEF PumpType
<1>5. left \in [Sym -> 0..MaxBackfill] /\ \A q \in Sym : left[q] > 0 => pump.left[q] > 0
  <2>1. pump.left[s] - 1 \in 0..MaxBackfill /\ pump.left[s] > 0
    BY <1>1, GridFact
  <2> QED BY <1>4, <2>1
<1>6. pump' = [pump EXCEPT !.staged = staged \cup {BarAt(s, d, m)},
                           !.cursor = [cur EXCEPT ![s] = due], !.left = left]
  BY <1>1, <1>3 DEF PumpType
<1> HIDE DEF left
<1>7. [cur EXCEPT ![s] = due] \in [Sym -> BarEnd \cup {Never}] /\ staged \cup {BarAt(s, d, m)} \in SUBSET BarJob
  BY <1>2
<1>8. /\ pump'.on = pump.on /\ pump'.status = pump.status /\ pump'.clock = pump.clock
      /\ pump'.staged = staged \cup {BarAt(s, d, m)} /\ pump'.cursor = [cur EXCEPT ![s] = due]
      /\ pump'.left = left
  BY <1>1, <1>6 DEF PumpType
<1>9. pump' \in PumpType
  BY <1>1, <1>5, <1>6, <1>7 DEF PumpType
<1> QED BY <1>1, <1>5, <1>8, <1>9 DEF d, m, due

\* A due bar on top of what is committed by then and what stays staged.
LEMMA EmitKeeps ==
  ASSUME SchedInv, NEW s \in Sym, Due(s), NEW staged \in SUBSET BarJob,
         NEW cur \in [Sym -> BarEnd \cup {Never}], Emit(s, staged, cur),
         UNCHANGED <<plan, dep, clock, ops>>, glitches' \in 0..MaxGlitches,
         queue' \subseteq BarJob \cup NowJob \cup DayJob, lost' \subseteq BarJob,
         cursor' \in [Sym -> BarEnd \cup {Never}],
         \A q \in Sym : Complete(q, queue', lost', cursor'[q]) /\ cursor'[q].day <= pump.clock.day,
         \A q \in Sym : Complete(q, queue' \cup staged, lost', cur[q]) /\ cur[q].day <= pump.clock.day,
         queue' \cup staged \subseteq queue \cup pump.staged,
         queue \cup pump.staged \cup lost \subseteq queue' \cup staged \cup lost'
  PROVE  SchedInv'
<1> DEFINE d == pump.clock.day m == DueBar(s) b == BarAt(s, d, m) due == [day |-> d, min |-> m]
           X == queue \cup pump.staged Y == queue' \cup staged
<1>1. /\ m \in 0..Last /\ d \in Day /\ pump.cursor[s] \in BarEnd \cup {Never} /\ pump.cursor[s].day <= d
      /\ pump.cursor[s].day = d => m = pump.cursor[s].min + Bar
      /\ pump \in PumpType /\ pump.on /\ Passing
  BY DueFact
<1>2. /\ pump' \in PumpType /\ pump'.on /\ pump'.clock = pump.clock
      /\ pump'.staged = staged \cup {b} /\ pump'.cursor = [cur EXCEPT ![s] = due]
      /\ \A q \in Sym : pump'.left[q] > 0 => pump.left[q] > 0
  BY EmitIs
<1>3. Complete(s, X, lost, pump.cursor[s]) /\ OneGrid(X)
  BY <1>1 DEF Passing
<1>4. due.day = d /\ due.min = m
  OBVIOUS
<1> HIDE DEF m
<1>5. Complete(s, X \cup {b}, lost, due) /\ OneGrid(X \cup {b})
  <2> HIDE DEF d, X
  <2> QED BY <1>1, <1>3, AddsBar
<1> HIDE DEF d, b, due
<1>6. Complete(s, Y \cup {b}, lost', due)
  <2> HIDE DEF X, Y
  <2>1. Y \subseteq X /\ (X \cup {b}) \cup lost \subseteq (Y \cup {b}) \cup lost'
    BY DEF X, Y
  <2>2. \A e \in Day, n \in 0..Last : BarAt(s, e, n) \in Y \cup {b} => BarAt(s, e, n) \in X \cup {b}
    BY <2>1
  <2> QED BY <1>5, <2>1, <2>2, StaysComplete
<1>7. ASSUME NEW q \in Sym, q # s PROVE Complete(q, Y \cup {b}, lost', cur[q])
  <2>1. \A e \in Day, n \in 0..Last : BarAt(q, e, n) # b
    BY <1>7, BarAtFact DEF b
  <2>2. Complete(q, Y, lost', cur[q])
    OBVIOUS
  <2> HIDE DEF Y
  <2>3. \A e \in Day, n \in 0..Last : BarAt(q, e, n) \in Y \cup {b} => BarAt(q, e, n) \in Y
    BY <2>1
  <2>4. Y \cup lost' \subseteq (Y \cup {b}) \cup lost'
    OBVIOUS
  <2> QED BY <2>2, <2>3, <2>4, StaysComplete
<1>8. Y \cup {b} = queue' \cup pump'.staged
  BY <1>2
<1>9. pump'.clock.day <= clock'.day
  BY <1>1, <1>2 DEF Passing
<1>10. OneGrid(X \cup {b}) => OneGrid(Y \cup {b}) /\ OneGrid(queue')
  BY DEF OneGrid
<1>11. ASSUME NEW q \in Sym
       PROVE  /\ Complete(q, queue' \cup pump'.staged, lost', pump'.cursor[q])
              /\ pump'.cursor[q].day <= pump'.clock.day
              /\ cursor'[q].day <= pump'.clock.day
              /\ pump'.left[q] > 0 => BarsOpen(pump'.clock)
  <2>1. pump'.left[q] > 0 => BarsOpen(pump'.clock)
    BY <1>1, <1>2 DEF Passing
  <2>2. CASE q = s
    <3>1. pump'.cursor[q] = due
      BY <1>2, <2>2
    <3>2. due.day <= pump'.clock.day
      BY <1>1, <1>2, <1>4, GridFact DEF d, Day
    <3> QED BY <1>2, <1>6, <1>8, <2>1, <2>2, <3>1, <3>2
  <2>3. CASE q # s
    <3>1. pump'.cursor[q] = cur[q]
      BY <1>2, <2>3
    <3> QED BY <1>2, <1>7, <1>8, <2>1, <2>3, <3>1
  <2> QED BY <2>2, <2>3
<1>12. Passing'
  BY <1>5, <1>8, <1>9, <1>10, <1>11 DEF Passing, Complete, OneGrid, BarsOpen, TradingTime, LatestBar
<1>13. Committed'
  <2>1. \A q \in Sym : cursor'[q].day <= clock'.day
    <3>1. SUFFICES ASSUME NEW q \in Sym PROVE cursor'[q].day <= clock'.day
      OBVIOUS
    <3>2. cursor'[q].day <= pump.clock.day /\ pump.clock.day <= clock'.day
      BY <1>2, <1>9
    <3>3. cursor'[q].day \in Int /\ pump.clock.day \in Int /\ clock'.day \in Int
      <4>1. cursor'[q] \in BarEnd \cup {Never} /\ clock \in Time /\ pump.clock \in Time
        BY <1>1 DEF SchedInv, SchedTypeOK, PumpType
      <4> QED BY <4>1, TimeFact, NeverFact DEF BarEnd, Day
    <3> QED BY <3>2, <3>3
  <2> QED BY <1>5, <1>10, <2>1 DEF Committed, Complete, OneGrid
<1>14. SchedTypeOK'
  <2>1. /\ plan \in Plans /\ dep \in [enabled : BOOLEAN, status : DepStatus] /\ clock \in Time
        /\ ops \in 0..MaxOps
    BY DEF SchedInv, SchedTypeOK
  <2> QED BY <1>2, <2>1 DEF SchedTypeOK, PumpType
<1> QED BY <1>12, <1>13, <1>14 DEF SchedInv

LEMMA BarsKeep ==
  ASSUME SchedInv, NEW s \in Sym, PassBar(s) \/ PassBarStored(s) \/ PassBarConflict(s)
  PROVE  SchedInv'
<1>1. Due(s)
  BY DEF PassBar, PassBarStored, PassBarConflict
<1>2. pump \in PumpType /\ Passing
  BY <1>1, DueFact
<1>3. /\ pump.staged \in SUBSET BarJob /\ pump.cursor \in [Sym -> BarEnd \cup {Never}]
  BY <1>2 DEF PumpType
<1>4. /\ queue \subseteq BarJob \cup NowJob \cup DayJob /\ lost \subseteq BarJob
      /\ cursor \in [Sym -> BarEnd \cup {Never}] /\ glitches \in 0..MaxGlitches
  BY DEF SchedInv, SchedTypeOK
<1>5. \A q \in Sym : Complete(q, queue, lost, cursor[q]) /\ cursor[q].day <= pump.clock.day
  BY <1>2 DEF SchedInv, Committed, Passing
<1>6. \A q \in Sym : /\ Complete(q, queue \cup pump.staged, lost, pump.cursor[q])
                     /\ pump.cursor[q].day <= pump.clock.day
  BY <1>2 DEF Passing
<1>7. CASE PassBar(s)
  <2>1. /\ Emit(s, pump.staged, pump.cursor)
        /\ UNCHANGED <<plan, dep, clock, ops, glitches, queue, lost, cursor>>
    BY <1>7 DEF PassBar, deployment
  <2> QED BY <1>1, <1>3, <1>4, <1>5, <1>6, <2>1, EmitKeeps
<1>8. CASE PassBarStored(s)
  <2>1. /\ Emit(s, {}, pump.cursor) /\ UNCHANGED <<plan, dep, clock, ops, glitches, lost>>
        /\ queue' = queue \cup pump.staged /\ cursor' = pump.cursor
    BY <1>8 DEF PassBarStored, deployment
  <2>2. queue' \cup {} = queue \cup pump.staged /\ {} \in SUBSET BarJob
    BY <2>1
  <2>3. queue' \subseteq BarJob \cup NowJob \cup DayJob
    BY <1>3, <1>4, <2>1
  <2> QED BY <1>1, <1>3, <1>4, <1>6, <2>1, <2>2, <2>3, EmitKeeps
<1>9. CASE PassBarConflict(s)
  <2>1. /\ Emit(s, {}, cursor) /\ UNCHANGED <<plan, dep, clock, ops, queue, cursor>>
        /\ glitches < MaxGlitches /\ glitches' = glitches + 1
        /\ lost' = lost \cup (pump.staged \ queue)
    BY <1>9 DEF PassBarConflict, deployment
  <2>2. glitches' \in 0..MaxGlitches
    BY <1>4, <2>1, OpAssumption
  <2>3. \A q \in Sym : Complete(q, queue', lost', cursor'[q])
    <3>1. SUFFICES ASSUME NEW q \in Sym PROVE Complete(q, queue, lost', cursor[q])
      BY <2>1
    <3>2. Complete(q, queue, lost, cursor[q]) /\ queue \cup lost \subseteq queue \cup lost'
      BY <1>5, <2>1
    <3> QED BY <3>2, StaysComplete
  <2>4. queue' \cup {} = queue /\ {} \in SUBSET BarJob /\ queue \cup pump.staged \cup lost \subseteq queue' \cup {} \cup lost'
    BY <2>1
  <2>5. lost' \subseteq BarJob
    BY <1>3, <1>4, <2>1
  <2>6. queue' \cup {} \subseteq queue \cup pump.staged
    BY <2>1
  <2>7. \A q \in Sym : /\ Complete(q, queue' \cup {}, lost', cursor[q]) /\ cursor[q].day <= pump.clock.day
                       /\ cursor'[q].day <= pump.clock.day
    BY <1>5, <2>1, <2>3, <2>4
  <2> QED BY <1>1, <1>4, <2>1, <2>2, <2>3, <2>4, <2>5, <2>6, <2>7, EmitKeeps
<1> QED BY <1>7, <1>8, <1>9

LEMMA PassEndsKeep == ASSUME SchedInv, PassEnd \/ PassDies PROVE SchedInv'
<1>1. pump.on /\ pump \in PumpType /\ Passing /\ Committed
  BY DEF SchedInv, SchedTypeOK, PumpType, PassEnd, PassDies
<1>2. /\ pump' = Asleep /\ UNCHANGED <<plan, dep, clock, ops, lost>> /\ glitches' \in 0..MaxGlitches
  BY OpAssumption DEF SchedInv, SchedTypeOK, PassEnd, PassDies, deployment
<1>3. /\ pump' \in PumpType /\ ~pump'.on
  BY <1>2, AsleepFact
<1>4. ASSUME queue' \subseteq BarJob \cup NowJob \cup DayJob, cursor' \in [Sym -> BarEnd \cup {Never}]
      PROVE  SchedTypeOK'
  BY <1>2, <1>3, <1>4 DEF SchedInv, SchedTypeOK, PumpType
<1>5. CASE PassDies
  <2>1. UNCHANGED <<queue, cursor>>
    BY <1>5 DEF PassDies
  <2>2. SchedTypeOK'
    BY <1>4, <2>1 DEF SchedInv, SchedTypeOK
  <2>3. Committed'
    BY <1>1, <1>2, <2>1 DEF Committed, Complete, OneGrid
  <2> QED BY <1>3, <2>2, <2>3 DEF SchedInv
<1>6. CASE PassEnd
  <2>1. queue' = queue \cup pump.staged \cup Windows(pump.clock) /\ cursor' = pump.cursor
    BY <1>6 DEF PassEnd
  <2>2. Windows(pump.clock) \subseteq DayJob
    BY DEF Windows
  <2>3. SchedTypeOK'
    <3>1. /\ pump.staged \subseteq BarJob /\ pump.cursor \in [Sym -> BarEnd \cup {Never}]
          /\ queue \subseteq BarJob \cup NowJob \cup DayJob
      BY <1>1 DEF PumpType, SchedInv, SchedTypeOK
    <3> QED BY <1>4, <2>1, <2>2, <3>1
  <2>4. \A s, d, m : BarAt(s, d, m) \notin Windows(pump.clock)
    BY <2>2, OtherJobs
  <2>5. ASSUME NEW s \in Sym
        PROVE  Complete(s, queue', lost', cursor'[s]) /\ cursor'[s].day <= clock'.day
    <3>1. Complete(s, queue \cup pump.staged, lost, pump.cursor[s])
      BY <1>1 DEF Passing
    <3>2. Complete(s, queue', lost, pump.cursor[s])
      BY <2>1, <2>4, <3>1, StaysComplete
    <3>3. pump.cursor[s].day <= pump.clock.day /\ pump.clock.day <= clock.day
      BY <1>1 DEF Passing
    <3>4. pump.cursor[s].day \in Int /\ pump.clock.day \in Int /\ clock.day \in Int
      <4>1. pump.cursor[s] \in BarEnd \cup {Never} /\ clock \in Time /\ pump.clock \in Time
        BY <1>1 DEF SchedInv, SchedTypeOK, PumpType
      <4> QED BY <4>1, TimeFact, NeverFact DEF BarEnd, Day
    <3>5. pump.cursor[s].day <= clock.day
      BY <3>3, <3>4
    <3> QED BY <1>2, <2>1, <3>2, <3>5
  <2>6. OneGrid(queue')
    BY <1>1, <2>1, <2>4 DEF Passing, OneGrid
  <2>7. Committed'
    BY <2>5, <2>6 DEF Committed, Complete, OneGrid
  <2> QED BY <1>3, <2>3, <2>7 DEF SchedInv
<1> QED BY <1>5, <1>6

LEMMA ClockKeeps == ASSUME SchedInv, ClockTicks PROVE SchedInv'
<1>1. UNCHANGED <<plan, dep, cursor, queue, pump, lost, ops, glitches>> /\ clock' \in Time /\ clock \in Time
  BY DEF ClockTicks, deployment, SchedInv, SchedTypeOK
<1>2. clock'.day \in Int /\ clock.day \in Int /\ clock.day <= clock'.day
  <2>1. clock'.day \in Int /\ clock.day \in Int
    BY <1>1, TimeFact
  <2>2. clock'.day = clock.day \/ clock'.day = clock.day + 1
    BY <1>1 DEF ClockTicks, Time
  <2> QED BY <2>1, <2>2
<1>3. SchedTypeOK'
  BY <1>1 DEF SchedInv, SchedTypeOK
<1>4. Committed'
  <2>1. ASSUME NEW s \in Sym PROVE cursor[s].day <= clock'.day
    <3>1. cursor[s] \in BarEnd \cup {Never} /\ cursor[s].day <= clock.day
      BY DEF SchedInv, SchedTypeOK, Committed
    <3>2. cursor[s].day \in Int
      BY <3>1, NeverFact DEF BarEnd, Day
    <3> QED BY <1>2, <3>1, <3>2
  <2> QED BY <1>1, <2>1 DEF SchedInv, Committed, Complete, OneGrid
<1>5. ASSUME pump.on PROVE Passing'
  <2>1. Passing /\ pump.clock \in Time
    BY <1>5 DEF SchedInv, SchedTypeOK
  <2>2. pump.clock.day \in Int /\ pump.clock.day <= clock.day
    BY <2>1, TimeFact DEF Passing
  <2>3. pump.clock.day <= clock'.day
    BY <1>2, <2>2
  <2> QED BY <1>1, <2>1, <2>3 DEF Passing, Complete, OneGrid, BarsOpen, TradingTime, LatestBar
<1> QED BY <1>1, <1>3, <1>4, <1>5 DEF SchedInv

-----------------------------------------------------------------------------
(* The scheduler: the theorems                                                *)

LEMMA SchedKeeps == SchedInv /\ [SchedNext]_schedVars => SchedInv'
<1> SUFFICES ASSUME SchedInv, [SchedNext]_schedVars PROVE SchedInv'
  OBVIOUS
<1>1. CASE PassBegin
  BY <1>1, PassBeginKeeps
<1>2. CASE PassEnd \/ PassDies
  BY <1>2, PassEndsKeep
<1>3. ASSUME NEW s \in Sym, PassBar(s) \/ PassBarStored(s) \/ PassBarConflict(s) PROVE SchedInv'
  BY <1>3, BarsKeep
<1>4. CASE StartOrResume \/ Pause \/ Stop \/ UpdateConfig \/ UpdateEnabled \/ RunNow \/ Resolve
  BY <1>4, OperatorsKeep
<1>5. CASE ClockTicks
  BY <1>5, ClockKeeps
<1>6. CASE UNCHANGED schedVars
  <2>1. UNCHANGED <<plan, dep, clock, cursor, queue, pump, lost, ops, glitches>>
    BY <1>6 DEF schedVars, deployment
  <2> QED BY <2>1 DEF SchedInv, SchedTypeOK, Committed, Passing, Complete, OneGrid, BarsOpen, TradingTime, LatestBar
<1> QED BY <1>1, <1>2, <1>3, <1>4, <1>5, <1>6 DEF SchedNext

LEMMA SchedAlways == SchedSpec => []SchedInv
<1>1. SchedInit => SchedInv
  BY SchedInitHolds
<1>2. SchedInv /\ [SchedNext]_schedVars => SchedInv'
  BY SchedKeeps
<1> QED BY <1>1, <1>2, PTL DEF SchedSpec

\* The deployment, the cursors, the queue and the pass keep their types.
THEOREM SchedulerTyped == SchedSpec => []SchedTypeOK
<1>1. SchedInv => SchedTypeOK
  BY DEF SchedInv
<1> QED BY <1>1, SchedAlways, PTL

\* The bar jobs of a symbol and a day keep to one grid, and from the first one
\* enqueued to the cursor none is missing but what a conflict rolled back: over
\* passes that die, prefetches that commit early, pauses and bounded back-fills.
THEOREM DueBarsAreComplete == SchedSpec => []BarsAreComplete
<1>1. SchedInv => BarsAreComplete
  <2>1. SUFFICES ASSUME SchedInv PROVE BarsAreComplete
    OBVIOUS
  <2>2. queue \subseteq BarJob \cup NowJob \cup DayJob /\ Committed /\ cursor \in [Sym -> BarEnd \cup {Never}]
    BY <2>1 DEF SchedInv, SchedTypeOK
  <2>3. ASSUME NEW j \in queue, j[1] = "BAR"
        PROVE  \E s \in Sym, d \in Day, n \in 0..Last :
                 j = BarAt(s, d, n) /\ j[2] = s /\ j[3].day = d /\ j[3].min = n /\ j[3] = [day |-> d, min |-> n]
    <3>1. j \in BarJob
      BY <2>2, <2>3, OtherJobs
    <3>2. PICK s \in Sym, e \in BarEnd : j = <<"BAR", s, e>>
      BY <3>1 DEF BarJob
    <3>3. e = [day |-> e.day, min |-> e.min] /\ e.day \in Day /\ e.min \in 0..Last
      BY DEF BarEnd
    <3> QED BY <3>2, <3>3 DEF BarAt
  <2>4. ASSUME NEW s \in Sym, NEW j \in queue, j[1] = "BAR", j[2] = s, j[3].day = cursor[s].day,
               NEW m \in j[3].min..cursor[s].min, (m - j[3].min) % Bar = 0
        PROVE  <<"BAR", s, [j[3] EXCEPT !.min = m]>> \in queue \cup lost
    <3>1. PICK d \in Day, n \in 0..Last :
            j = BarAt(s, d, n) /\ j[3].day = d /\ j[3].min = n /\ j[3] = [day |-> d, min |-> n]
      BY <2>3, <2>4
    <3>2. Complete(s, queue, lost, cursor[s])
      BY <2>2 DEF Committed
    <3>3. BarAt(s, d, m) \in queue \cup lost
      BY <2>4, <3>1, <3>2 DEF Complete
    <3>4. [j[3] EXCEPT !.min = m] = [day |-> d, min |-> m]
      BY <3>1
    <3> QED BY <3>3, <3>4 DEF BarAt
  <2>5. ASSUME NEW i \in queue, NEW j \in queue, i[1] = "BAR", j[1] = "BAR",
               i[2] = j[2], i[3].day = j[3].day
        PROVE  (i[3].min - j[3].min) % Bar = 0
    <3>1. PICK s \in Sym, d \in Day, n \in 0..Last :
            i = BarAt(s, d, n) /\ i[2] = s /\ i[3].day = d /\ i[3].min = n
      BY <2>3, <2>5
    <3>2. PICK q \in Sym, e \in Day, m \in 0..Last :
            j = BarAt(q, e, m) /\ j[2] = q /\ j[3].day = e /\ j[3].min = m
      BY <2>3, <2>5
    <3>3. q = s /\ e = d
      BY <2>5, <3>1, <3>2
    <3> QED BY <2>2, <3>1, <3>2, <3>3 DEF Committed, OneGrid
  <2> QED BY <2>4, <2>5 DEF BarsAreComplete, NoBarSkipped, BarsOnOneGrid
<1> QED BY <1>1, SchedAlways, PTL

-----------------------------------------------------------------------------
(* Backtests: the inductive invariant                                         *)

ExitWhy == {"none", "TAKE_PROFIT", "STOP_LOSS", "TRAILING_STOP", "EXIT_SIGNAL", "PORTFOLIO_ROTATE_OUT",
            "EQUITY_DD_TRADE", "EQUITY_DD_GLOBAL"}
DealWhy == ExitWhy \cup {"EOD_SQUARE_OFF", "END_OF_TEST"}
EntryWhy == {"none", "ENTRY_SIGNAL", "REENTRY_TREND"}
PositionType == [qty : Int, fill : Nat, from : 0..LastBar, why : EntryWhy, best : Nat, trail : Nat,
                 on : BOOLEAN, top : Int]
TrendType == [why : DealWhy, cool : Int, active : BOOLEAN, broke : BOOLEAN, n : Int]
DealType == [sym : Stock0, from : 0..LastBar, to : 1..LastBar, qty : Int, fill : Nat, price : Nat, why : DealWhy]
PoolType ==
  [cash : Int, pos : [Stock0 -> PositionType], left : [Stock0 -> 0..LastBar],
   entry : [Stock0 -> EntryWhy], exit : [Stock0 -> ExitWhy], re : [Stock0 -> TrendType],
   last : [Stock0 -> Nat], equity : Int, peak : Int, off : BOOLEAN, trades : SUBSET DealType]
SoloType ==
  [cash : Int, pos : PositionType, entry : EntryWhy, exit : ExitWhy, re : TrendType, peak : Int,
   off : BOOLEAN, trades : SUBSET DealType]

\* A position has a price when it has shares, and they are of the backtest's side.
Sound(p) == /\ p.qty = 0 <=> p.fill = 0
            /\ p.qty # 0 => (p.qty < 0 <=> test.short)

\* What the trades have earned, and what the positions have cost.
Gains(trades) == SumFunctionOnSet([t \in trades |-> Earned(t)], trades)
PaidFor(p) == p.qty * p.fill + Leg(p.qty, p.fill, p.qty > 0, TRUE)
Stakes(pos) == SumFunctionOnSet([s \in Stock0 |-> PaidFor(pos[s])], Stock0)

\* No day has ended, before the given bar, on a bar of a symbol that was held.
DaysKept(d, upto) ==
  test.mis => \A s \in Holds(d) : \A day \in SessionOf(d.pos[s].from)..SessionOf(upto) - 1 :
                LastOfSession(day) \notin Bars(s)

\* What every part of a bar keeps.
Books(d) ==
  /\ d \in PoolType /\ IsFiniteSet(d.trades)
  /\ \A s \in Stock0 : /\ Sound(d.pos[s]) /\ d.pos[s].from <= step
                       /\ d.entry[s] # "none" => d.pos[s].qty = 0
                       /\ d.exit[s] # "none" => d.pos[s].qty # 0
  /\ d.cash = Cash0 + Gains(d.trades) - Stakes(d.pos)
  /\ ~test.short => d.cash >= 0
  /\ Cardinality(Holds(d)) <= test.max_open
  /\ d.off => Queued0(d) = {}
  /\ \A t \in d.trades : t.to <= step
  /\ DaysKept(d, step)
Waiting0(d, s) == d.entry[s] # "none" \/ d.exit[s] # "none"
\* Who is held has not left in this bar.
Fresh(d) == \A t \in d.trades : t.to = step => d.pos[t.sym].qty = 0

TestInv ==
  /\ test \in Tests /\ step \in 1..LastBar + 1 /\ apart \in BOOLEAN
  /\ Books(pool) /\ \A t \in pool.trades : t.to < step
  /\ \A s \in Stock0 : pool.pos[s].from < step /\ (Waiting0(pool, s) => Ahead(s))
  /\ solo \in SoloType /\ Sound(solo.pos)

-----------------------------------------------------------------------------
(* Backtests: prices, charges and money                                       *)

LEMMA TestFact ==
  ASSUME test \in Tests
  PROVE  /\ test.bars \in [Stock0 -> SUBSET (1..LastBar)] /\ test.candles \subseteq Candle
         /\ test.slip \in 0..20 /\ test.rate \in 0..20
         /\ test.mis \in BOOLEAN /\ test.short \in BOOLEAN
         /\ test.max_open \in Nat /\ test.size \in Nat /\ test.cap \in Nat /\ test.trail \in Nat
         /\ test.sl \in Nat /\ test.tp \in Nat /\ test.re_cool \in Nat /\ test.hold \in Nat
         /\ test.dd_trade \in Nat /\ test.dd_global \in Nat
         /\ \A c \in test.candles : (c.open * test.slip) % 100 = 0
<1>1. test \in TestType /\ \A c \in test.candles : (c.open * test.slip) % 100 = 0
  BY TestAssumption
<1>2. \A t \in TestType : /\ t.bars \in [Stock0 -> SUBSET (1..LastBar)] /\ t.candles \subseteq Candle
                          /\ t.slip \in 0..20 /\ t.rate \in 0..20
                          /\ t.mis \in BOOLEAN /\ t.short \in BOOLEAN
                          /\ t.max_open \in Nat /\ t.size \in Nat /\ t.cap \in Nat /\ t.trail \in Nat
                          /\ t.sl \in Nat /\ t.tp \in Nat /\ t.re_cool \in Nat /\ t.hold \in Nat
                          /\ t.dd_trade \in Nat /\ t.dd_global \in Nat
  BY DEF TestType
<1> QED BY <1>1, <1>2, Zenon

LEMMA StockFact ==
  /\ Len(Tickers) \in Nat /\ \A n \in 1..Len(Tickers) : Tickers[n] \in Stock0
  /\ \A s \in Stock0 : \E n \in 1..Len(Tickers) : Tickers[n] = s
  /\ IsFiniteSet(Stock0)
<1>1. Len(Tickers) \in Nat /\ DOMAIN Tickers = 1..Len(Tickers) /\ \A n \in 1..Len(Tickers) : Tickers[n] \in Stock0
  BY TickersAssumption
<1>2. \A s \in Stock0 : \E n \in 1..Len(Tickers) : Tickers[n] = s
  BY <1>1 DEF Stock0, Range
<1>3. IsFiniteSet(Range(Tickers))
  <2>1. Tickers \in Surjection(1..Len(Tickers), Range(Tickers))
    <3>1. Tickers \in [1..Len(Tickers) -> Range(Tickers)]
      BY TickersAssumption, LenProperties DEF Stock0
    <3> QED BY <1>2, <3>1 DEF Surjection, Stock0
  <2>2. IsFiniteSet(1..Len(Tickers))
    BY <1>1, FS_Interval
  <2> QED BY <2>1, <2>2, FS_Surjection
<1> QED BY <1>1, <1>2, <1>3 DEF Stock0

LEMMA DivIn ==
  ASSUME NEW a \in Int, NEW b \in Nat \ {0}, NEW q \in Int, q * b <= a, a < (q + 1) * b
  PROVE  a \div b = q
<1> DEFINE d == a \div b
<1>2. d \in Int /\ d * b <= a /\ a < (d + 1) * b
  BY SMTT(30)
<1> HIDE DEF d
<1>3. CASE d < q
  <2>1. (d + 1) * b <= q * b
    BY <1>2, <1>3, SMTT(30)
  <2> QED BY <1>2, <2>1
<1>4. CASE d > q
  <2>1. (q + 1) * b <= d * b
    BY <1>2, <1>4, SMTT(30)
  <2> QED BY <1>2, <2>1
<1>5. d = q
  BY <1>2, <1>3, <1>4
<1> QED BY <1>5 DEF d

LEMMA DivIs ==
  ASSUME NEW a \in Int, NEW b \in Nat \ {0}, NEW q \in Int, a = q * b
  PROVE  a \div b = q
<1>1. q * b <= a /\ a < (q + 1) * b
  BY SMTT(30)
<1> QED BY <1>1, DivIn

\* Slippage is exact, and can be undone.
LEMMA SlippedFact ==
  ASSUME test \in Tests, NEW open \in Nat \ {0}, (open * test.slip) % 100 = 0, NEW buys \in BOOLEAN
  PROVE  /\ Slipped(open, buys) \in Nat \ {0}
         /\ 100 * Slipped(open, buys) = open * (IF buys THEN 100 + test.slip ELSE 100 - test.slip)
         /\ (Slipped(open, buys) * 100) \div (IF buys THEN 100 + test.slip ELSE 100 - test.slip) = open
<1> DEFINE m == IF buys THEN 100 + test.slip ELSE 100 - test.slip
           z == open * test.slip
           k == z \div 100
           p == IF buys THEN open + k ELSE open - k
<1>1. test.slip \in 0..20 /\ m \in Nat \ {0} /\ m >= 80
  <2>1. test.slip \in 0..20
    BY TestFact
  <2>2. \A x \in 0..20 : /\ 100 + x \in Nat \ {0} /\ 100 - x \in Nat \ {0}
                          /\ 100 - x >= 80 /\ 100 + x >= 80
    OBVIOUS
  <2>3. CASE buys
    BY <2>1, <2>2, <2>3
  <2>4. CASE ~buys
    BY <2>1, <2>2, <2>4
  <2> QED BY <2>3, <2>4
<1>2. z \in Int /\ z = 100 * k /\ k \in Int
  <2>1. z \in Int
    BY <1>1
  <2> HIDE DEF z
  <2>2. z % 100 = 0
    BY DEF z
  <2> QED BY <2>1, <2>2
<1>3. p \in Int
  <2> HIDE DEF k
  <2> QED BY <1>2
<1>4. open * m = 100 * p
  <2> HIDE DEF k
  <2>1. CASE buys
    <3>1. open * m = open * 100 + z
      BY <2>1, <1>1
    <3> QED BY <2>1, <3>1, <1>2
  <2>2. CASE ~buys
    <3>1. open * m = open * 100 - z
      BY <2>2, <1>1
    <3> QED BY <2>2, <3>1, <1>2
  <2> QED BY <2>1, <2>2
<1> HIDE DEF p, m, z, k
<1>5. open * m \in Int /\ open * m > 0
  BY <1>1
<1>6. (open * m) \div 100 = p /\ p > 0
  BY <1>3, <1>4, <1>5
<1>7. Slipped(open, buys) = p
  BY <1>6 DEF Slipped, m
<1>8. (p * 100) \div m = open
  <2>1. p * 100 \in Int /\ p * 100 = open * m
    BY <1>3, <1>4
  <2> QED BY <2>1, <1>1, DivIs
<1>9. p \in Nat \ {0} /\ 100 * p = open * m
  BY <1>3, <1>4, <1>6
<1> QED BY <1>7, <1>8, <1>9, Zenon DEF m

LEMMA ChargesFact ==
  ASSUME test \in Tests, NEW turnover \in Nat
  PROVE  /\ Charges(turnover) \in Nat /\ 100 * Charges(turnover) <= 20 * turnover
         /\ turnover = 0 => Charges(turnover) = 0
<1>1. test.rate \in 0..20
  BY TestFact
<1> DEFINE z == turnover * test.rate
<1>2. z \in Nat /\ z <= 20 * turnover /\ (turnover = 0 => z = 0)
  <2>1. test.rate \in Nat /\ test.rate <= 20
    BY <1>1
  <2> QED BY <2>1, SMTT(30)
<1> HIDE DEF z
<1>3. z \div 100 \in Nat /\ 100 * (z \div 100) <= z /\ (z = 0 => z \div 100 = 0)
  BY <1>2
<1>4. Charges(turnover) = z \div 100
  BY DEF Charges, z
<1> HIDE DEF Charges
<1> DEFINE w == z \div 100
<1>5. w \in Nat /\ 100 * w <= z /\ (z = 0 => w = 0) /\ Charges(turnover) = w
  BY <1>3, <1>4
<1> HIDE DEF w
<1> QED BY <1>2, <1>5

\* What is sold pays its charges.
LEMMA SaleFact ==
  ASSUME test \in Tests, NEW n \in Nat, NEW price \in Nat, NEW at \in Nat,
         100 * price >= 80 * at
  PROVE  n * price - Charges(n * at) >= 0
<1> DEFINE a == n * at
           b == n * price
<1>1. a \in Nat /\ b \in Nat
  OBVIOUS
<1>2. 100 * b >= 80 * a
  <2>1. n * (100 * price) >= n * (80 * at)
    <3> DEFINE x == 100 * price
               y == 80 * at
    <3>1. x \in Nat /\ y \in Nat /\ x >= y
      OBVIOUS
    <3> HIDE DEF x, y
    <3>2. n * x >= n * y
      BY <3>1, SMTT(30)
    <3> QED BY <3>2 DEF x, y
  <2>2. n * (100 * price) = 100 * b /\ n * (80 * at) = 80 * a
    OBVIOUS
  <2> QED BY <2>1, <2>2
<1> HIDE DEF a, b
<1>3. Charges(a) \in Nat /\ 100 * Charges(a) <= 20 * a
  BY <1>1, ChargesFact
<1>4. b - Charges(a) >= 0
  BY <1>1, <1>2, <1>3
<1> QED BY <1>4 DEF a, b

Many(q) == IF q < 0 THEN -q ELSE q

LEMMA LegFact ==
  ASSUME test \in Tests, NEW q \in Int, NEW price \in Nat, NEW buys \in BOOLEAN, NEW slipped \in BOOLEAN
  PROVE  /\ Leg(q, price, buys, slipped) \in Nat
         /\ q = 0 => Leg(q, price, buys, slipped) = 0
<1> DEFINE m == IF buys THEN 100 + test.slip ELSE 100 - test.slip
           w == IF slipped THEN (price * 100) \div m ELSE price
           n == IF q < 0 THEN -q ELSE q
<1>1. m \in Nat \ {0}
  <2>1. test.slip \in 0..20
    BY TestFact
  <2>2. \A x \in 0..20 : 100 + x \in Nat \ {0} /\ 100 - x \in Nat \ {0}
    OBVIOUS
  <2>3. CASE buys
    BY <2>1, <2>2, <2>3
  <2>4. CASE ~buys
    BY <2>1, <2>2, <2>4
  <2> QED BY <2>3, <2>4
<1>2. w \in Nat
  <2> HIDE DEF m
  <2>1. (price * 100) \div m \in Nat
    BY <1>1, Quotient
  <2> QED BY <2>1
<1>3. n \in Nat /\ (q = 0 => n = 0)
  OBVIOUS
<1> HIDE DEF n, w
<1>4. n * w \in Nat /\ (n = 0 => n * w = 0)
  BY <1>2, <1>3
<1>5. Charges(n * w) \in Nat /\ (n * w = 0 => Charges(n * w) = 0)
  BY <1>4, ChargesFact
<1>6. Leg(q, price, buys, slipped) = Charges(n * w)
  BY DEF Leg, n, w, m
<1> QED BY <1>3, <1>4, <1>5, <1>6, Zenon

\* The charges of a fill can be read off its price.
LEMMA LegOfSlipped ==
  ASSUME test \in Tests, NEW open \in Nat \ {0}, (open * test.slip) % 100 = 0, NEW buys \in BOOLEAN, NEW q \in Int
  PROVE  Leg(q, Slipped(open, buys), buys, TRUE) = Charges(Many(q) * open)
<1>1. (Slipped(open, buys) * 100) \div (IF buys THEN 100 + test.slip ELSE 100 - test.slip) = open
  BY SlippedFact
<1> QED BY <1>1, Zenon DEF Leg, Many

LEMMA FlatFact == /\ Flat \in PositionType /\ Sound(Flat) /\ Flat.qty = 0 /\ Flat.fill = 0 /\ Flat.from = 0
<1>1. 0 \in 0..LastBar
  BY BarsAssumption
<1>2. Flat \in PositionType
  BY <1>1 DEF Flat, PositionType, EntryWhy
<1>3. Flat.qty = 0 /\ Flat.fill = 0 /\ Flat.from = 0
  BY DEF Flat
<1>4. Sound(Flat)
  BY <1>3, Zenon DEF Sound
<1> QED BY <1>2, <1>3, <1>4

LEMMA PositionFact ==
  ASSUME NEW p \in PositionType
  PROVE  /\ p.qty \in Int /\ p.fill \in Nat /\ p.from \in 0..LastBar /\ p.why \in EntryWhy /\ p.best \in Nat
         /\ p.trail \in Nat /\ p.on \in BOOLEAN /\ p.top \in Int
  BY DEF PositionType

LEMMA CommittedFact ==
  ASSUME test \in Tests, NEW p, p.qty \in Int, p.fill \in Nat
  PROVE  PaidFor(p) \in Int /\ (p.qty = 0 => PaidFor(p) = 0)
<1> DEFINE b == p.qty > 0
           l == Leg(p.qty, p.fill, b, TRUE)
           a == p.qty * p.fill
<1>1. l \in Nat /\ (p.qty = 0 => l = 0)
  <2>1. b \in BOOLEAN /\ TRUE \in BOOLEAN
    OBVIOUS
  <2> HIDE DEF b
  <2> QED BY <2>1, LegFact
<1>2. a \in Int /\ (p.qty = 0 => a = 0)
  OBVIOUS
<1>3. PaidFor(p) = a + l
  BY DEF PaidFor
<1> HIDE DEF a, l
<1> QED BY <1>1, <1>2, <1>3

LEMMA DealFact ==
  ASSUME NEW t \in DealType
  PROVE  /\ t.sym \in Stock0 /\ t.from \in 0..LastBar /\ t.to \in 1..LastBar /\ t.qty \in Int
         /\ t.fill \in Nat /\ t.price \in Nat /\ t.why \in DealWhy
  BY DEF DealType

LEMMA EarnedInt ==
  ASSUME test \in Tests, NEW t \in DealType
  PROVE  Earned(t) \in Int
<1> DEFINE b == t.qty > 0
           e == t.qty < 0
           w == t.why # "EOD_SQUARE_OFF"
           l == Leg(t.qty, t.fill, b, TRUE)
           k == Leg(t.qty, t.price, e, w)
           a == t.qty * (t.price - t.fill)
<1>1. l \in Nat /\ k \in Nat
  <2>1. b \in BOOLEAN /\ e \in BOOLEAN /\ w \in BOOLEAN /\ TRUE \in BOOLEAN
    OBVIOUS
  <2>2. t.qty \in Int /\ t.fill \in Nat /\ t.price \in Nat
    BY DealFact
  <2> HIDE DEF b, e, w
  <2>3. l \in Nat
    BY <2>1, <2>2, LegFact
  <2>4. k \in Nat
    BY <2>1, <2>2, LegFact
  <2> QED BY <2>3, <2>4
<1>2. a \in Int
  <2>1. t.price - t.fill \in Int /\ t.qty \in Int
    BY DealFact
  <2> QED BY <2>1
<1>3. Earned(t) = a - l - k
  BY DEF Earned
<1> HIDE DEF a, l, k
<1> QED BY <1>1, <1>2, <1>3

LEMMA GainsFact ==
  ASSUME test \in Tests, NEW T \in SUBSET DealType, IsFiniteSet(T)
  PROVE  /\ Gains(T) \in Int
         /\ \A t \in DealType : t \notin T => Gains(T \cup {t}) = Gains(T) + Earned(t)
<1> DEFINE F(S) == [t \in S |-> Earned(t)]
<1>1. \A t \in DealType : Earned(t) \in Int
  BY EarnedInt
<1>2. Gains(T) \in Int
  <2> DEFINE f == F(T)
  <2>1. \A x \in T : f[x] \in Int
    BY <1>1
  <2> HIDE DEF f
  <2>2. SumFunctionOnSet(f, T) \in Int
    BY <2>1, SumIsInt
  <2> QED BY <2>2 DEF Gains, f
<1>3. ASSUME NEW t \in DealType, t \notin T
      PROVE  Gains(T \cup {t}) = Gains(T) + Earned(t)
  <2> DEFINE f == F(T)
             g == F(T \cup {t})
  <2>1. (\A x \in T : f[x] \in Int /\ g[x] = f[x]) /\ g[t] \in Int /\ g[t] = Earned(t)
    BY <1>1
  <2> HIDE DEF f, g
  <2>2. SumFunctionOnSet(g, T \cup {t}) = SumFunctionOnSet(f, T) + g[t]
    BY <1>3, <2>1, SumGains
  <2> QED BY <2>1, <2>2 DEF Gains, f, g
<1> QED BY <1>2, <1>3

LEMMA StakesFact ==
  ASSUME test \in Tests, NEW pos \in [Stock0 -> PositionType]
  PROVE  Stakes(pos) \in Int
<1> DEFINE f == [s \in Stock0 |-> PaidFor(pos[s])]
<1>1. \A s \in Stock0 : f[s] \in Int
  <2>1. \A p \in PositionType : PaidFor(p) \in Int
    BY CommittedFact, PositionFact
  <2> QED BY <2>1
<1> HIDE DEF f
<1>2. SumFunctionOnSet(f, Stock0) \in Int
  BY <1>1, SumIsInt, StockFact
<1> QED BY <1>2 DEF Stakes, f

\* One position moves, the others cost what they did.
LEMMA StakesMove ==
  ASSUME test \in Tests, NEW pos \in [Stock0 -> PositionType], NEW end \in [Stock0 -> PositionType],
         NEW s \in Stock0, \A r \in Stock0 \ {s} : end[r] = pos[r]
  PROVE  Stakes(end) = Stakes(pos) - PaidFor(pos[s]) + PaidFor(end[s])
<1> DEFINE f == [r \in Stock0 |-> PaidFor(pos[r])]
           g == [r \in Stock0 |-> PaidFor(end[r])]
           R == Stock0 \ {s}
<1>1. \A p \in PositionType : PaidFor(p) \in Int
  BY CommittedFact, PositionFact
<1>2. /\ \A r \in Stock0 : f[r] \in Int /\ g[r] \in Int
      /\ \A r \in R : g[r] = f[r]
      /\ f[s] = PaidFor(pos[s]) /\ g[s] = PaidFor(end[s])
  BY <1>1
<1>3. Stakes(pos) = SumFunctionOnSet(f, Stock0) /\ Stakes(end) = SumFunctionOnSet(g, Stock0)
  BY DEF Stakes
<1>4. IsFiniteSet(Stock0) /\ IsFiniteSet(R)
  BY StockFact, FS_Subset
<1> HIDE DEF f, g
<1>5. SumFunctionOnSet(f, Stock0) = f[s] + SumFunctionOnSet(f, R)
  BY <1>2, <1>4, SumTakes
<1>6. SumFunctionOnSet(g, Stock0) = g[s] + SumFunctionOnSet(g, R)
  BY <1>2, <1>4, SumTakes
<1>7. SumFunctionOnSet(g, R) = SumFunctionOnSet(f, R)
  <2> HIDE DEF R
  <2> QED BY <1>2, <1>4, SumsAlike
<1>8. SumFunctionOnSet(f, R) \in Int
  <2>1. \A r \in R : f[r] \in Int
    BY <1>2
  <2> HIDE DEF R
  <2> QED BY <2>1, <1>4, SumIsInt
<1> HIDE DEF R
<1> DEFINE x == SumFunctionOnSet(f, R)
           u == f[s]
           v == g[s]
<1>9. Stakes(end) = v + x /\ Stakes(pos) = u + x /\ x \in Int /\ u \in Int /\ v \in Int
  BY <1>2, <1>3, <1>5, <1>6, <1>7, <1>8
<1>10. u = PaidFor(pos[s]) /\ v = PaidFor(end[s])
  BY <1>2
<1> HIDE DEF x, u, v
<1> QED BY <1>9, <1>10

\* Positions of the same shares at the same price cost the same.
LEMMA StakesAlike ==
  ASSUME test \in Tests, NEW pos, NEW end,
         \A r \in Stock0 : end[r].qty = pos[r].qty /\ end[r].fill = pos[r].fill
  PROVE  Stakes(end) = Stakes(pos)
<1> DEFINE f == [r \in Stock0 |-> PaidFor(pos[r])]
           g == [r \in Stock0 |-> PaidFor(end[r])]
<1>1. \A r \in Stock0 : f[r] = g[r]
  BY DEF PaidFor
<1>2. f = g
  BY <1>1
<1> QED BY <1>2 DEF Stakes

-----------------------------------------------------------------------------
(* Backtests: the loops of a bar.  E is a set their bodies stay in, and Q[n]    *)
(* what holds after n symbols.                                                  *)

LEMMA LoopReaches ==
  ASSUME NEW E, NEW Q, NEW N \in Nat, NEW g, g[0] \in E, g[0] \in Q[0],
         \A n \in 1..N : g[n - 1] \in E /\ g[n - 1] \in Q[n - 1] => g[n] \in E /\ g[n] \in Q[n]
  PROVE  g[N] \in E /\ g[N] \in Q[N]
<1> DEFINE Bad == {k \in Nat : k <= N /\ ~(g[k] \in E /\ g[k] \in Q[k])}
<1>1. SUFFICES Bad = {}
  OBVIOUS
<1>2. SUFFICES ASSUME NEW k \in Bad, \A m \in Bad : k <= m PROVE FALSE
  BY SmallestNat
<1>3. k # 0 /\ k \in 1..N /\ k - 1 \in 0..N
  OBVIOUS
<1>4. k - 1 \notin Bad
  BY <1>2, <1>3
<1> QED BY <1>3, <1>4

LEMMA ExitsFillStays ==
  ASSUME NEW c, NEW E, NEW Q, NEW d \in E, d \in Q[0],
         \A e \in E, s \in Stock0 : ExitFills(e, s, c) \in E,
         \A n \in 1..Len(Tickers), e \in E : e \in Q[n - 1] => ExitFills(e, Tickers[n], c) \in Q[n]
  PROVE  ExitsFill(d, c) \in E /\ ExitsFill(d, c) \in Q[Len(Tickers)]
<1> DEFINE N == Len(Tickers)
           Nth(e, s) == ExitFills(e, s, c)
           Is(g) == g = [n \in 0..N |-> IF n = 0 THEN d ELSE Nth(g[n - 1], Tickers[n])]
           body == [p \in E \X (1..N) |-> Nth(p[1], Tickers[p[2]])]
           the == CHOOSE g : Is(g)
<1>1. ExitsFill(d, c) = the[N]
  BY DEF ExitsFill, Through
<1>2. \A e \in E, s \in Stock0 : Nth(e, s) \in E
  OBVIOUS
<1>a. \A n \in 1..N, e \in E : e \in Q[n - 1] => Nth(e, Tickers[n]) \in Q[n]
  OBVIOUS
<1> HIDE DEF Nth
<1>3. \A e \in E, n \in 1..N : body[<<e, n>>] = Nth(e, Tickers[n]) /\ body[<<e, n>>] \in E
  BY <1>2, StockFact
<1>4. \E g : Is(g)
  <2>1. PICK g : Runs(g, body, d, N, E)
    <3>1. N \in Nat /\ StaysIn(body, N, E)
      BY <1>3, StockFact DEF StaysIn
    <3> HIDE DEF body, N
    <3> QED BY <3>1, LoopExists
  <2>2. /\ g \in [0..N -> E] /\ g[0] = d
        /\ \A n \in 1..N : g[n] = body[<<g[n - 1], n>>]
    BY <2>1 DEF Runs
  <2>3. \A n \in 1..N : body[<<g[n - 1], n>>] = Nth(g[n - 1], Tickers[n])
    <3> HIDE DEF body
    <3>1. \A n \in 1..N : g[n - 1] \in E
      BY <2>2, StockFact
    <3> QED BY <1>3, <3>1
  <2> HIDE DEF body
  <2>4. Is(g)
    <3>1. ASSUME NEW n \in 0..N PROVE g[n] = IF n = 0 THEN d ELSE Nth(g[n - 1], Tickers[n])
      <4>1. n = 0 \/ n \in 1..N
        BY StockFact
      <4> HIDE DEF N
      <4> QED BY <2>2, <2>3, <4>1
    <3>2. g = [n \in 0..N |-> g[n]]
      BY <2>2
    <3> QED BY <3>1, <3>2, Zenon
  <2> QED BY <2>4
<1>5. Is(the)
  <2> HIDE DEF Is
  <2> QED BY <1>4
<1> HIDE DEF the
<1>6. the[0] = d /\ \A n \in 1..N : the[n] = Nth(the[n - 1], Tickers[n])
  BY <1>5, StockFact
<1>7. \A n \in 1..N : the[n - 1] \in E /\ the[n - 1] \in Q[n - 1] => the[n] \in E /\ the[n] \in Q[n]
  BY <1>2, <1>a, <1>6, StockFact
<1>8. the[N] \in E /\ the[N] \in Q[N]
  BY <1>6, <1>7, StockFact, LoopReaches
<1> QED BY <1>1, <1>8

LEMMA EntriesFillStays ==
  ASSUME NEW c, NEW E, NEW Q, NEW d \in E, d \in Q[0], NEW slots,
         slots = Max({0, test.max_open - Cardinality(Holds(d))}),
         \A e \in E, s \in Stock0 : EntryFills(e, s, c, slots, d.cash) \in E,
         \A n \in 1..Len(Tickers), e \in E : e \in Q[n - 1] => EntryFills(e, Tickers[n], c, slots, d.cash) \in Q[n]
  PROVE  EntriesFill(d, c) \in E /\ EntriesFill(d, c) \in Q[Len(Tickers)]
<1> DEFINE N == Len(Tickers)
           Nth(e, s) == EntryFills(e, s, c, slots, d.cash)
           Is(g) == g = [n \in 0..N |-> IF n = 0 THEN d ELSE Nth(g[n - 1], Tickers[n])]
           body == [p \in E \X (1..N) |-> Nth(p[1], Tickers[p[2]])]
           the == CHOOSE g : Is(g)
<1>1. EntriesFill(d, c) = the[N]
  BY DEF EntriesFill, Through
<1>2. \A e \in E, s \in Stock0 : Nth(e, s) \in E
  OBVIOUS
<1>a. \A n \in 1..N, e \in E : e \in Q[n - 1] => Nth(e, Tickers[n]) \in Q[n]
  OBVIOUS
<1> HIDE DEF Nth
<1>3. \A e \in E, n \in 1..N : body[<<e, n>>] = Nth(e, Tickers[n]) /\ body[<<e, n>>] \in E
  BY <1>2, StockFact
<1>4. \E g : Is(g)
  <2>1. PICK g : Runs(g, body, d, N, E)
    <3>1. N \in Nat /\ StaysIn(body, N, E)
      BY <1>3, StockFact DEF StaysIn
    <3> HIDE DEF body, N
    <3> QED BY <3>1, LoopExists
  <2>2. /\ g \in [0..N -> E] /\ g[0] = d
        /\ \A n \in 1..N : g[n] = body[<<g[n - 1], n>>]
    BY <2>1 DEF Runs
  <2>3. \A n \in 1..N : body[<<g[n - 1], n>>] = Nth(g[n - 1], Tickers[n])
    <3> HIDE DEF body
    <3>1. \A n \in 1..N : g[n - 1] \in E
      BY <2>2, StockFact
    <3> QED BY <1>3, <3>1
  <2> HIDE DEF body
  <2>4. Is(g)
    <3>1. ASSUME NEW n \in 0..N PROVE g[n] = IF n = 0 THEN d ELSE Nth(g[n - 1], Tickers[n])
      <4>1. n = 0 \/ n \in 1..N
        BY StockFact
      <4> HIDE DEF N
      <4> QED BY <2>2, <2>3, <4>1
    <3>2. g = [n \in 0..N |-> g[n]]
      BY <2>2
    <3> QED BY <3>1, <3>2, Zenon
  <2> QED BY <2>4
<1>5. Is(the)
  <2> HIDE DEF Is
  <2> QED BY <1>4
<1> HIDE DEF the
<1>6. the[0] = d /\ \A n \in 1..N : the[n] = Nth(the[n - 1], Tickers[n])
  BY <1>5, StockFact
<1>7. \A n \in 1..N : the[n - 1] \in E /\ the[n - 1] \in Q[n - 1] => the[n] \in E /\ the[n] \in Q[n]
  BY <1>2, <1>a, <1>6, StockFact
<1>8. the[N] \in E /\ the[N] \in Q[N]
  BY <1>6, <1>7, StockFact, LoopReaches
<1> QED BY <1>1, <1>8

LEMMA SquaredOffStays ==
  ASSUME NEW c, NEW E, NEW Q, NEW d \in E, d \in Q[0],
         test.mis, DayEnds,
         \A e \in E, s \in Stock0 : DayOver(e, s, c) \in E,
         \A n \in 1..Len(Tickers), e \in E : e \in Q[n - 1] => DayOver(e, Tickers[n], c) \in Q[n]
  PROVE  SquaredOff(d, c) \in E /\ SquaredOff(d, c) \in Q[Len(Tickers)]
<1> DEFINE N == Len(Tickers)
           Nth(e, s) == DayOver(e, s, c)
           Is(g) == g = [n \in 0..N |-> IF n = 0 THEN d ELSE Nth(g[n - 1], Tickers[n])]
           body == [p \in E \X (1..N) |-> Nth(p[1], Tickers[p[2]])]
           the == CHOOSE g : Is(g)
<1>1. SquaredOff(d, c) = the[N]
  BY DEF SquaredOff, Through
<1>2. \A e \in E, s \in Stock0 : Nth(e, s) \in E
  OBVIOUS
<1>a. \A n \in 1..N, e \in E : e \in Q[n - 1] => Nth(e, Tickers[n]) \in Q[n]
  OBVIOUS
<1> HIDE DEF Nth
<1>3. \A e \in E, n \in 1..N : body[<<e, n>>] = Nth(e, Tickers[n]) /\ body[<<e, n>>] \in E
  BY <1>2, StockFact
<1>4. \E g : Is(g)
  <2>1. PICK g : Runs(g, body, d, N, E)
    <3>1. N \in Nat /\ StaysIn(body, N, E)
      BY <1>3, StockFact DEF StaysIn
    <3> HIDE DEF body, N
    <3> QED BY <3>1, LoopExists
  <2>2. /\ g \in [0..N -> E] /\ g[0] = d
        /\ \A n \in 1..N : g[n] = body[<<g[n - 1], n>>]
    BY <2>1 DEF Runs
  <2>3. \A n \in 1..N : body[<<g[n - 1], n>>] = Nth(g[n - 1], Tickers[n])
    <3> HIDE DEF body
    <3>1. \A n \in 1..N : g[n - 1] \in E
      BY <2>2, StockFact
    <3> QED BY <1>3, <3>1
  <2> HIDE DEF body
  <2>4. Is(g)
    <3>1. ASSUME NEW n \in 0..N PROVE g[n] = IF n = 0 THEN d ELSE Nth(g[n - 1], Tickers[n])
      <4>1. n = 0 \/ n \in 1..N
        BY StockFact
      <4> HIDE DEF N
      <4> QED BY <2>2, <2>3, <4>1
    <3>2. g = [n \in 0..N |-> g[n]]
      BY <2>2
    <3> QED BY <3>1, <3>2, Zenon
  <2> QED BY <2>4
<1>5. Is(the)
  <2> HIDE DEF Is
  <2> QED BY <1>4
<1> HIDE DEF the
<1>6. the[0] = d /\ \A n \in 1..N : the[n] = Nth(the[n - 1], Tickers[n])
  BY <1>5, StockFact
<1>7. \A n \in 1..N : the[n - 1] \in E /\ the[n - 1] \in Q[n - 1] => the[n] \in E /\ the[n] \in Q[n]
  BY <1>2, <1>a, <1>6, StockFact
<1>8. the[N] \in E /\ the[N] \in Q[N]
  BY <1>6, <1>7, StockFact, LoopReaches
<1> QED BY <1>1, <1>8

LEMMA ReentriesStays ==
  ASSUME NEW c, NEW E, NEW Q, NEW d \in E, d \in Q[0],
         \A e \in E, s \in Stock0 : NextBack(e, c) \in E,
         \A n \in 1..Len(Tickers), e \in E : e \in Q[n - 1] => NextBack(e, c) \in Q[n]
  PROVE  AllBack(d, c) \in E /\ AllBack(d, c) \in Q[Len(Tickers)]
<1> DEFINE N == Len(Tickers)
           Nth(e, s) == NextBack(e, c)
           Is(g) == g = [n \in 0..N |-> IF n = 0 THEN d ELSE Nth(g[n - 1], Tickers[n])]
           body == [p \in E \X (1..N) |-> Nth(p[1], Tickers[p[2]])]
           the == CHOOSE g : Is(g)
<1>1. AllBack(d, c) = the[N]
  BY DEF AllBack, Through
<1>2. \A e \in E, s \in Stock0 : Nth(e, s) \in E
  OBVIOUS
<1>a. \A n \in 1..N, e \in E : e \in Q[n - 1] => Nth(e, Tickers[n]) \in Q[n]
  OBVIOUS
<1> HIDE DEF Nth
<1>3. \A e \in E, n \in 1..N : body[<<e, n>>] = Nth(e, Tickers[n]) /\ body[<<e, n>>] \in E
  BY <1>2, StockFact
<1>4. \E g : Is(g)
  <2>1. PICK g : Runs(g, body, d, N, E)
    <3>1. N \in Nat /\ StaysIn(body, N, E)
      BY <1>3, StockFact DEF StaysIn
    <3> HIDE DEF body, N
    <3> QED BY <3>1, LoopExists
  <2>2. /\ g \in [0..N -> E] /\ g[0] = d
        /\ \A n \in 1..N : g[n] = body[<<g[n - 1], n>>]
    BY <2>1 DEF Runs
  <2>3. \A n \in 1..N : body[<<g[n - 1], n>>] = Nth(g[n - 1], Tickers[n])
    <3> HIDE DEF body
    <3>1. \A n \in 1..N : g[n - 1] \in E
      BY <2>2, StockFact
    <3> QED BY <1>3, <3>1
  <2> HIDE DEF body
  <2>4. Is(g)
    <3>1. ASSUME NEW n \in 0..N PROVE g[n] = IF n = 0 THEN d ELSE Nth(g[n - 1], Tickers[n])
      <4>1. n = 0 \/ n \in 1..N
        BY StockFact
      <4> HIDE DEF N
      <4> QED BY <2>2, <2>3, <4>1
    <3>2. g = [n \in 0..N |-> g[n]]
      BY <2>2
    <3> QED BY <3>1, <3>2, Zenon
  <2> QED BY <2>4
<1>5. Is(the)
  <2> HIDE DEF Is
  <2> QED BY <1>4
<1> HIDE DEF the
<1>6. the[0] = d /\ \A n \in 1..N : the[n] = Nth(the[n - 1], Tickers[n])
  BY <1>5, StockFact
<1>7. \A n \in 1..N : the[n - 1] \in E /\ the[n - 1] \in Q[n - 1] => the[n] \in E /\ the[n] \in Q[n]
  BY <1>2, <1>a, <1>6, StockFact
<1>8. the[N] \in E /\ the[N] \in Q[N]
  BY <1>6, <1>7, StockFact, LoopReaches
<1> QED BY <1>1, <1>8

-----------------------------------------------------------------------------
(* Backtests: what a position's coming and going does to the books            *)

LEMMA SettledFact ==
  ASSUME test \in Tests, NEW cash \in Int, NEW p, p.qty \in Int, NEW price \in Nat, NEW at \in Nat
  PROVE  /\ Settled(cash, p, price, at) \in Int
         /\ Settled(cash, p, price, at) = cash + p.qty * price - Charges(Many(p.qty) * at)
         /\ Charges(Many(p.qty) * at) \in Nat
<1>1. Many(p.qty) \in Nat
  BY DEF Many
<1>2. Many(p.qty) * at \in Nat
  BY <1>1
<1>3. Charges(Many(p.qty) * at) \in Nat
  BY <1>2, ChargesFact
<1>4. Settled(cash, p, price, at) = cash + p.qty * price - Charges(Many(p.qty) * at)
  BY DEF Settled, Size, Many
<1> DEFINE a == p.qty * price
           b == Charges(Many(p.qty) * at)
<1>5. a \in Int
  OBVIOUS
<1>6. b \in Nat /\ Settled(cash, p, price, at) = cash + a - b
  BY <1>3, <1>4
<1> HIDE DEF a, b
<1>7. Settled(cash, p, price, at) \in Int
  BY <1>5, <1>6
<1> QED BY <1>3, <1>4, <1>7

LEMMA PoolFact ==
  ASSUME NEW d \in PoolType
  PROVE  /\ d.cash \in Int /\ d.pos \in [Stock0 -> PositionType] /\ d.left \in [Stock0 -> 0..LastBar]
         /\ d.entry \in [Stock0 -> EntryWhy] /\ d.exit \in [Stock0 -> ExitWhy] /\ d.re \in [Stock0 -> TrendType]
         /\ d.last \in [Stock0 -> Nat] /\ d.equity \in Int /\ d.peak \in Int /\ d.off \in BOOLEAN
         /\ d.trades \in SUBSET DealType
  BY DEF PoolType

LEMMA TradeOfFact ==
  ASSUME test \in Tests, step \in 1..LastBar, NEW s \in Stock0, NEW p \in PositionType, NEW price \in Nat,
         NEW why \in DealWhy
  PROVE  /\ TradeOf(s, p, price, why) \in DealType
         /\ TradeOf(s, p, price, why).sym = s /\ TradeOf(s, p, price, why).to = step
         /\ Earned(TradeOf(s, p, price, why))
              = p.qty * (price - p.fill) - Leg(p.qty, p.fill, p.qty > 0, TRUE)
                - Leg(p.qty, price, p.qty < 0, why # "EOD_SQUARE_OFF")
<1>1. TradeOf(s, p, price, why) \in DealType
  BY PositionFact DEF TradeOf, DealType
<1>2. /\ TradeOf(s, p, price, why).sym = s /\ TradeOf(s, p, price, why).to = step
      /\ TradeOf(s, p, price, why).qty = p.qty /\ TradeOf(s, p, price, why).fill = p.fill
      /\ TradeOf(s, p, price, why).price = price /\ TradeOf(s, p, price, why).why = why
  BY DEF TradeOf
<1> QED BY <1>1, <1>2, Zenon DEF Earned

LEMMA LeftFact ==
  ASSUME test \in Tests, NEW r \in TrendType, NEW why \in DealWhy
  PROVE  Left(r, why) \in TrendType /\ Cooled(r) \in TrendType /\ Returned(r) \in TrendType
<1>1. test.re_cool \in Nat
  BY TestFact
<1> DEFINE c == IF why = "TRAILING_STOP" THEN test.re_cool + 1 ELSE 0
<1>2. c \in Int
  BY <1>1
<1> HIDE DEF c
<1>3. [r EXCEPT !.why = why, !.cool = c] \in TrendType
  BY <1>2 DEF TrendType
<1>4. Left(r, why) \in TrendType
  BY <1>3 DEF Left, c
<1>5. Cooled(r) \in TrendType
  BY DEF Cooled, TrendType
<1>6. Returned(r) \in TrendType
  <2>1. "none" \in DealWhy
    BY DEF DealWhy, ExitWhy
  <2>2. ASSUME NEW w \in DealWhy, NEW k \in Int, NEW z \in Int
        PROVE  [r EXCEPT !.n = k, !.why = w, !.cool = z] \in TrendType
    BY DEF TrendType
  <2> DEFINE k == r.n + 1
             z == 0
             w == "none"
  <2>3. k \in Int /\ z \in Int
    BY DEF TrendType
  <2>4. Returned(r) = [r EXCEPT !.n = k, !.why = w, !.cool = z]
    BY DEF Returned, TrendType
  <2>5. w \in DealWhy
    BY <2>1
  <2> HIDE DEF k, z, w
  <2> QED BY ZenonT(60), <2>2, <2>3, <2>4, <2>5
<1> QED BY <1>4, <1>5, <1>6

LEMMA ExitedShape ==
  ASSUME test \in Tests, step \in 1..LastBar, NEW d \in PoolType, NEW s \in Stock0, NEW price \in Nat,
         NEW at \in Nat, NEW why \in DealWhy
  PROVE  /\ Exited0(d, s, price, at, why) \in PoolType
         /\ Exited0(d, s, price, at, why).cash = Settled(d.cash, d.pos[s], price, at)
         /\ Exited0(d, s, price, at, why).trades = d.trades \cup {TradeOf(s, d.pos[s], price, why)}
         /\ \A r \in Stock0 : Exited0(d, s, price, at, why).pos[r] = IF r = s THEN Flat ELSE d.pos[r]
         /\ Exited0(d, s, price, at, why).exit[s] = "none"
         /\ \A r \in Stock0 \ {s} : Exited0(d, s, price, at, why).exit[r] = d.exit[r]
         /\ Exited0(d, s, price, at, why).entry = d.entry /\ Exited0(d, s, price, at, why).off = d.off /\ Exited0(d, s, price, at, why).equity = d.equity
<1> DEFINE cash == Settled(d.cash, d.pos[s], price, at)
           trades == d.trades \cup {TradeOf(s, d.pos[s], price, why)}
           pos == [d.pos EXCEPT ![s] = Flat]
           exit == [d.exit EXCEPT ![s] = "none"]
           left == [d.left EXCEPT ![s] = step]
           re == [d.re EXCEPT ![s] = IF Reentering THEN Left(d.re[s], why) ELSE d.re[s]]
           e == [d EXCEPT !.cash = cash, !.trades = trades, !.pos = pos, !.exit = exit, !.left = left, !.re = re]
<1>1. Exited0(d, s, price, at, why) = e
  BY PoolFact DEF Exited0
<1>2. cash \in Int
  <2>1. d.cash \in Int /\ d.pos[s].qty \in Int
    BY PoolFact, PositionFact
  <2> QED BY <2>1, SettledFact
<1>3. trades \in SUBSET DealType
  <2>1. d.pos[s] \in PositionType /\ d.trades \in SUBSET DealType
    BY PoolFact
  <2>2. TradeOf(s, d.pos[s], price, why) \in DealType
    BY <2>1, TradeOfFact
  <2> QED BY <2>1, <2>2
<1>4. pos \in [Stock0 -> PositionType]
  BY PoolFact, FlatFact
<1>5. exit \in [Stock0 -> ExitWhy] /\ left \in [Stock0 -> 0..LastBar]
  <2>1. step \in 0..LastBar
    BY BarsAssumption
  <2> QED BY <2>1, PoolFact DEF ExitWhy
<1>6. re \in [Stock0 -> TrendType]
  <2>1. d.re \in [Stock0 -> TrendType] /\ d.re[s] \in TrendType
    BY PoolFact
  <2>2. Left(d.re[s], why) \in TrendType
    BY <2>1, LeftFact
  <2> QED BY <2>1, <2>2
<1> HIDE DEF cash, trades, pos, exit, left, re
<1>7. e \in PoolType
  BY <1>2, <1>3, <1>4, <1>5, <1>6 DEF PoolType
<1>8. /\ e.cash = cash /\ e.trades = trades /\ e.pos = pos /\ e.exit = exit /\ e.entry = d.entry /\ e.off = d.off
      /\ e.equity = d.equity
  BY DEF PoolType
<1>9. /\ \A r \in Stock0 : pos[r] = IF r = s THEN Flat ELSE d.pos[r]
      /\ exit[s] = "none" /\ \A r \in Stock0 \ {s} : exit[r] = d.exit[r]
  BY PoolFact DEF pos, exit
<1> HIDE DEF e
<1> QED BY <1>1, <1>7, <1>8, <1>9, Zenon DEF cash, trades

LEMMA HoldsFact ==
  ASSUME NEW d
  PROVE  IsFiniteSet(Holds(d)) /\ Cardinality(Holds(d)) \in Nat /\ Holds(d) \subseteq Stock0
<1>1. Holds(d) \subseteq Stock0
  BY DEF Holds
<1> QED BY <1>1, StockFact, FS_Subset, FS_CardinalityType

\* The sums add up when a position is closed.
LEMMA ExitAddsUp ==
  ASSUME NEW cash \in Int, NEW cash0 \in Int, NEW gains \in Int, NEW stakes \in Int, NEW q \in Int,
         NEW price \in Int, NEW fill \in Int, NEW l \in Int, NEW k \in Int, cash = cash0 + gains - stakes
  PROVE  cash + q * price - k
           = cash0 + (gains + (q * (price - fill) - l - k)) - (stakes - (q * fill + l) + 0)
<1> DEFINE a == q * price
           b == q * fill
<1>1. q * (price - fill) = a - b /\ a \in Int /\ b \in Int
  OBVIOUS
<1> HIDE DEF a, b
<1>2. cash + a - k = cash0 + (gains + ((a - b) - l - k)) - (stakes - (b + l) + 0)
  BY <1>1
<1>3. \A z : z = a - b => (cash + a - k = cash0 + (gains + (z - l - k)) - (stakes - (b + l) + 0))
  BY <1>2
<1>4. cash + a - k = cash0 + (gains + (q * (price - fill) - l - k)) - (stakes - (b + l) + 0)
  BY <1>1, <1>3
<1> QED BY <1>4 DEF a, b

LEMMA LegInt ==
  ASSUME test \in Tests, NEW q \in Int, NEW price \in Nat
  PROVE  Leg(q, price, q > 0, TRUE) \in Int
<1> DEFINE b == q > 0
           l == Leg(q, price, b, TRUE)
<1>1. b \in BOOLEAN /\ TRUE \in BOOLEAN
  OBVIOUS
<1> HIDE DEF b
<1>2. l \in Nat
  BY <1>1, LegFact
<1> HIDE DEF l
<1>3. l \in Int
  BY <1>2
<1> QED BY <1>3, Zenon DEF l, b

\* The charges that the report of an exit shows are those that were paid.
Charged(q, price, at, why) ==
  Leg(q, price, q < 0, why # "EOD_SQUARE_OFF") = Charges(Many(q) * at)

LEMMA ExitedKeeps ==
  ASSUME test \in Tests, step \in 1..LastBar, NEW d, Books(d), Fresh(d), NEW s \in Stock0, d.pos[s].qty # 0,
         NEW price \in Nat, NEW at \in Nat, NEW why \in DealWhy, test.short \/ 100 * price >= 80 * at,
         Charged(d.pos[s].qty, price, at, why)
  PROVE  Books(Exited0(d, s, price, at, why)) /\ Fresh(Exited0(d, s, price, at, why))
<1> DEFINE e == Exited0(d, s, price, at, why)
           p == d.pos[s]
           t == TradeOf(s, p, price, why)
<1> DEFINE cash == Settled(d.cash, p, price, at)
<1>1. d \in PoolType /\ IsFiniteSet(d.trades)
  BY DEF Books
<1>2. \A r \in Stock0 : /\ Sound(d.pos[r]) /\ d.pos[r].from <= step
                        /\ d.entry[r] # "none" => d.pos[r].qty = 0
                        /\ d.exit[r] # "none" => d.pos[r].qty # 0
  BY DEF Books
<1>3. d.cash = Cash0 + Gains(d.trades) - Stakes(d.pos)
  BY DEF Books
<1>4. /\ ~test.short => d.cash >= 0
      /\ Cardinality(Holds(d)) <= test.max_open
      /\ d.off => Queued0(d) = {}
  BY DEF Books
<1>5. \A u \in d.trades : u.to <= step
  BY DEF Books
<1>6. DaysKept(d, step)
  BY DEF Books
<1>7. e \in PoolType /\ e.entry = d.entry /\ e.off = d.off
  BY <1>1, ExitedShape
<1>8. e.cash = cash
  BY <1>1, ExitedShape
<1>9. e.trades = d.trades \cup {t}
  BY <1>1, ExitedShape
<1>10. /\ \A r \in Stock0 : e.pos[r] = IF r = s THEN Flat ELSE d.pos[r]
       /\ e.exit[s] = "none" /\ \A r \in Stock0 \ {s} : e.exit[r] = d.exit[r]
  BY SMTT(30), <1>1, ExitedShape
<1>11. d.pos \in [Stock0 -> PositionType] /\ p \in PositionType /\ e.pos \in [Stock0 -> PositionType]
  BY <1>1, <1>7, PoolFact
<1>12. d.trades \in SUBSET DealType /\ d.cash \in Int /\ d.exit \in [Stock0 -> ExitWhy]
  BY <1>1, PoolFact
<1>13. p.qty \in Int /\ p.fill \in Nat /\ p.qty # 0
  BY <1>11, PositionFact
<1>14. t \in DealType /\ t.sym = s /\ t.to = step
  BY <1>11, TradeOfFact
<1>15. Earned(t) = p.qty * (price - p.fill) - Leg(p.qty, p.fill, p.qty > 0, TRUE)
                   - Leg(p.qty, price, p.qty < 0, why # "EOD_SQUARE_OFF")
  BY ZenonT(60), <1>11, TradeOfFact
<1>16. t \notin d.trades
  BY <1>14, <1>13 DEF Fresh
<1>17. /\ cash = d.cash + p.qty * price - Charges(Many(p.qty) * at)
       /\ Charges(Many(p.qty) * at) \in Nat
  <2>1. d.cash \in Int /\ p.qty \in Int
    BY <1>12, <1>13
  <2> HIDE DEF p
  <2> QED BY <2>1, SettledFact
<1>18. Leg(p.qty, price, p.qty < 0, why # "EOD_SQUARE_OFF") = Charges(Many(p.qty) * at)
  BY DEF Charged
<1> HIDE DEF e, t, cash
<1>19. IsFiniteSet(e.trades)
  BY <1>1, <1>9, FS_AddElement
<1>20. \A r \in Stock0 : e.pos[r] = IF r = s THEN Flat ELSE d.pos[r]
  BY <1>10
<1>21. \A r \in Stock0 : /\ Sound(e.pos[r]) /\ e.pos[r].from <= step
                         /\ e.entry[r] # "none" => e.pos[r].qty = 0
                         /\ e.exit[r] # "none" => e.pos[r].qty # 0
  <2>2. Sound(Flat) /\ Flat.from <= step /\ Flat.qty = 0
    BY FlatFact
  <2> QED BY <1>2, <1>7, <1>10, <2>2
<1>22. e.cash = Cash0 + Gains(e.trades) - Stakes(e.pos)
  <2> DEFINE l == Leg(p.qty, p.fill, p.qty > 0, TRUE)
             k == Leg(p.qty, price, p.qty < 0, why # "EOD_SQUARE_OFF")
             gains == Gains(d.trades)
             stakes == Stakes(d.pos)
             c == Charges(Many(p.qty) * at)
  <2>1. gains \in Int /\ stakes \in Int
    BY <1>1, <1>11, <1>12, GainsFact, StakesFact
  <2>2. Gains(e.trades) = gains + Earned(t)
    BY <1>1, <1>9, <1>12, <1>14, <1>16, GainsFact
  <2>3. Stakes(e.pos) = stakes - PaidFor(p) + PaidFor(Flat)
    <3>1. /\ e.pos[s] = Flat
          /\ \A r \in Stock0 \ {s} : e.pos[r] = d.pos[r]
      BY <1>20
    <3>2. Stakes(e.pos) = Stakes(d.pos) - PaidFor(d.pos[s]) + PaidFor(e.pos[s])
      BY <1>11, <3>1, StakesMove
    <3> QED BY <3>1, <3>2
  <2>4. PaidFor(Flat) = 0
    BY FlatFact, CommittedFact
  <2>5. PaidFor(p) = p.qty * p.fill + l
    BY DEF PaidFor
  <2>6. Earned(t) = p.qty * (price - p.fill) - l - k
    BY <1>15
  <2>7. e.cash = d.cash + p.qty * price - c /\ c \in Nat
    BY <1>8, <1>17
  <2>8. k = c
    BY <1>18
  <2>9. l \in Int
    <3>1. p.qty \in Int /\ p.fill \in Nat
      BY <1>13
    <3> HIDE DEF p, l
    <3> QED BY <3>1, LegInt DEF l
  <2> HIDE DEF l, k, gains, stakes, c
  <2>10. d.cash = Cash0 + gains - stakes
    BY <1>3 DEF gains, stakes
  <2>11. k \in Int /\ Cash0 \in Int /\ price \in Int /\ p.fill \in Int /\ p.qty \in Int
    BY <1>13, <2>7, <2>8, BarsAssumption
  <2> HIDE DEF p
  <2>12. d.cash + p.qty * price - k
           = Cash0 + (gains + (p.qty * (price - p.fill) - l - k)) - (stakes - (p.qty * p.fill + l) + 0)
    BY <1>12, <2>1, <2>9, <2>10, <2>11, ExitAddsUp
  <2> QED BY <2>2, <2>3, <2>4, <2>5, <2>6, <2>7, <2>8, <2>12, Zenon
<1>23. ~test.short => e.cash >= 0
  <2>1. SUFFICES ASSUME ~test.short PROVE e.cash >= 0
    OBVIOUS
  <2>2. Sound(p)
    BY <1>2
  <2> HIDE DEF p
  <2>3. p.qty > 0
    BY <1>13, <2>1, <2>2 DEF Sound
  <2>4. p.qty \in Nat /\ Many(p.qty) = p.qty
    BY <1>13, <2>3 DEF Many
  <2>5. p.qty * price - Charges(p.qty * at) >= 0
    BY <2>1, <2>4, SaleFact
  <2> DEFINE a == p.qty * price
             c == Charges(Many(p.qty) * at)
  <2>6. e.cash = d.cash + a - c /\ c \in Nat
    BY <1>8, <1>17
  <2>7. a - c >= 0 /\ a \in Int
    BY <2>4, <2>5
  <2> HIDE DEF a, c
  <2>8. d.cash >= 0
    BY <1>4, <2>1
  <2> QED BY <1>12, <2>6, <2>7, <2>8
<1>24. Holds(e) = Holds(d) \ {s}
  BY <1>20, FlatFact DEF Holds
<1>25. Cardinality(Holds(e)) <= test.max_open
  <2>1. IsFiniteSet(Holds(d)) /\ Holds(e) \subseteq Holds(d)
    BY <1>24, HoldsFact
  <2>2. Cardinality(Holds(e)) <= Cardinality(Holds(d)) /\ Cardinality(Holds(e)) \in Nat /\ Cardinality(Holds(d)) \in Nat
    BY <2>1, FS_Subset, HoldsFact
  <2>3. test.max_open \in Nat /\ Cardinality(Holds(d)) <= test.max_open
    BY <1>4, TestFact
  <2> QED BY <2>2, <2>3
<1>26. e.off => Queued0(e) = {}
  BY <1>4, <1>7 DEF Queued0
<1>27. \A u \in e.trades : u.to <= step
  <2>1. t.to <= step
    BY <1>14
  <2> QED BY <1>5, <1>9, <2>1
<1>28. DaysKept(e, step)
  BY <1>6, <1>20, <1>24, HoldsFact DEF DaysKept
<1>29. Fresh(e)
  <2>1. \A u \in e.trades : u = t \/ u \in d.trades
    BY <1>9
  <2>2. e.pos[s].qty = 0
    BY <1>20, FlatFact
  <2>3. ASSUME NEW u \in d.trades, u.to = step PROVE e.pos[u.sym].qty = 0
    <3>1. d.pos[u.sym].qty = 0 /\ u.sym \in Stock0
      BY <1>12, <2>3, DealFact DEF Fresh
    <3> QED BY <3>1, <2>2, <1>20
  <2> QED BY <1>14, <2>1, <2>2, <2>3 DEF Fresh
<1>30. Books(e)
  BY <1>7, <1>19, <1>21, <1>22, <1>23, <1>25, <1>26, <1>27, <1>28 DEF Books
<1> QED BY <1>29, <1>30 DEF e

\* A symbol that left in this bar does not wait to be entered.
Ready(d) == \A t \in d.trades : t.to = step => d.entry[t.sym] = "none"

LEMMA MostFact ==
  ASSUME NEW a \in Int, NEW b \in Int
  PROVE  /\ Max({a, b}) \in {a, b} /\ Max({a, b}) >= a /\ Max({a, b}) >= b
         /\ Min({a, b}) \in {a, b} /\ Min({a, b}) <= a /\ Min({a, b}) <= b
<1>1. \E x \in {a, b} : \A y \in {a, b} : x >= y
  OBVIOUS
<1>2. \E x \in {a, b} : \A y \in {a, b} : x <= y
  OBVIOUS
<1>3. Max({a, b}) \in {a, b} /\ \A y \in {a, b} : Max({a, b}) >= y
  BY <1>1 DEF Max
<1>4. Min({a, b}) \in {a, b} /\ \A y \in {a, b} : Min({a, b}) <= y
  BY <1>2 DEF Min
<1> QED BY <1>3, <1>4

\* What an entry makes of a symbol.
LEMMA OpenedFact ==
  ASSUME step \in 1..LastBar, NEW qty \in Int, NEW fill \in Nat, NEW why \in EntryWhy, NEW top \in Int
  PROVE  /\ Opened0(qty, fill, why, top) \in PositionType
         /\ Opened0(qty, fill, why, top).qty = qty /\ Opened0(qty, fill, why, top).fill = fill
         /\ Opened0(qty, fill, why, top).from = step
<1> DEFINE z == FALSE
           trail == fill * 100
<1>1. step \in 0..LastBar /\ trail \in Nat /\ z \in BOOLEAN
  BY BarsAssumption
<1>2. Opened0(qty, fill, why, top)
        = [qty |-> qty, fill |-> fill, from |-> step, why |-> why, best |-> fill, trail |-> trail, on |-> z,
           top |-> top]
  BY DEF Opened0
<1> HIDE DEF z, trail
<1> QED BY <1>1, <1>2 DEF PositionType

IsEntry(e, d, s, qty, price, paid) ==
  /\ e \in PoolType /\ e.cash = paid /\ e.trades = d.trades /\ e.exit = d.exit /\ e.off = d.off
  /\ \A r \in Stock0 : e.pos[r] = IF r = s THEN Opened0(qty, price, d.entry[s], d.equity) ELSE d.pos[r]
  /\ \A r \in Stock0 : e.entry[r] = IF r = s THEN "none" ELSE d.entry[r]
LEMMA EntryShape ==
  ASSUME test \in Tests, step \in 1..LastBar, NEW d \in PoolType, NEW s \in Stock0, NEW qty \in Int,
         NEW price \in Nat, NEW paid \in Int
  PROVE  IsEntry(EntryTaken(d, s, qty, price, paid), d, s, qty, price, paid)
<1> DEFINE new == Opened0(qty, price, d.entry[s], d.equity)
           pos == [d.pos EXCEPT ![s] = new]
           entry == [d.entry EXCEPT ![s] = "none"]
           re == [d.re EXCEPT ![s] = IF d.entry[s] = "REENTRY_TREND" THEN Returned(d.re[s]) ELSE d.re[s]]
           e == [d EXCEPT !.cash = paid, !.pos = pos, !.entry = entry, !.re = re]
<1>1. EntryTaken(d, s, qty, price, paid) = e
  BY PoolFact DEF EntryTaken
<1>2. new \in PositionType
  <2>1. d.entry[s] \in EntryWhy /\ d.equity \in Int
    BY PoolFact
  <2> QED BY <2>1, OpenedFact
<1> HIDE DEF new
<1>3. pos \in [Stock0 -> PositionType]
  BY <1>2, PoolFact
<1>4. entry \in [Stock0 -> EntryWhy]
  BY PoolFact DEF EntryWhy
<1>5. re \in [Stock0 -> TrendType]
  <2>1. d.re \in [Stock0 -> TrendType] /\ d.re[s] \in TrendType
    BY PoolFact
  <2>2. Returned(d.re[s]) \in TrendType
    <3>1. "none" \in DealWhy
      BY DEF DealWhy, ExitWhy
    <3> QED BY <2>1, <3>1, LeftFact
  <2> QED BY <2>1, <2>2
<1> HIDE DEF pos, entry, re
<1>6. e \in PoolType
  BY <1>3, <1>4, <1>5 DEF PoolType
<1>7. e.cash = paid /\ e.trades = d.trades /\ e.pos = pos /\ e.exit = d.exit /\ e.entry = entry /\ e.off = d.off
  BY DEF PoolType
<1>8. /\ \A r \in Stock0 : pos[r] = IF r = s THEN new ELSE d.pos[r]
      /\ \A r \in Stock0 : entry[r] = IF r = s THEN "none" ELSE d.entry[r]
  BY PoolFact DEF pos, entry
<1> HIDE DEF e
<1>9. IsEntry(e, d, s, qty, price, paid)
  BY <1>6, <1>7, <1>8 DEF IsEntry, new
<1> QED BY <1>1, <1>9

\* The cost of a position, as a function of its shares and its price.
CostOf(qty, fill) == qty * fill + Leg(qty, fill, qty > 0, TRUE)

LEMMA EntryKeeps ==
  ASSUME test \in Tests, step \in 1..LastBar, NEW d, Books(d), Fresh(d), Ready(d), NEW s \in Stock0,
         d.entry[s] # "none", NEW qty \in Int, qty # 0, qty < 0 <=> test.short, NEW price \in Nat \ {0},
         NEW paid \in Int, CostOf(qty, price) \in Int, paid = d.cash - CostOf(qty, price), test.short \/ paid >= 0,
         Cardinality(Holds(d)) < test.max_open
  PROVE  /\ Books(EntryTaken(d, s, qty, price, paid)) /\ Fresh(EntryTaken(d, s, qty, price, paid))
         /\ Ready(EntryTaken(d, s, qty, price, paid))
<1> DEFINE e == EntryTaken(d, s, qty, price, paid)
           new == Opened0(qty, price, d.entry[s], d.equity)
<1>1. d \in PoolType /\ IsFiniteSet(d.trades)
  BY DEF Books
<1>2. \A r \in Stock0 : /\ Sound(d.pos[r]) /\ d.pos[r].from <= step
                        /\ d.entry[r] # "none" => d.pos[r].qty = 0
                        /\ d.exit[r] # "none" => d.pos[r].qty # 0
  BY DEF Books
<1>3. d.cash = Cash0 + Gains(d.trades) - Stakes(d.pos)
  BY DEF Books
<1>4. d.off => Queued0(d) = {}
  BY DEF Books
<1>5. \A u \in d.trades : u.to <= step
  BY DEF Books
<1>6. DaysKept(d, step)
  BY DEF Books
<1>0. price \in Nat
  OBVIOUS
<1>a. d \in PoolType
  BY <1>1
<1>b. IsEntry(e, d, s, qty, price, paid)
  BY <1>0, <1>a, EntryShape
<1> HIDE DEF e
<1>7. e \in PoolType /\ e.cash = paid /\ e.trades = d.trades /\ e.exit = d.exit /\ e.off = d.off
  BY <1>b DEF IsEntry
<1>8. /\ \A r \in Stock0 : e.pos[r] = IF r = s THEN new ELSE d.pos[r]
      /\ \A r \in Stock0 : e.entry[r] = IF r = s THEN "none" ELSE d.entry[r]
  BY <1>b DEF IsEntry
<1>9. new \in PositionType /\ new.qty = qty /\ new.fill = price /\ new.from = step
  <2>1. d.entry[s] \in EntryWhy /\ d.equity \in Int
    BY <1>1, PoolFact
  <2> QED BY <2>1, OpenedFact
<1>10. d.pos \in [Stock0 -> PositionType] /\ e.pos \in [Stock0 -> PositionType]
  BY <1>1, <1>7, PoolFact
<1>11. d.trades \in SUBSET DealType /\ d.cash \in Int
  BY <1>1, PoolFact
<1>12. d.pos[s].qty = 0 /\ d.exit[s] = "none"
  BY <1>2
<1> HIDE DEF new
<1>13. \A r \in Stock0 : /\ Sound(e.pos[r]) /\ e.pos[r].from <= step
                         /\ e.entry[r] # "none" => e.pos[r].qty = 0
                         /\ e.exit[r] # "none" => e.pos[r].qty # 0
  <2>1. Sound(new)
    BY <1>9 DEF Sound
  <2> QED BY <1>2, <1>7, <1>8, <1>9, <1>12, <2>1
<1>14. e.cash = Cash0 + Gains(e.trades) - Stakes(e.pos)
  <2> DEFINE gains == Gains(d.trades)
             stakes == Stakes(d.pos)
             cost == CostOf(qty, price)
  <2>1. gains \in Int /\ stakes \in Int /\ cost \in Int
    BY <1>1, <1>10, <1>11, GainsFact, StakesFact
  <2>2. Stakes(e.pos) = stakes - PaidFor(d.pos[s]) + PaidFor(e.pos[s])
    <3>1. \A r \in Stock0 \ {s} : e.pos[r] = d.pos[r]
      BY <1>8
    <3> QED BY <1>10, <3>1, StakesMove
  <2>3. PaidFor(d.pos[s]) = 0
    BY <1>10, <1>12, CommittedFact, PositionFact
  <2>4. PaidFor(e.pos[s]) = cost
    BY <1>8, <1>9 DEF PaidFor, CostOf
  <2> HIDE DEF gains, stakes, cost
  <2>5. d.cash = Cash0 + gains - stakes /\ paid = d.cash - cost
    BY <1>3 DEF gains, stakes, cost
  <2>6. paid = Cash0 + gains - (stakes - 0 + cost)
    BY <1>11, <2>1, <2>5, BarsAssumption
  <2>7. e.cash = paid /\ Gains(e.trades) = gains
    BY <1>7 DEF gains
  <2> QED BY <2>2, <2>3, <2>4, <2>6, <2>7, Zenon
<1>15. ~test.short => e.cash >= 0
  BY <1>7
<1>16. Holds(e) = Holds(d) \cup {s} /\ s \notin Holds(d)
  BY <1>8, <1>9, <1>12 DEF Holds
<1>17. Cardinality(Holds(e)) <= test.max_open
  <2>1. Cardinality(Holds(e)) = Cardinality(Holds(d)) + 1
    BY <1>16, HoldsFact, FS_AddElement
  <2>2. test.max_open \in Nat /\ Cardinality(Holds(d)) \in Nat
    BY TestFact, HoldsFact
  <2> QED BY <2>1, <2>2
<1>18. e.off => Queued0(e) = {}
  BY <1>4, <1>7 DEF Queued0
<1>19. \A u \in e.trades : u.to <= step
  BY <1>5, <1>7
<1>20. DaysKept(e, step)
  <2>1. SUFFICES ASSUME test.mis, NEW r \in Holds(e), NEW day \in SessionOf(e.pos[r].from)..SessionOf(step) - 1
                 PROVE  LastOfSession(day) \notin Bars(r)
    BY DEF DaysKept
  <2>2. CASE r = s
    <3>1. e.pos[r].from = step
      BY <1>8, <1>9, <2>2
    <3>2. SessionOf(step) \in Int
      BY BarsAssumption DEF SessionOf
    <3>3. SessionOf(step)..SessionOf(step) - 1 = {}
      <4> DEFINE x == SessionOf(step)
      <4>1. x \in Int
        BY <3>2
      <4> HIDE DEF x
      <4>2. x..x - 1 = {}
        BY <4>1
      <4> QED BY <4>2 DEF x
    <3> QED BY <3>1, <3>3
  <2>3. CASE r # s
    <3>1. r \in Holds(d) /\ e.pos[r] = d.pos[r]
      BY <1>8, <1>16, <2>3, HoldsFact
    <3> QED BY <1>6, <2>1, <3>1 DEF DaysKept
  <2> QED BY <2>2, <2>3
<1>21. Fresh(e) /\ Ready(e)
  <2>1. ASSUME NEW u \in e.trades, u.to = step PROVE e.pos[u.sym].qty = 0 /\ e.entry[u.sym] = "none"
    <3>1. d.pos[u.sym].qty = 0 /\ u.sym \in Stock0 /\ d.entry[u.sym] = "none"
      BY <1>7, <1>11, <2>1, DealFact DEF Fresh, Ready
    <3> QED BY <1>8, <3>1
  <2> QED BY <2>1 DEF Fresh, Ready
<1>22. IsFiniteSet(e.trades)
  BY <1>1, <1>7
<1>23. Books(e)
  BY <1>7, <1>13, <1>14, <1>15, <1>17, <1>18, <1>19, <1>20, <1>22 DEF Books
<1> QED BY <1>21, <1>23 DEF e

-----------------------------------------------------------------------------
(* Backtests: the fills at the open of a bar                                  *)

Candles(c) == c \in [{s \in Stock0 : step \in Bars(s)} -> test.candles]
Usual(x) == x.open \in Nat \ {0} /\ (x.open * test.slip) % 100 = 0 /\ x.close \in Nat

LEMMA UsualFact ==
  ASSUME test \in Tests, NEW x \in test.candles
  PROVE  Usual(x)
<1>1. \A z \in Candle : z.open \in Nat \ {0} /\ z.close \in Nat
  BY DEF Candle
<1>2. test.candles \subseteq Candle /\ \A z \in test.candles : (z.open * test.slip) % 100 = 0
  BY TestFact
<1> QED BY <1>1, <1>2, Zenon DEF Usual

LEMMA CandleFact ==
  ASSUME test \in Tests, NEW c, Candles(c)
  PROVE  \A s \in Stock0 : /\ s \in DOMAIN c <=> step \in Bars(s)
                           /\ s \in DOMAIN c => Usual(c[s])
<1>1. \A s \in Stock0 : s \in DOMAIN c <=> step \in Bars(s)
  BY DEF Candles
<1>2. \A s \in DOMAIN c : c[s] \in test.candles
  BY DEF Candles
<1> QED BY <1>1, <1>2, UsualFact

LEMMA SharesFact ==
  ASSUME test \in Tests, NEW d \in PoolType, NEW price \in Nat \ {0}, NEW slots \in Int, NEW cash \in Int
  PROVE  Shares0(d, price, slots, cash) \in Int
<1> DEFINE hundred == 100 * price
           worth == d.equity * test.size
           most == Max({1, slots})
           many == price * most
           byPart == worth \div hundred
           bySize == test.size \div price
           bySlot == cash \div many
           sought == IF test.sizing = "PCT" THEN byPart ELSE IF test.sizing = "FIXED" THEN bySize ELSE bySlot
           limit == (d.equity * test.cap) \div hundred
           capped == IF test.cap > 0 /\ d.equity > 0 THEN Min({sought, limit}) ELSE sought
           money == d.cash \div price
<1>1. d.equity \in Int /\ d.cash \in Int /\ test.size \in Nat /\ test.cap \in Nat
  BY PoolFact, TestFact
<1>2. hundred \in Nat \ {0} /\ worth \in Int /\ d.equity * test.cap \in Int
  BY <1>1
<1>3. many \in Nat \ {0}
  <2>1. most \in {1, slots} /\ most >= 1
    BY MostFact
  <2> HIDE DEF most
  <2>2. most \in Nat \ {0}
    BY <2>1
  <2> QED BY <2>2
<1> HIDE DEF hundred, worth, most, many
<1>4. byPart \in Int /\ bySize \in Int /\ bySlot \in Int /\ limit \in Int /\ money \in Int
  <2>1. \A a \in Int, b \in Nat \ {0} : a \div b \in Int
    OBVIOUS
  <2> QED BY <1>1, <1>2, <1>3, <2>1
<1> HIDE DEF byPart, bySize, bySlot, limit, money
<1>5. sought \in Int
  BY <1>4
<1> HIDE DEF sought
<1>6. capped \in Int
  BY <1>4, <1>5, MostFact
<1>7. Shares0(d, price, slots, cash) = IF test.short THEN capped ELSE Min({capped, money})
  BY DEF Shares0, capped, sought, limit, byPart, bySize, bySlot, money, many, most, worth, hundred
<1> HIDE DEF capped
<1>8. Min({capped, money}) \in Int
  BY <1>4, <1>6, MostFact
<1> QED BY <1>6, <1>7, <1>8

\* What is paid for an entry is what the position is worth with its charges.
LEMMA PaidFact ==
  ASSUME test \in Tests, NEW cash \in Int, NEW open \in Nat \ {0}, (open * test.slip) % 100 = 0, NEW q \in Int,
         q # 0, q < 0 <=> test.short
  PROVE  /\ CostOf(q, Slipped(open, ~test.short)) \in Int
         /\ Settled(cash, [Flat EXCEPT !.qty = -q], Slipped(open, ~test.short), open)
              = cash - CostOf(q, Slipped(open, ~test.short))
<1> DEFINE b == q > 0
           price == Slipped(open, b)
           p == [Flat EXCEPT !.qty = -q]
           k == Charges(Many(q) * open)
<1>1. b = ~test.short /\ b \in BOOLEAN
  <2>1. test.short \in BOOLEAN
    BY TestFact
  <2> QED BY <2>1
<1>2. price \in Nat
  <2> HIDE DEF b
  <2> QED BY <1>1, SlippedFact
<1>3. p.qty = -q /\ p.qty \in Int
  BY DEF Flat
<1>4. Many(p.qty) = Many(q)
  BY <1>3 DEF Many
<1>5. Leg(q, price, b, TRUE) = k
  <2> HIDE DEF b
  <2> QED BY <1>1, LegOfSlipped
<1> HIDE DEF b, k, p, price
<1>0. open \in Nat
  OBVIOUS
<1>6. Settled(cash, p, price, open) = cash + p.qty * price - Charges(Many(p.qty) * open)
      /\ Charges(Many(p.qty) * open) \in Nat
  <2>1. Charges(Many(p.qty) * open) \in Nat
    BY <1>0, <1>2, <1>3, SettledFact
  <2>2. Settled(cash, p, price, open) = cash + p.qty * price - Charges(Many(p.qty) * open)
    BY <1>0, <1>2, <1>3, SettledFact
  <2> QED BY <2>1, <2>2
<1>7. CostOf(q, price) = q * price + k /\ k \in Nat
  BY <1>4, <1>5, <1>6 DEF CostOf, b, k
<1>8. Settled(cash, p, price, open) = cash + (-q) * price - k
  BY <1>3, <1>4, <1>6 DEF k
<1> DEFINE a == q * price
<1>9. a \in Int /\ (-q) * price = -a
  BY <1>2
<1>10. CostOf(q, price) = a + k
  BY <1>7
<1> HIDE DEF a
<1>11. CostOf(q, price) \in Int /\ Settled(cash, p, price, open) = cash - CostOf(q, price)
  BY <1>7, <1>8, <1>9, <1>10
<1> QED BY <1>1, <1>11, Zenon DEF price, p

\* The books do not change with queues, marks and trends.
Alike(d, e) ==
  /\ e \in PoolType /\ e.cash = d.cash /\ e.trades = d.trades
  /\ \A s \in Stock0 : e.pos[s].qty = d.pos[s].qty /\ e.pos[s].fill = d.pos[s].fill /\ e.pos[s].from = d.pos[s].from
LEMMA BooksAlike ==
  ASSUME test \in Tests, NEW d, NEW e, Books(d), Alike(d, e),
         \A s \in Stock0 : /\ e.entry[s] # "none" => d.pos[s].qty = 0
                           /\ e.exit[s] # "none" => d.pos[s].qty # 0,
         e.off => Queued0(e) = {}
  PROVE  Books(e) /\ (Fresh(d) => Fresh(e))
<1>1. e \in PoolType /\ e.cash = d.cash /\ e.trades = d.trades
  BY DEF Alike
<1>2. \A s \in Stock0 : e.pos[s].qty = d.pos[s].qty /\ e.pos[s].fill = d.pos[s].fill /\ e.pos[s].from = d.pos[s].from
  BY DEF Alike
<1>3. IsFiniteSet(e.trades) /\ \A t \in e.trades : t.to <= step
  BY <1>1 DEF Books
<1>4. \A s \in Stock0 : Sound(d.pos[s]) /\ d.pos[s].from <= step
  BY DEF Books
<1>5. \A s \in Stock0 : Sound(e.pos[s]) /\ e.pos[s].from <= step
  <2>1. SUFFICES ASSUME NEW s \in Stock0 PROVE Sound(e.pos[s]) /\ e.pos[s].from <= step
    OBVIOUS
  <2>2. Sound(d.pos[s]) /\ d.pos[s].from <= step
    BY <1>4
  <2>3. e.pos[s].qty = d.pos[s].qty /\ e.pos[s].fill = d.pos[s].fill /\ e.pos[s].from = d.pos[s].from
    BY <1>2
  <2>4. Sound(e.pos[s])
    BY <2>2, <2>3, Zenon DEF Sound
  <2> QED BY <2>2, <2>3, <2>4
<1>6. e.cash = Cash0 + Gains(e.trades) - Stakes(e.pos)
  <2>1. Stakes(e.pos) = Stakes(d.pos)
    BY <1>2, StakesAlike
  <2>2. d.cash = Cash0 + Gains(d.trades) - Stakes(d.pos)
    BY DEF Books
  <2> QED BY <1>1, <2>1, <2>2
<1>7. Holds(e) = Holds(d)
  BY <1>2 DEF Holds
<1>8. (~test.short => e.cash >= 0) /\ Cardinality(Holds(e)) <= test.max_open
  BY <1>1, <1>7 DEF Books
<1>9. DaysKept(e, step)
  <2>1. DaysKept(d, step)
    BY DEF Books
  <2> QED BY <1>2, <1>7, <2>1, HoldsFact DEF DaysKept
<1>10. \A s \in Stock0 : /\ e.entry[s] # "none" => e.pos[s].qty = 0
                         /\ e.exit[s] # "none" => e.pos[s].qty # 0
  BY <1>2
<1>11. Books(e)
  BY <1>1, <1>3, <1>5, <1>6, <1>8, <1>9, <1>10 DEF Books
<1>12. Fresh(d) => Fresh(e)
  <2>1. d.trades \in SUBSET DealType
    <3>1. d \in PoolType
      BY DEF Books
    <3> QED BY <3>1, PoolFact
  <2>2. \A t \in d.trades : t.sym \in Stock0
    BY <2>1, DealFact
  <2> QED BY <1>1, <1>2, <2>2 DEF Fresh
<1> QED BY <1>11, <1>12

\* A fill of the entry of one symbol.
EntryDone(d, e, s, c) ==
  /\ Books(e) /\ Fresh(e) /\ Ready(e) /\ e.exit = d.exit
  /\ \A r \in Stock0 : e.entry[r] # "none" => d.entry[r] # "none"
  /\ s \in DOMAIN c => e.entry[s] = "none"
LEMMA EntryFillsKeeps ==
  ASSUME test \in Tests, step \in 1..LastBar, NEW c, Candles(c), NEW d, Books(d), Fresh(d), Ready(d),
         NEW s \in Stock0, NEW slots \in Int, NEW cash \in Int
  PROVE  EntryDone(d, EntryFills(d, s, c, slots, cash), s, c)
<1> DEFINE price == Slipped(c[s].open, ~test.short)
           n == Shares0(d, price, slots, cash)
           qty == IF test.short THEN -n ELSE n
           paid == Settled(d.cash, [Flat EXCEPT !.qty = -qty], price, c[s].open)
           drop == [d EXCEPT !.entry[s] = "none"]
           full == Cardinality(Holds(d)) >= test.max_open \/ n <= 0 \/ (~test.short /\ paid < 0)
<1>1. EntryFills(d, s, c, slots, cash)
        = IF s \notin DOMAIN c \/ d.entry[s] = "none" THEN d
          ELSE IF full THEN drop ELSE EntryTaken(d, s, qty, price, paid)
  BY DEF EntryFills
<1> HIDE DEF price, n, qty, paid, drop, full
<1>2. d \in PoolType
  BY DEF Books
<1>3. CASE s \notin DOMAIN c \/ d.entry[s] = "none"
  BY <1>1, <1>3 DEF EntryDone
<1>4. CASE s \in DOMAIN c /\ d.entry[s] # "none" /\ full
  <2>1. EntryFills(d, s, c, slots, cash) = drop
    BY <1>1, <1>4
  <2>2. /\ drop \in PoolType /\ drop.cash = d.cash /\ drop.trades = d.trades /\ drop.pos = d.pos
        /\ drop.exit = d.exit /\ drop.off = d.off
        /\ \A r \in Stock0 : drop.entry[r] = IF r = s THEN "none" ELSE d.entry[r]
    BY <1>2 DEF drop, PoolType, EntryWhy
  <2>3. Alike(d, drop)
    BY <2>2 DEF Alike
  <2>4. drop.off => Queued0(drop) = {}
    BY <2>2 DEF Queued0, Books
  <2>5. \A r \in Stock0 : /\ drop.entry[r] # "none" => d.pos[r].qty = 0
                          /\ drop.exit[r] # "none" => d.pos[r].qty # 0
    BY <2>2 DEF Books
  <2>6. Books(drop) /\ Fresh(drop)
    BY <2>3, <2>4, <2>5, BooksAlike
  <2>7. Ready(drop)
    <3>1. d.trades \in SUBSET DealType
      BY <1>2, PoolFact
    <3>2. \A t \in d.trades : t.sym \in Stock0
      BY <3>1, DealFact
    <3> QED BY <2>2, <3>2 DEF Ready
  <2> QED BY <2>1, <2>2, <2>6, <2>7 DEF EntryDone
<1>5. CASE s \in DOMAIN c /\ d.entry[s] # "none" /\ ~full
  <2>1. EntryFills(d, s, c, slots, cash) = EntryTaken(d, s, qty, price, paid)
    BY <1>1, <1>5
  <2>2. Usual(c[s]) /\ test.short \in BOOLEAN
    BY <1>5, CandleFact, TestFact
  <2>3. c[s].open \in Nat \ {0} /\ (c[s].open * test.slip) % 100 = 0
    BY <2>2 DEF Usual
  <2>4. price \in Nat \ {0}
    <3> DEFINE b == ~test.short
    <3>1. b \in BOOLEAN
      BY <2>2
    <3> HIDE DEF b
    <3>2. Slipped(c[s].open, b) \in Nat \ {0}
      BY <2>3, <3>1, SlippedFact
    <3> QED BY <3>2 DEF price, b
  <2>5. n \in Int
    BY <1>2, <2>4, SharesFact DEF n
  <2>6. /\ ~(Cardinality(Holds(d)) >= test.max_open) /\ ~(n <= 0)
        /\ ~(~test.short /\ paid < 0)
    BY <1>5 DEF full
  <2>7. n > 0
    BY <2>5, <2>6
  <2>8. Cardinality(Holds(d)) < test.max_open
    BY <2>6, HoldsFact, TestFact
  <2>9. qty \in Int /\ qty # 0 /\ (qty < 0 <=> test.short)
    BY <2>2, <2>5, <2>7 DEF qty
  <2>10. d.cash \in Int
    BY <1>2, PoolFact
  <2>11. CostOf(qty, price) \in Int /\ paid = d.cash - CostOf(qty, price)
    BY ZenonT(60), <2>3, <2>9, <2>10, PaidFact DEF price, paid
  <2>12. paid \in Int /\ (test.short \/ paid >= 0)
    BY <2>2, <2>6, <2>10, <2>11
  <2> DEFINE e == EntryTaken(d, s, qty, price, paid)
  <2>13. Books(e) /\ Fresh(e) /\ Ready(e)
    BY <1>5, <2>4, <2>8, <2>9, <2>11, <2>12, EntryKeeps
  <2>14. IsEntry(e, d, s, qty, price, paid)
    <3>1. price \in Nat
      BY <2>4
    <3> QED BY <1>2, <2>9, <2>12, <3>1, EntryShape
  <2> HIDE DEF e
  <2>15. e.exit = d.exit /\ \A r \in Stock0 : e.entry[r] = IF r = s THEN "none" ELSE d.entry[r]
    BY <2>14 DEF IsEntry
  <2> QED BY <2>1, <2>13, <2>15 DEF EntryDone, e
<1> QED BY <1>3, <1>4, <1>5

ClosedAs(e, d, s, price, at, why) ==
  /\ e \in PoolType /\ e.entry = d.entry /\ e.off = d.off
  /\ e.trades = d.trades \cup {TradeOf(s, d.pos[s], price, why)}
  /\ \A r \in Stock0 : e.pos[r] = IF r = s THEN Flat ELSE d.pos[r]
  /\ \A r \in Stock0 : e.exit[r] = IF r = s THEN "none" ELSE d.exit[r]
LEMMA ExitIs ==
  ASSUME test \in Tests, step \in 1..LastBar, NEW d \in PoolType, NEW s \in Stock0, NEW price \in Nat,
         NEW at \in Nat, NEW why \in DealWhy
  PROVE  ClosedAs(Exited0(d, s, price, at, why), d, s, price, at, why)
<1> DEFINE e == Exited0(d, s, price, at, why)
<1>1. e \in PoolType /\ e.entry = d.entry /\ e.off = d.off
  <2>1. e \in PoolType
    BY ExitedShape
  <2>2. e.entry = d.entry
    BY ExitedShape
  <2>3. e.off = d.off
    BY ExitedShape
  <2> QED BY <2>1, <2>2, <2>3
<1>2. e.trades = d.trades \cup {TradeOf(s, d.pos[s], price, why)}
  BY ExitedShape
<1>3. \A r \in Stock0 : e.pos[r] = IF r = s THEN Flat ELSE d.pos[r]
  BY ExitedShape
<1>4. e.exit[s] = "none" /\ \A r \in Stock0 \ {s} : e.exit[r] = d.exit[r]
  BY ExitedShape
<1> HIDE DEF e
<1>5. \A r \in Stock0 : e.exit[r] = IF r = s THEN "none" ELSE d.exit[r]
  BY <1>4
<1>6. ClosedAs(e, d, s, price, at, why)
  BY <1>1, <1>2, <1>3, <1>5 DEF ClosedAs
<1> QED BY <1>6 DEF e

\* A fill of the exit of one symbol.
ExitDone(d, e, s, c) ==
  /\ Books(e) /\ Fresh(e) /\ Ready(e) /\ e.entry = d.entry
  /\ \A r \in Stock0 : e.exit[r] # "none" => d.exit[r] # "none"
  /\ s \in DOMAIN c => e.exit[s] = "none"

LEMMA ReportedFact ==
  ASSUME NEW p, NEW price, NEW why \in ExitWhy
  PROVE  Reported(p, price, why) \in ExitWhy /\ Reported(p, price, why) # "EOD_SQUARE_OFF"
<1>1. Reported(p, price, why) \in {why, "STOP_LOSS"}
  BY Zenon DEF Reported
<1>2. "STOP_LOSS" \in ExitWhy /\ \A w \in ExitWhy : w # "EOD_SQUARE_OFF"
  BY DEF ExitWhy
<1> QED BY <1>1, <1>2

\* What a position of the backtest's side is closed for at a slipped price.
LEMMA ClosingFact ==
  ASSUME test \in Tests, NEW open \in Nat \ {0}, (open * test.slip) % 100 = 0, NEW q \in Int, q # 0,
         q < 0 <=> test.short, NEW why, why # "EOD_SQUARE_OFF"
  PROVE  /\ Slipped(open, q < 0) \in Nat
         /\ test.short \/ 100 * Slipped(open, q < 0) >= 80 * open
         /\ Charged(q, Slipped(open, q < 0), open, why)
<1> DEFINE b == q < 0
           price == Slipped(open, b)
           w == why # "EOD_SQUARE_OFF"
           m == IF b THEN 100 + test.slip ELSE 100 - test.slip
<1>1. b \in BOOLEAN /\ w = TRUE /\ (b <=> test.short)
  OBVIOUS
<1> HIDE DEF b, w
<1>2. price \in Nat /\ 100 * price = open * m
  BY <1>1, SlippedFact
<1>3. Leg(q, price, b, TRUE) = Charges(Many(q) * open)
  BY <1>1, LegOfSlipped
<1>4. Leg(q, price, b, w) = Charges(Many(q) * open)
  BY <1>1, <1>3
<1>5. test.short \/ 100 * price >= 80 * open
  <2>1. SUFFICES ASSUME ~test.short PROVE 100 * price >= 80 * open
    OBVIOUS
  <2>2. m = 100 - test.slip /\ test.slip \in 0..20
    BY <1>1, <2>1, TestFact
  <2>3. m \in Nat /\ m >= 80
    BY <2>2
  <2> HIDE DEF m, price
  <2>4. open * m >= 80 * open
    BY <2>3, SMTT(30)
  <2> QED BY <1>2, <2>4
<1> HIDE DEF price
<1>6. Charged(q, price, open, why)
  BY <1>4, Zenon DEF Charged, b, w
<1>7. price \in Nat
  BY <1>2
<1> QED BY <1>5, <1>6, <1>7, Zenon DEF price, b

LEMMA ExitFillsKeeps ==
  ASSUME test \in Tests, step \in 1..LastBar, NEW c, Candles(c), NEW d, Books(d), Fresh(d), Ready(d),
         NEW s \in Stock0
  PROVE  ExitDone(d, ExitFills(d, s, c), s, c)
<1> DEFINE p == d.pos[s]
           open == c[s].open
           price == Slipped(open, p.qty < 0)
           why == Reported(p, price, d.exit[s])
           e == Exited0(d, s, price, open, why)
<1>1. ExitFills(d, s, c) = IF s \notin DOMAIN c \/ d.exit[s] = "none" THEN d ELSE e
  BY DEF ExitFills
<1> HIDE DEF why, price, e, open
<1>2. CASE s \notin DOMAIN c \/ d.exit[s] = "none"
  BY <1>1, <1>2 DEF ExitDone
<1>3. CASE s \in DOMAIN c /\ d.exit[s] # "none"
  <2>1. ExitFills(d, s, c) = e
    BY <1>1, <1>3
  <2>2. Usual(c[s])
    BY <1>3, CandleFact
  <2>3. open \in Nat \ {0} /\ (open * test.slip) % 100 = 0
    BY <2>2 DEF Usual, open
  <2>4. d \in PoolType
    BY DEF Books
  <2>5. p.qty # 0 /\ Sound(p) /\ d.entry[s] = "none"
    BY <1>3 DEF Books
  <2>6. p.qty \in Int /\ (p.qty < 0 <=> test.short)
    <3>1. p \in PositionType
      BY <2>4, PoolFact
    <3> QED BY <2>5, <3>1, PositionFact DEF Sound
  <2>7. why \in ExitWhy /\ why # "EOD_SQUARE_OFF" /\ why \in DealWhy
    <3>1. d.exit[s] \in ExitWhy
      BY <2>4, PoolFact
    <3>2. why \in ExitWhy /\ why # "EOD_SQUARE_OFF"
      BY <3>1, ReportedFact DEF why
    <3> QED BY <3>2 DEF DealWhy
  <2>8. /\ price \in Nat
        /\ test.short \/ 100 * price >= 80 * open
        /\ Charged(p.qty, price, open, why)
    <3> HIDE DEF p
    <3> QED BY <2>3, <2>5, <2>6, <2>7, ClosingFact DEF price
  <2>9. open \in Nat
    BY <2>3
  <2>10. Books(e) /\ Fresh(e)
    BY <2>5, <2>7, <2>8, <2>9, ExitedKeeps DEF e
  <2>11. ClosedAs(e, d, s, price, open, why)
    BY <2>4, <2>7, <2>8, <2>9, ExitIs DEF e
  <2>12. /\ e.entry = d.entry
         /\ \A r \in Stock0 : e.exit[r] = IF r = s THEN "none" ELSE d.exit[r]
         /\ e.trades = d.trades \cup {TradeOf(s, p, price, why)}
    BY <2>11 DEF ClosedAs
  <2>13. Ready(e)
    <3>1. TradeOf(s, p, price, why).sym = s
      BY DEF TradeOf
    <3>2. \A t \in e.trades : t = TradeOf(s, p, price, why) \/ t \in d.trades
      BY <2>12
    <3> HIDE DEF p
    <3> QED BY <2>5, <2>12, <3>1, <3>2 DEF Ready
  <2> QED BY <2>1, <2>10, <2>12, <2>13 DEF ExitDone
<1> QED BY <1>2, <1>3

\* What the parts of a bar after its fills keep: nothing waits at a symbol's last bar.
Good(d) ==
  /\ Books(d) /\ Fresh(d)
  /\ \A s \in Stock0 : Waiting0(d, s) => HasNext(s)

LEMMA ExitsKeep ==
  ASSUME test \in Tests, step \in 1..LastBar, NEW c, Candles(c), NEW d, Books(d), Fresh(d), Ready(d)
  PROVE  /\ Books(ExitsFill(d, c)) /\ Fresh(ExitsFill(d, c)) /\ Ready(ExitsFill(d, c))
         /\ ExitsFill(d, c).entry = d.entry
         /\ \A r \in Stock0 : ExitsFill(d, c).exit[r] # "none" => d.exit[r] # "none" /\ r \notin DOMAIN c
<1> DEFINE Fit(e) == /\ Books(e) /\ Fresh(e) /\ Ready(e) /\ e.entry = d.entry
                     /\ \A r \in Stock0 : e.exit[r] # "none" => d.exit[r] # "none"
           Done(e, n) == \A i \in 1..n : Tickers[i] \in DOMAIN c => e.exit[Tickers[i]] = "none"
           E == {e \in PoolType : Fit(e)}
           Q == [n \in Nat |-> {e \in PoolType : Done(e, n)}]
           N == Len(Tickers)
<1>1. \A e : Books(e) => e \in PoolType
  BY DEF Books
<1>2. d \in E
  BY <1>1
<1>3. d \in Q[0]
  BY <1>1
<1>4. \A e \in E, s \in Stock0 : ExitDone(e, ExitFills(e, s, c), s, c)
  <2>1. \A e \in E : Books(e) /\ Fresh(e) /\ Ready(e)
    OBVIOUS
  <2> HIDE DEF E
  <2> QED BY <2>1, ExitFillsKeeps
<1>5. \A e \in E, s \in Stock0 : ExitFills(e, s, c) \in E
  <2>1. SUFFICES ASSUME NEW e \in E, NEW s \in Stock0 PROVE ExitFills(e, s, c) \in E
    OBVIOUS
  <2> DEFINE f == ExitFills(e, s, c)
  <2>2. ExitDone(e, f, s, c)
    BY <1>4
  <2> HIDE DEF f
  <2>3. Fit(f)
    BY <2>2 DEF ExitDone
  <2> QED BY <1>1, <2>3 DEF f
<1>6. \A n \in 1..N, e \in E : e \in Q[n - 1] => ExitFills(e, Tickers[n], c) \in Q[n]
  <2>1. SUFFICES ASSUME NEW n \in 1..N, NEW e \in E, e \in Q[n - 1] PROVE ExitFills(e, Tickers[n], c) \in Q[n]
    BY Zenon
  <2> DEFINE f == ExitFills(e, Tickers[n], c)
  <2>2. Tickers[n] \in Stock0 /\ n \in Nat /\ n - 1 \in Nat /\ N \in Nat
    BY StockFact
  <2>3. ExitDone(e, f, Tickers[n], c)
    BY <1>4, <2>2
  <2>4. f \in PoolType /\ Done(e, n - 1)
    BY <1>1, <2>1, <2>2, <2>3 DEF ExitDone
  <2> HIDE DEF f
  <2>5. ASSUME NEW i \in 1..n, Tickers[i] \in DOMAIN c PROVE f.exit[Tickers[i]] = "none"
    <3>1. i = n \/ i \in 1..n - 1
      BY <2>2
    <3>2. CASE i = n
      BY <2>3, <2>5, <3>2 DEF ExitDone
    <3>3. CASE i \in 1..n - 1
      <4>1. e.exit[Tickers[i]] = "none"
        BY <2>4, <2>5, <3>3
      <4>2. Tickers[i] \in Stock0
        <5>1. i \in 1..N
          BY <2>2
        <5> QED BY <5>1, StockFact
      <4> QED BY <2>3, <4>1, <4>2 DEF ExitDone
    <3> QED BY <3>1, <3>2, <3>3
  <2>6. Done(f, n)
    BY <2>5
  <2> QED BY <2>2, <2>4, <2>6 DEF f
<1>7. ExitsFill(d, c) \in E /\ ExitsFill(d, c) \in Q[N]
  <2> HIDE DEF E, Q
  <2> QED BY <1>2, <1>3, <1>5, <1>6, ExitsFillStays
<1> DEFINE e == ExitsFill(d, c)
<1> HIDE DEF e
<1>8. Fit(e) /\ Done(e, N)
  BY <1>7, StockFact DEF e
<1>9. ASSUME NEW r \in Stock0, e.exit[r] # "none" PROVE d.exit[r] # "none" /\ r \notin DOMAIN c
  <2>1. PICK i \in 1..N : Tickers[i] = r
    BY StockFact
  <2> QED BY <1>8, <1>9, <2>1
<1> QED BY <1>8, <1>9 DEF e

LEMMA EntriesKeep ==
  ASSUME test \in Tests, step \in 1..LastBar, NEW c, Candles(c), NEW d, Books(d), Fresh(d), Ready(d)
  PROVE  /\ Books(EntriesFill(d, c)) /\ Fresh(EntriesFill(d, c))
         /\ EntriesFill(d, c).exit = d.exit
         /\ \A r \in Stock0 : EntriesFill(d, c).entry[r] # "none" => d.entry[r] # "none" /\ r \notin DOMAIN c
<1> DEFINE Fit(e) == /\ Books(e) /\ Fresh(e) /\ Ready(e) /\ e.exit = d.exit
                     /\ \A r \in Stock0 : e.entry[r] # "none" => d.entry[r] # "none"
           Done(e, n) == \A i \in 1..n : Tickers[i] \in DOMAIN c => e.entry[Tickers[i]] = "none"
           E == {e \in PoolType : Fit(e)}
           Q == [n \in Nat |-> {e \in PoolType : Done(e, n)}]
           N == Len(Tickers)
           slots == Max({0, test.max_open - Cardinality(Holds(d))})
           Fills1(e, s) == EntryFills(e, s, c, slots, d.cash)
<1>1. \A e : Books(e) => e \in PoolType
  BY DEF Books
<1>2. d \in E
  BY <1>1
<1>3. d \in Q[0]
  BY <1>1
<1>a. slots \in Int /\ d.cash \in Int
  <2>1. d.cash \in Int
    BY <1>1, PoolFact
  <2> DEFINE x == test.max_open - Cardinality(Holds(d))
             z == 0
  <2>2. x \in Int /\ z \in Int
    BY TestFact, HoldsFact
  <2> HIDE DEF x, z
  <2>3. Max({z, x}) \in {z, x}
    BY <2>2, MostFact
  <2>4. Max({z, x}) \in Int
    BY <2>2, <2>3
  <2>5. slots \in Int
    BY <2>4 DEF slots, x, z
  <2> QED BY <2>1, <2>5
<1> HIDE DEF slots
<1>4. \A e \in E, s \in Stock0 : EntryDone(e, Fills1(e, s), s, c)
  <2>1. \A e \in E : Books(e) /\ Fresh(e) /\ Ready(e)
    OBVIOUS
  <2> HIDE DEF E
  <2> QED BY <1>a, <2>1, EntryFillsKeeps
<1>5. \A e \in E, s \in Stock0 : Fills1(e, s) \in E
  <2>1. SUFFICES ASSUME NEW e \in E, NEW s \in Stock0 PROVE Fills1(e, s) \in E
    OBVIOUS
  <2> DEFINE f == Fills1(e, s)
  <2>2. EntryDone(e, f, s, c)
    BY <1>4
  <2> HIDE DEF f
  <2>3. Fit(f)
    BY <2>2 DEF EntryDone
  <2> QED BY <1>1, <2>3 DEF f
<1>6. \A n \in 1..N, e \in E : e \in Q[n - 1] => Fills1(e, Tickers[n]) \in Q[n]
  <2>1. SUFFICES ASSUME NEW n \in 1..N, NEW e \in E, e \in Q[n - 1] PROVE Fills1(e, Tickers[n]) \in Q[n]
    BY Zenon
  <2> DEFINE f == Fills1(e, Tickers[n])
  <2>2. Tickers[n] \in Stock0 /\ n \in Nat /\ n - 1 \in Nat /\ N \in Nat
    BY StockFact
  <2>3. EntryDone(e, f, Tickers[n], c)
    BY <1>4, <2>2
  <2>4. f \in PoolType /\ Done(e, n - 1)
    BY <1>1, <2>1, <2>2, <2>3 DEF EntryDone
  <2> HIDE DEF f
  <2>5. ASSUME NEW i \in 1..n, Tickers[i] \in DOMAIN c PROVE f.entry[Tickers[i]] = "none"
    <3>1. i = n \/ i \in 1..n - 1
      BY <2>2
    <3>2. CASE i = n
      BY <2>3, <2>5, <3>2 DEF EntryDone
    <3>3. CASE i \in 1..n - 1
      <4>1. e.entry[Tickers[i]] = "none"
        BY <2>4, <2>5, <3>3
      <4>2. Tickers[i] \in Stock0
        <5>1. i \in 1..N
          BY <2>2
        <5> QED BY <5>1, StockFact
      <4> QED BY <2>3, <4>1, <4>2 DEF EntryDone
    <3> QED BY <3>1, <3>2, <3>3
  <2>6. Done(f, n)
    BY <2>5
  <2> QED BY <2>2, <2>4, <2>6 DEF f
<1>7. EntriesFill(d, c) \in E /\ EntriesFill(d, c) \in Q[N]
  <2> HIDE DEF E, Q
  <2>1. slots = Max({0, test.max_open - Cardinality(Holds(d))})
    BY DEF slots
  <2> QED BY <1>2, <1>3, <1>5, <1>6, <2>1, EntriesFillStays
<1> DEFINE e == EntriesFill(d, c)
<1> HIDE DEF e
<1>8. Fit(e) /\ Done(e, N)
  BY <1>7, StockFact DEF e
<1>9. ASSUME NEW r \in Stock0, e.entry[r] # "none" PROVE d.entry[r] # "none" /\ r \notin DOMAIN c
  <2>1. PICK i \in 1..N : Tickers[i] = r
    BY StockFact
  <2> QED BY <1>8, <1>9, <2>1
<1> QED BY <1>8, <1>9 DEF e

\* After the fills of a bar, what waits has a bar to come.
LEMMA FillsKeep ==
  ASSUME test \in Tests, step \in 1..LastBar, NEW c, Candles(c), NEW d, Books(d),
         \A t \in d.trades : t.to < step, \A s \in Stock0 : Waiting0(d, s) => Ahead(s)
  PROVE  Good(EntriesFill(ExitsFill(d, c), c))
<1> DEFINE f == ExitsFill(d, c)
           e == EntriesFill(f, c)
<1>1. Fresh(d) /\ Ready(d)
  <2>1. \A t \in d.trades : t.to # step
    <3>1. \A t \in d.trades : t.to \in Int
      <4>1. d.trades \in SUBSET DealType
        <5>1. d \in PoolType
          BY DEF Books
        <5> QED BY <5>1, PoolFact
      <4> QED BY <4>1, DealFact
    <3> QED BY <3>1
  <2> QED BY <2>1 DEF Fresh, Ready
<1>2. /\ Books(f) /\ Fresh(f) /\ Ready(f) /\ f.entry = d.entry
      /\ \A r \in Stock0 : f.exit[r] # "none" => d.exit[r] # "none" /\ r \notin DOMAIN c
  BY <1>1, ExitsKeep
<1> HIDE DEF f
<1>3. /\ Books(e) /\ Fresh(e) /\ e.exit = f.exit
      /\ \A r \in Stock0 : e.entry[r] # "none" => f.entry[r] # "none" /\ r \notin DOMAIN c
  BY <1>2, EntriesKeep
<1> HIDE DEF e
<1>4. ASSUME NEW s \in Stock0, Waiting0(e, s) PROVE HasNext(s)
  <2>1. Waiting0(d, s) /\ s \notin DOMAIN c
    BY <1>2, <1>3, <1>4 DEF Waiting0
  <2>2. step \notin Bars(s)
    BY <2>1, CandleFact
  <2>3. PICK b \in Bars(s) : b >= step
    BY <2>1 DEF Ahead
  <2>4. b \in Int
    BY TestFact DEF Bars
  <2>5. b > step
    BY <2>2, <2>3, <2>4
  <2> QED BY <2>5 DEF HasNext
<1> QED BY <1>3, <1>4 DEF Good, e, f

-----------------------------------------------------------------------------
(* Backtests: the close of a bar                                              *)

LEMMA GoodAlike ==
  ASSUME test \in Tests, NEW d, NEW e, Good(d), Alike(d, e), e.off => Queued0(e) = {},
         \A s \in Stock0 : /\ e.entry[s] # "none" => d.pos[s].qty = 0 /\ HasNext(s)
                           /\ e.exit[s] # "none" => d.pos[s].qty # 0 /\ HasNext(s)
  PROVE  Good(e)
<1>1. Books(d) /\ Fresh(d)
  BY DEF Good
<1>2. Books(e) /\ Fresh(e)
  BY <1>1, BooksAlike
<1>3. \A s \in Stock0 : Waiting0(e, s) => HasNext(s)
  BY DEF Waiting0
<1> QED BY <1>2, <1>3 DEF Good

LEMMA GoodFact ==
  ASSUME NEW d, Good(d)
  PROVE  /\ d \in PoolType /\ (d.off => Queued0(d) = {})
         /\ \A s \in Stock0 : /\ d.entry[s] # "none" => d.pos[s].qty = 0 /\ HasNext(s)
                              /\ d.exit[s] # "none" => d.pos[s].qty # 0 /\ HasNext(s)
<1>1. Books(d) /\ \A s \in Stock0 : Waiting0(d, s) => HasNext(s)
  BY DEF Good
<1> QED BY <1>1 DEF Books, Waiting0

LEMMA MarkedKeeps ==
  ASSUME test \in Tests, NEW c, Candles(c), NEW d, Good(d)
  PROVE  Good(Marked(d, c))
<1> DEFINE last == [s \in Stock0 |-> IF s \in DOMAIN c THEN c[s].close ELSE d.last[s]]
           e == [d EXCEPT !.last = last]
<1>1. d \in PoolType
  BY GoodFact
<1>2. Marked(d, c) = e
  BY <1>1, PoolFact DEF Marked
<1>3. last \in [Stock0 -> Nat]
  <2>1. \A s \in Stock0 : s \in DOMAIN c => c[s].close \in Nat
    BY CandleFact DEF Usual
  <2> QED BY <1>1, <2>1, PoolFact
<1> HIDE DEF last
<1>4. /\ e \in PoolType /\ e.cash = d.cash /\ e.trades = d.trades /\ e.pos = d.pos /\ e.entry = d.entry
      /\ e.exit = d.exit /\ e.off = d.off
  BY <1>1, <1>3 DEF PoolType
<1> HIDE DEF e
<1>5. Alike(d, e)
  BY <1>4 DEF Alike
<1>6. Queued0(e) = Queued0(d)
  BY <1>4 DEF Queued0
<1>7. \A s \in Stock0 : /\ e.entry[s] # "none" => d.pos[s].qty = 0 /\ HasNext(s)
                        /\ e.exit[s] # "none" => d.pos[s].qty # 0 /\ HasNext(s)
  BY <1>4, GoodFact
<1>8. e.off => Queued0(e) = {}
  BY <1>4, <1>6, GoodFact
<1> QED BY <1>2, <1>5, <1>7, <1>8, GoodAlike

LEMMA MostOfThree ==
  ASSUME NEW a \in Int, NEW b \in Int, NEW k \in Int
  PROVE  /\ Max({a, b, k}) \in {a, b, k} /\ Max({a, b, k}) >= a
         /\ Min({a, b, k}) \in {a, b, k}
<1>1. \E x \in {a, b, k} : \A y \in {a, b, k} : x >= y
  OBVIOUS
<1>2. \E x \in {a, b, k} : \A y \in {a, b, k} : x <= y
  OBVIOUS
<1>3. Max({a, b, k}) \in {a, b, k} /\ \A y \in {a, b, k} : Max({a, b, k}) >= y
  BY <1>1 DEF Max
<1>4. Min({a, b, k}) \in {a, b, k}
  BY <1>2 DEF Min
<1> QED BY <1>3, <1>4

\* A close moves the marks of a position, not the position.
LEMMA TrailedFact ==
  ASSUME test \in Tests, NEW p \in PositionType, NEW close \in Nat
  PROVE  /\ Trailed(p, close) \in PositionType
         /\ Trailed(p, close).qty = p.qty /\ Trailed(p, close).fill = p.fill /\ Trailed(p, close).from = p.from
<1> DEFINE long == p.qty > 0
           best == IF long THEN Max({p.best, close}) ELSE Min({p.best, close})
           far == IF long THEN best * 100 >= p.fill * (100 + test.trail)
                          ELSE best * 100 <= p.fill * (100 - test.trail)
           on == test.trail > 0 /\ (p.on \/ far)
           most == Max({p.trail, best * (100 - test.trail), p.fill * 100})
           least == Min({p.trail, best * (100 + test.trail), p.fill * 100})
           trail == IF ~on THEN p.trail ELSE IF long THEN most ELSE least
           e == [p EXCEPT !.best = best, !.on = on, !.trail = trail]
<1>1. Trailed(p, close) = e
  BY DEF Trailed
<1>2. p.best \in Nat /\ p.fill \in Nat /\ p.trail \in Nat /\ p.on \in BOOLEAN /\ test.trail \in Nat
  BY PositionFact, TestFact
<1> HIDE DEF long
<1>3. best \in Nat
  <2>1. Max({p.best, close}) \in Nat /\ Min({p.best, close}) \in Nat
    <3>1. p.best \in Int /\ close \in Int
      BY <1>2
    <3> QED BY <1>2, <3>1, MostFact
  <2> QED BY <2>1
<1> HIDE DEF best
<1>4. most \in Nat /\ least \in Nat
  <2> DEFINE x == best * (100 - test.trail)
             y == best * (100 + test.trail)
             z == p.fill * 100
  <2>1. x \in Int /\ y \in Nat /\ z \in Nat
    BY <1>2, <1>3
  <2> HIDE DEF x, y, z
  <2>2. x \in Int /\ y \in Int /\ z \in Int /\ p.trail \in Int
    BY <1>2, <2>1
  <2>3. Max({p.trail, x, z}) \in {p.trail, x, z} /\ Max({p.trail, x, z}) >= p.trail
    BY <2>2, MostOfThree
  <2>4. Min({p.trail, y, z}) \in {p.trail, y, z}
    BY <2>2, MostOfThree
  <2> HIDE DEF most, least
  <2>5. most = Max({p.trail, x, z}) /\ least = Min({p.trail, y, z})
    BY DEF most, least, x, y, z
  <2>6. most \in Int /\ most >= p.trail
    BY <2>2, <2>3, <2>5
  <2>7. least \in Nat
    BY <1>2, <2>1, <2>4, <2>5
  <2> QED BY <1>2, <2>6, <2>7
<1> HIDE DEF most, least, far
<1>5. on \in BOOLEAN
  OBVIOUS
<1> HIDE DEF on
<1>6. trail \in Nat
  BY <1>2, <1>4
<1> HIDE DEF trail
<1>7. e \in PositionType /\ e.qty = p.qty /\ e.fill = p.fill /\ e.from = p.from
  BY <1>3, <1>5, <1>6 DEF PositionType
<1> HIDE DEF e
<1> QED BY <1>1, <1>7

LEMMA CalledFact ==
  ASSUME NEW p, NEW close
  PROVE  StopCalled(p, close) \in ExitWhy
<1>1. StopCalled(p, close) \in {"TAKE_PROFIT", "STOP_LOSS", "TRAILING_STOP", "none"}
  BY Zenon DEF StopCalled
<1> QED BY <1>1 DEF ExitWhy

LEMMA StopsKeep ==
  ASSUME test \in Tests, NEW c, Candles(c), NEW d, Good(d)
  PROVE  Good(StopsAtClose(d, c))
<1> DEFINE pos == [s \in Stock0 |-> IF Guardable(d, c, s) THEN Trailed(d.pos[s], c[s].close) ELSE d.pos[s]]
           exit == [s \in Stock0 |-> IF Guardable(d, c, s) THEN StopCalled(pos[s], c[s].close) ELSE d.exit[s]]
           e == [d EXCEPT !.pos = pos, !.exit = exit]
<1>1. d \in PoolType
  BY GoodFact
<1>2. StopsAtClose(d, c) = e
  BY <1>1, PoolFact DEF StopsAtClose
<1>3. \A s \in Stock0 : Guardable(d, c, s) => /\ c[s].close \in Nat /\ d.pos[s].qty # 0 /\ HasNext(s)
                                              /\ d.exit[s] = "none"
  BY CandleFact DEF Usual, Guardable, Holds
<1>4. \A s \in Stock0 : /\ pos[s] \in PositionType
                        /\ pos[s].qty = d.pos[s].qty /\ pos[s].fill = d.pos[s].fill /\ pos[s].from = d.pos[s].from
  <2>1. SUFFICES ASSUME NEW s \in Stock0
                 PROVE  /\ pos[s] \in PositionType
                        /\ pos[s].qty = d.pos[s].qty /\ pos[s].fill = d.pos[s].fill /\ pos[s].from = d.pos[s].from
    OBVIOUS
  <2>2. d.pos[s] \in PositionType
    BY <1>1, PoolFact
  <2>3. CASE Guardable(d, c, s)
    <3> DEFINE q == Trailed(d.pos[s], c[s].close)
    <3>1. /\ q \in PositionType
          /\ q.qty = d.pos[s].qty /\ q.fill = d.pos[s].fill /\ q.from = d.pos[s].from
      BY <1>3, <2>2, <2>3, TrailedFact
    <3>2. pos[s] = q
      BY <2>3
    <3> HIDE DEF q, pos
    <3> QED BY <3>1, <3>2
  <2>4. CASE ~Guardable(d, c, s)
    <3>1. pos[s] = d.pos[s]
      BY <2>4
    <3> HIDE DEF pos
    <3> QED BY <2>2, <3>1
  <2> QED BY <2>3, <2>4
<1>5. pos \in [Stock0 -> PositionType]
  <2>1. pos = [s \in Stock0 |-> pos[s]]
    OBVIOUS
  <2> HIDE DEF pos
  <2> QED BY <1>4, <2>1
<1> HIDE DEF pos
<1>6. exit \in [Stock0 -> ExitWhy]
  BY <1>1, PoolFact, CalledFact
<1>7. \A s \in Stock0 : exit[s] # "none" => d.exit[s] # "none" \/ Guardable(d, c, s)
  OBVIOUS
<1> HIDE DEF exit
<1>8. /\ e \in PoolType /\ e.cash = d.cash /\ e.trades = d.trades /\ e.pos = pos /\ e.entry = d.entry
      /\ e.exit = exit /\ e.off = d.off
  BY <1>1, <1>5, <1>6 DEF PoolType
<1> HIDE DEF e
<1>9. Alike(d, e)
  BY <1>4, <1>8 DEF Alike
<1>10. e.off => Queued0(e) = {}
  <2>1. Queued0(e) = Queued0(d)
    BY <1>8 DEF Queued0
  <2> QED BY <1>8, <2>1, GoodFact
<1>11. \A s \in Stock0 : /\ e.entry[s] # "none" => d.pos[s].qty = 0 /\ HasNext(s)
                         /\ e.exit[s] # "none" => d.pos[s].qty # 0 /\ HasNext(s)
  BY <1>3, <1>7, <1>8, GoodFact
<1> QED BY <1>2, <1>9, <1>10, <1>11, GoodAlike

LEMMA NoTrendFact == NoTrend \in TrendType
<1> DEFINE z == 0
           w == "none"
           no == FALSE
<1>1. NoTrend = [why |-> w, cool |-> z, active |-> no, broke |-> no, n |-> z]
  BY DEF NoTrend
<1>2. z \in Int /\ w \in DealWhy /\ no \in BOOLEAN
  BY DEF DealWhy, ExitWhy
<1> HIDE DEF z, w, no
<1> QED BY <1>1, <1>2 DEF TrendType

LEMMA SeenFact ==
  ASSUME NEW r \in TrendType, NEW up \in BOOLEAN
  PROVE  TrendSeen(r, up) \in TrendType
<1> DEFINE back == ~r.active /\ up /\ r.broke
           broke == r.broke \/ (r.active /\ ~up)
           new == [NoTrend EXCEPT !.active = TRUE]
           old == [r EXCEPT !.active = up, !.broke = broke]
<1>1. broke \in BOOLEAN /\ r.active \in BOOLEAN
  BY DEF TrendType
<1>2. new \in TrendType
  <2> DEFINE yes == TRUE
  <2>1. new = [NoTrend EXCEPT !.active = yes] /\ yes \in BOOLEAN
    OBVIOUS
  <2> HIDE DEF yes, new
  <2> QED BY <2>1, NoTrendFact DEF TrendType
<1> HIDE DEF broke
<1>3. old \in TrendType
  BY <1>1 DEF TrendType
<1>4. TrendSeen(r, up) \in {new, old}
  <2>1. TrendSeen(r, up) = IF back THEN new ELSE old
    BY Zenon DEF TrendSeen, broke
  <2> QED BY <2>1
<1> QED BY <1>2, <1>3, <1>4

LEMMA TrendKeeps ==
  ASSUME test \in Tests, NEW c, Candles(c), NEW d, Good(d)
  PROVE  Good(TrendAtClose(d, c)) /\ TrendAtClose(d, c).off = d.off
<1> DEFINE re == [s \in Stock0 |-> IF test.filter /\ s \in DOMAIN c THEN TrendSeen(Cooled(d.re[s]), c[s].up)
                                   ELSE Cooled(d.re[s])]
           e == [d EXCEPT !.re = re]
<1>1. d \in PoolType
  BY GoodFact
<1>2. TrendAtClose(d, c) = d \/ TrendAtClose(d, c) = e
  BY <1>1, PoolFact DEF TrendAtClose
<1>3. re \in [Stock0 -> TrendType]
  <2>1. "none" \in DealWhy
    BY DEF DealWhy, ExitWhy
  <2>2. \A s \in Stock0 : Cooled(d.re[s]) \in TrendType
    BY <1>1, <2>1, PoolFact, LeftFact
  <2>3. \A s \in Stock0 : s \in DOMAIN c => c[s].up \in BOOLEAN
    <3>1. \A s \in DOMAIN c : c[s] \in Candle
      BY TestFact DEF Candles
    <3> QED BY <3>1 DEF Candle
  <2>4. \A s \in Stock0 : s \in DOMAIN c => TrendSeen(Cooled(d.re[s]), c[s].up) \in TrendType
    BY <2>2, <2>3, SeenFact
  <2> QED BY <2>2, <2>4
<1> HIDE DEF re
<1>4. /\ e \in PoolType /\ e.cash = d.cash /\ e.trades = d.trades /\ e.pos = d.pos /\ e.entry = d.entry
      /\ e.exit = d.exit /\ e.off = d.off
  BY <1>1, <1>3 DEF PoolType
<1> HIDE DEF e
<1>5. Alike(d, e)
  BY <1>4 DEF Alike
<1>6. e.off => Queued0(e) = {}
  <2>1. Queued0(e) = Queued0(d)
    BY <1>4 DEF Queued0
  <2> QED BY <1>4, <2>1, GoodFact
<1>7. \A s \in Stock0 : /\ e.entry[s] # "none" => d.pos[s].qty = 0 /\ HasNext(s)
                        /\ e.exit[s] # "none" => d.pos[s].qty # 0 /\ HasNext(s)
  BY <1>4, GoodFact
<1>8. Good(e)
  BY <1>5, <1>6, <1>7, GoodAlike
<1> QED BY <1>2, <1>4, <1>8

LEMMA SignalsKeep ==
  ASSUME test \in Tests, NEW c, Candles(c), NEW d, Good(d), ~d.off
  PROVE  Good(SignalsAtClose(d, c)) /\ SignalsAtClose(d, c).off = d.off
<1> DEFINE picked == Picked(d, c)
           entry == [s \in Stock0 |-> IF s \in picked THEN "ENTRY_SIGNAL" ELSE d.entry[s]]
           out(s) == /\ s \in DOMAIN c /\ s \in Holds(d) /\ d.exit[s] = "none" /\ HasNext(s) /\ c[s].exit
                     /\ step - d.pos[s].from >= test.hold
           exit == [s \in Stock0 |-> IF out(s) THEN "EXIT_SIGNAL" ELSE d.exit[s]]
           e == [d EXCEPT !.entry = entry, !.exit = exit]
<1>1. d \in PoolType
  BY GoodFact
<1>2. SignalsAtClose(d, c) = e
  BY <1>1, PoolFact DEF SignalsAtClose
<1>3. picked \subseteq Asking(d, c)
  BY DEF Picked, Best
<1>4. \A s \in picked : d.pos[s].qty = 0 /\ HasNext(s)
  BY <1>3 DEF Asking
<1>5. \A s \in Stock0 : out(s) => d.pos[s].qty # 0 /\ HasNext(s)
  BY DEF Holds
<1> HIDE DEF picked, out
<1>6. entry \in [Stock0 -> EntryWhy] /\ exit \in [Stock0 -> ExitWhy]
  BY <1>1, PoolFact DEF EntryWhy, ExitWhy
<1>7. \A s \in Stock0 : /\ entry[s] # "none" => d.entry[s] # "none" \/ s \in picked
                        /\ exit[s] # "none" => d.exit[s] # "none" \/ out(s)
  OBVIOUS
<1> HIDE DEF entry, exit
<1>8. /\ e \in PoolType /\ e.cash = d.cash /\ e.trades = d.trades /\ e.pos = d.pos /\ e.entry = entry
      /\ e.exit = exit /\ e.off = d.off
  BY <1>1, <1>6 DEF PoolType
<1> HIDE DEF e
<1>9. Alike(d, e)
  BY <1>8 DEF Alike
<1>10. \A s \in Stock0 : /\ e.entry[s] # "none" => d.pos[s].qty = 0 /\ HasNext(s)
                         /\ e.exit[s] # "none" => d.pos[s].qty # 0 /\ HasNext(s)
  BY <1>4, <1>5, <1>7, <1>8, GoodFact
<1>11. Good(e)
  BY <1>8, <1>9, <1>10, GoodAlike
<1> QED BY <1>2, <1>8, <1>11

LEMMA ComesBackKeeps ==
  ASSUME test \in Tests, NEW c, NEW d, Good(d), ~d.off, NEW s \in Stock0, d.pos[s].qty = 0, HasNext(s)
  PROVE  Good(ComesBack(d, s, c)) /\ ComesBack(d, s, c).off = d.off /\ ComesBack(d, s, c).pos = d.pos
<1> DEFINE out == CHOOSE h \in Worse(d, c, s) : TRUE
           x == [d.exit EXCEPT ![out] = "PORTFOLIO_ROTATE_OUT"]
           y == [d.entry EXCEPT ![s] = "REENTRY_TREND"]
           e == [d EXCEPT !.entry = y]
           f == [d EXCEPT !.exit = x, !.entry = y]
<1>1. d \in PoolType
  BY GoodFact
<1>2. y \in [Stock0 -> EntryWhy] /\ \A r \in Stock0 : y[r] # "none" => d.entry[r] # "none" \/ r = s
  BY <1>1, PoolFact DEF EntryWhy
<1>3. [d EXCEPT !.entry[s] = "REENTRY_TREND"] = e
  BY <1>1, PoolFact
<1>4. [d EXCEPT !.exit[out] = "PORTFOLIO_ROTATE_OUT", !.entry[s] = "REENTRY_TREND"] = f
  <2> HIDE DEF out
  <2> QED BY <1>1, PoolFact
<1>5. Worse(d, c, s) # {} => out \in Worse(d, c, s)
  OBVIOUS
<1> HIDE DEF out
<1>6. \/ ComesBack(d, s, c) = d
      \/ ComesBack(d, s, c) = e
      \/ ComesBack(d, s, c) = f /\ Worse(d, c, s) # {}
  <2>1. ComesBack(d, s, c)
          = IF Room(d) > 0 THEN [d EXCEPT !.entry[s] = "REENTRY_TREND"]
            ELSE IF test.replace /\ test.gate /\ Worse(d, c, s) # {}
            THEN [d EXCEPT !.exit[out] = "PORTFOLIO_ROTATE_OUT", !.entry[s] = "REENTRY_TREND"] ELSE d
    BY DEF ComesBack, out
  <2> HIDE DEF e, f
  <2>2. ComesBack(d, s, c)
          = IF Room(d) > 0 THEN e ELSE IF test.replace /\ test.gate /\ Worse(d, c, s) # {} THEN f ELSE d
    BY <1>3, <1>4, <2>1, Zenon
  <2> QED BY <2>2, Zenon
<1>7. CASE ComesBack(d, s, c) = d
  BY <1>7
<1>8. CASE ComesBack(d, s, c) = e
  <2> HIDE DEF y
  <2>1. /\ e \in PoolType /\ e.cash = d.cash /\ e.trades = d.trades /\ e.pos = d.pos /\ e.entry = y
        /\ e.exit = d.exit /\ e.off = d.off
    BY <1>1, <1>2 DEF PoolType
  <2> HIDE DEF e
  <2>2. Alike(d, e)
    BY <2>1 DEF Alike
  <2>3. \A r \in Stock0 : /\ e.entry[r] # "none" => d.pos[r].qty = 0 /\ HasNext(r)
                          /\ e.exit[r] # "none" => d.pos[r].qty # 0 /\ HasNext(r)
    BY <1>2, <2>1, GoodFact
  <2>4. Good(e)
    BY <2>1, <2>2, <2>3, GoodAlike
  <2> QED BY <1>8, <2>1, <2>4
<1>9. CASE ComesBack(d, s, c) = f /\ Worse(d, c, s) # {}
  <2>1. out \in Stock0 /\ d.pos[out].qty # 0 /\ HasNext(out)
    BY <1>5, <1>9, HoldsFact DEF Worse, Holds
  <2>2. x \in [Stock0 -> ExitWhy] /\ \A r \in Stock0 : x[r] # "none" => d.exit[r] # "none" \/ r = out
    BY <1>1, PoolFact DEF ExitWhy
  <2> HIDE DEF x, y
  <2>3. /\ f \in PoolType /\ f.cash = d.cash /\ f.trades = d.trades /\ f.pos = d.pos /\ f.entry = y
        /\ f.exit = x /\ f.off = d.off
    BY <1>1, <1>2, <2>2 DEF PoolType
  <2> HIDE DEF f
  <2>4. Alike(d, f)
    BY <2>3 DEF Alike
  <2>5. \A r \in Stock0 : /\ f.entry[r] # "none" => d.pos[r].qty = 0 /\ HasNext(r)
                          /\ f.exit[r] # "none" => d.pos[r].qty # 0 /\ HasNext(r)
    BY <1>2, <2>1, <2>2, <2>3, GoodFact
  <2>6. Good(f)
    BY <2>3, <2>4, <2>5, GoodAlike
  <2> QED BY <1>9, <2>3, <2>6
<1> QED BY <1>6, <1>7, <1>8, <1>9

LEMMA ReentriesKeep ==
  ASSUME test \in Tests, NEW c, NEW d, Good(d), ~d.off
  PROVE  Good(ReentriesAtClose(d, c))
<1> DEFINE back == {s \in Stock0 : Returning(d, c, s)}
           Fit(e) == Good(e) /\ ~e.off /\ e.pos = d.pos
           E == {e \in [back : SUBSET back, desk : PoolType] : Fit(e.desk)}
           Q == [n \in Nat |-> E]
           one == [back |-> back, desk |-> d]
           N == Len(Tickers)
           Again(x) == AllBack(x, c)
<1>1. \A e : Good(e) => e \in PoolType
  BY GoodFact
<1>2. one \in E
  <2>1. d \in PoolType
    BY <1>1
  <2> HIDE DEF back
  <2> QED BY <2>1
<1>3. one \in Q[0]
  BY <1>2
<1>4. \A s \in back : s \in Stock0 /\ d.pos[s].qty = 0 /\ HasNext(s)
  BY DEF Returning
<1> HIDE DEF back
<1>5. \A e \in E, s \in Stock0 : NextBack(e, c) \in E
  <2>1. SUFFICES ASSUME NEW e \in E PROVE NextBack(e, c) \in E
    OBVIOUS
  <2> DEFINE s == CHOOSE r \in BestBack(e.back, c) : TRUE
             f == ComesBack(e.desk, s, c)
             rest == e.back \ {s}
  <2>2. NextBack(e, c) = e \/ (BestBack(e.back, c) # {} /\ NextBack(e, c) = [back |-> rest, desk |-> f])
    BY DEF NextBack
  <2>3. CASE NextBack(e, c) = e
    BY <2>3
  <2>4. CASE BestBack(e.back, c) # {} /\ NextBack(e, c) = [back |-> rest, desk |-> f]
    <3>1. s \in e.back
      BY <2>4 DEF BestBack
    <3>2. Good(e.desk) /\ ~e.desk.off /\ e.desk.pos = d.pos /\ e.back \subseteq back
      OBVIOUS
    <3> HIDE DEF s, E
    <3>3. s \in Stock0 /\ e.desk.pos[s].qty = 0 /\ HasNext(s)
      BY <1>4, <3>1, <3>2
    <3>4. Good(f) /\ f.off = e.desk.off /\ f.pos = e.desk.pos
      BY <3>2, <3>3, ComesBackKeeps
    <3> HIDE DEF f
    <3>5. f \in PoolType /\ Fit(f) /\ rest \in SUBSET back
      BY <1>1, <3>2, <3>4
    <3> HIDE DEF rest, Fit
    <3> QED BY <2>4, <3>5 DEF E
  <2> QED BY <2>2, <2>3, <2>4
<1>6. \A n \in 1..N, e \in E : e \in Q[n - 1] => NextBack(e, c) \in Q[n]
  <2>1. SUFFICES ASSUME NEW n \in 1..N, NEW e \in E PROVE NextBack(e, c) \in Q[n]
    OBVIOUS
  <2>2. n \in Nat
    BY StockFact
  <2>3. NextBack(e, c) \in E
    <3>1. Tickers[n] \in Stock0
      BY StockFact
    <3> HIDE DEF E
    <3> QED BY <1>5, <3>1
  <2> HIDE DEF E
  <2> QED BY <2>2, <2>3
<1>7. Again(one) \in E
  <2> HIDE DEF E, Q, one
  <2> QED BY <1>2, <1>3, <1>5, <1>6, ReentriesStays
<1>8. Good(Again(one).desk)
  <2> DEFINE e == Again(one)
  <2>1. e \in E
    BY <1>7
  <2> HIDE DEF e
  <2>2. Good(e.desk)
    BY <2>1
  <2> QED BY <2>2 DEF e
<1>9. ReentriesAtClose(d, c) = IF Reentering THEN Again(one).desk ELSE d
  BY DEF ReentriesAtClose, back
<1> HIDE DEF Again, one
<1> QED BY <1>8, <1>9

\* What remains of the day's end: who is held had no bar there.
LEMMA DayOverKeeps ==
  ASSUME test \in Tests, step \in 1..LastBar, NEW c, Candles(c), NEW d, Good(d), NEW s \in Stock0
  PROVE  /\ Good(DayOver(d, s, c))
         /\ s \in DOMAIN c => DayOver(d, s, c).pos[s].qty = 0
         /\ \A r \in Stock0 : d.pos[r].qty = 0 => DayOver(d, s, c).pos[r].qty = 0
<1> DEFINE p == d.pos[s]
           close == c[s].close
           why == "EOD_SQUARE_OFF"
           f == Exited0(d, s, close, close, why)
           entry == [f.entry EXCEPT ![s] = "none"]
           e == [f EXCEPT !.entry = entry]
<1>1. Books(d) /\ Fresh(d) /\ d \in PoolType
  BY GoodFact DEF Good
<1>2. CASE s \notin DOMAIN c \/ s \notin Holds(d)
  <2>1. DayOver(d, s, c) = d
    BY <1>2 DEF DayOver
  <2>2. s \in DOMAIN c => d.pos[s].qty = 0
    BY <1>2 DEF Holds
  <2> QED BY <2>1, <2>2
<1>3. CASE s \in DOMAIN c /\ s \in Holds(d)
  <2>1. p.qty # 0 /\ d.entry[s] = "none"
    BY <1>1, <1>3 DEF Holds, Books
  <2>2. close \in Nat /\ 100 * close >= 80 * close
    BY <1>3, CandleFact DEF Usual
  <2>3. why \in DealWhy
    BY DEF DealWhy
  <2>4. Charged(p.qty, close, close, why)
    BY DEF Charged, Leg, Many
  <2> HIDE DEF why, p, close
  <2>5. Books(f) /\ Fresh(f)
    BY <1>1, <2>1, <2>2, <2>3, <2>4, ExitedKeeps DEF p
  <2>6. ClosedAs(f, d, s, close, close, why)
    BY <1>1, <2>2, <2>3, ExitIs
  <2> HIDE DEF f
  <2>7. /\ f \in PoolType /\ f.entry = d.entry /\ f.off = d.off
        /\ \A r \in Stock0 : f.pos[r] = IF r = s THEN Flat ELSE d.pos[r]
        /\ \A r \in Stock0 : f.exit[r] = IF r = s THEN "none" ELSE d.exit[r]
    BY <2>6 DEF ClosedAs
  <2>8. entry \in [Stock0 -> EntryWhy] /\ \A r \in Stock0 : entry[r] = f.entry[r]
    BY <2>1, <2>7, PoolFact DEF EntryWhy
  <2>9. DayOver(d, s, c) = e
    <3>1. DayOver(d, s, c) = [f EXCEPT !.entry[s] = "none"]
      BY <1>3, Zenon DEF DayOver, f, close, why
    <3>2. [f EXCEPT !.entry[s] = "none"] = e
      BY <2>7, PoolFact
    <3> QED BY <3>1, <3>2, Zenon
  <2> HIDE DEF entry
  <2>10. /\ e \in PoolType /\ e.cash = f.cash /\ e.trades = f.trades /\ e.pos = f.pos /\ e.entry = entry
         /\ e.exit = f.exit /\ e.off = f.off
    BY <2>7, <2>8 DEF PoolType
  <2> HIDE DEF e
  <2>11. Good(f)
    <3>1. ASSUME NEW r \in Stock0, Waiting0(f, r) PROVE HasNext(r)
      <4>1. f.entry[r] # "none" \/ f.exit[r] # "none"
        BY <3>1 DEF Waiting0
      <4>2. d.entry[r] # "none" \/ d.exit[r] # "none"
        BY <2>7, <4>1
      <4> QED BY <4>2, GoodFact
    <3> QED BY <2>5, <3>1 DEF Good
  <2>12. Alike(f, e)
    BY <2>10 DEF Alike
  <2>13. \A r \in Stock0 : /\ e.entry[r] # "none" => f.pos[r].qty = 0 /\ HasNext(r)
                           /\ e.exit[r] # "none" => f.pos[r].qty # 0 /\ HasNext(r)
    BY <2>8, <2>10, <2>11, GoodFact
  <2>14. e.off => Queued0(e) = {}
    <3>1. Queued0(e) = Queued0(f)
      BY <2>8, <2>10 DEF Queued0
    <3> QED BY <2>10, <2>11, <3>1, GoodFact
  <2>15. Good(e)
    BY <2>11, <2>12, <2>13, <2>14, GoodAlike
  <2>16. e.pos[s].qty = 0 /\ \A r \in Stock0 : d.pos[r].qty = 0 => e.pos[r].qty = 0
    BY <2>7, <2>10, FlatFact
  <2> QED BY <2>9, <2>15, <2>16
<1> QED BY <1>2, <1>3

LEMMA SquaredOffKeeps ==
  ASSUME test \in Tests, step \in 1..LastBar, NEW c, Candles(c), NEW d, Good(d)
  PROVE  /\ Good(SquaredOff(d, c))
         /\ test.mis /\ DayEnds => \A s \in Holds(SquaredOff(d, c)) : step \notin Bars(s)
<1> DEFINE Done(e, n) == \A i \in 1..n : Tickers[i] \in DOMAIN c => e.pos[Tickers[i]].qty = 0
           E == {e \in PoolType : Good(e)}
           Q == [n \in Nat |-> {e \in PoolType : Done(e, n)}]
           N == Len(Tickers)
<1>1. \A e : Good(e) => e \in PoolType
  BY GoodFact
<1>2. d \in E
  BY <1>1
<1>3. d \in Q[0]
  BY <1>1
<1>4. \A e \in E, s \in Stock0 : /\ Good(DayOver(e, s, c))
                                 /\ s \in DOMAIN c => DayOver(e, s, c).pos[s].qty = 0
                                 /\ \A r \in Stock0 : e.pos[r].qty = 0 => DayOver(e, s, c).pos[r].qty = 0
  <2>1. \A e \in E : Good(e)
    OBVIOUS
  <2> HIDE DEF E
  <2> QED BY <2>1, DayOverKeeps
<1>5. \A e \in E, s \in Stock0 : DayOver(e, s, c) \in E
  BY <1>1, <1>4
<1>6. \A n \in 1..N, e \in E : e \in Q[n - 1] => DayOver(e, Tickers[n], c) \in Q[n]
  <2>1. SUFFICES ASSUME NEW n \in 1..N, NEW e \in E, e \in Q[n - 1] PROVE DayOver(e, Tickers[n], c) \in Q[n]
    BY Zenon
  <2> DEFINE f == DayOver(e, Tickers[n], c)
  <2>2. Tickers[n] \in Stock0 /\ n \in Nat /\ n - 1 \in Nat /\ N \in Nat
    BY StockFact
  <2>3. /\ Good(f)
        /\ Tickers[n] \in DOMAIN c => f.pos[Tickers[n]].qty = 0
        /\ \A r \in Stock0 : e.pos[r].qty = 0 => f.pos[r].qty = 0
    BY <1>4, <2>2
  <2>4. f \in PoolType /\ Done(e, n - 1)
    BY <1>1, <2>1, <2>2, <2>3
  <2> HIDE DEF f
  <2>5. ASSUME NEW i \in 1..n, Tickers[i] \in DOMAIN c PROVE f.pos[Tickers[i]].qty = 0
    <3>1. i = n \/ i \in 1..n - 1
      BY <2>2
    <3>2. CASE i = n
      BY <2>3, <2>5, <3>2
    <3>3. CASE i \in 1..n - 1
      <4>1. e.pos[Tickers[i]].qty = 0
        BY <2>4, <2>5, <3>3
      <4>2. Tickers[i] \in Stock0
        <5>1. i \in 1..N
          BY <2>2
        <5> QED BY <5>1, StockFact
      <4> QED BY <2>3, <4>1, <4>2
    <3> QED BY <3>1, <3>2, <3>3
  <2>6. Done(f, n)
    BY <2>5
  <2> QED BY <2>2, <2>4, <2>6 DEF f
<1>7. CASE ~(test.mis /\ DayEnds)
  <2>1. SquaredOff(d, c) = d
    BY <1>7 DEF SquaredOff
  <2> QED BY <1>7, <2>1
<1>8. CASE test.mis /\ DayEnds
  <2> DEFINE e == SquaredOff(d, c)
  <2>1. e \in E /\ e \in Q[N]
    <3> HIDE DEF E, Q
    <3> QED BY <1>2, <1>3, <1>5, <1>6, <1>8, SquaredOffStays
  <2> HIDE DEF e
  <2>2. Good(e) /\ Done(e, N)
    BY <2>1, StockFact
  <2>3. ASSUME NEW s \in Holds(e) PROVE step \notin Bars(s)
    <3>1. s \in Stock0 /\ e.pos[s].qty # 0
      BY DEF Holds
    <3>2. PICK i \in 1..N : Tickers[i] = s
      BY <3>1, StockFact
    <3>3. s \notin DOMAIN c
      BY <2>2, <3>1, <3>2
    <3> QED BY <3>1, <3>3, CandleFact
  <2> QED BY <2>2, <2>3 DEF e
<1> QED BY <1>7, <1>8

LEMMA GuardsKeep ==
  ASSUME test \in Tests, NEW c, Candles(c), NEW d, Good(d)
  PROVE  Good(GuardsAtClose(d, c)) /\ Alike(d, GuardsAtClose(d, c))
<1> DEFINE v == Net0(d)
           peak == Max({d.peak, v})
           stop == FellTo(v, peak, test.dd_global)
           top == [s \in Stock0 |-> IF test.dd_trade > 0 /\ s \in Holds(d) THEN Max({d.pos[s].top, v})
                                    ELSE d.pos[s].top]
           Out(s) == s \in DOMAIN c /\ s \in Holds(d) /\ HasNext(s)
           off == d.off \/ stop
           pos == [s \in Stock0 |-> [d.pos[s] EXCEPT !.top = top[s]]]
           entry == IF stop THEN [s \in Stock0 |-> "none"] ELSE d.entry
           exit == [s \in Stock0 |-> IF Out(s) /\ FellTo(v, top[s], test.dd_trade) THEN "EQUITY_DD_TRADE"
                                     ELSE IF Out(s) /\ stop THEN "EQUITY_DD_GLOBAL" ELSE d.exit[s]]
           e == [d EXCEPT !.equity = v, !.peak = peak, !.off = off, !.pos = pos, !.entry = entry, !.exit = exit]
<1>1. d \in PoolType
  BY GoodFact
<1>2. d.pos \in [Stock0 -> PositionType] /\ d.last \in [Stock0 -> Nat] /\ d.cash \in Int /\ d.peak \in Int
      /\ d.off \in BOOLEAN /\ d.entry \in [Stock0 -> EntryWhy] /\ d.exit \in [Stock0 -> ExitWhy]
  BY <1>1, PoolFact
<1>3. GuardsAtClose(d, c) = e
  BY <1>1, <1>2 DEF GuardsAtClose
<1>4. v \in Int
  <2> DEFINE f == [s \in Stock0 |-> d.pos[s].qty * d.last[s]]
  <2>1. \A s \in Stock0 : f[s] \in Int
    <3>1. \A s \in Stock0 : d.pos[s].qty \in Int /\ d.last[s] \in Int
      BY <1>2, PositionFact
    <3> QED BY <3>1
  <2>2. v = d.cash + SumFunctionOnSet(f, Stock0)
    BY DEF Net0
  <2> HIDE DEF f, v
  <2>3. SumFunctionOnSet(f, Stock0) \in Int
    BY <2>1, SumIsInt, StockFact
  <2> QED BY <1>2, <2>2, <2>3
<1> HIDE DEF v
<1>5. peak \in Int
  BY <1>2, <1>4, MostFact
<1> HIDE DEF peak
<1>6. \A s \in Stock0 : top[s] \in Int
  <2>1. \A s \in Stock0 : d.pos[s].top \in Int
    BY <1>2, PositionFact
  <2>2. \A s \in Stock0 : Max({d.pos[s].top, v}) \in Int
    BY <1>4, <2>1, MostFact
  <2> QED BY <2>1, <2>2
<1> HIDE DEF top
<1>7. off \in BOOLEAN /\ (off <=> d.off \/ stop)
  OBVIOUS
<1> HIDE DEF stop, off
<1>8. \A s \in Stock0 : /\ pos[s] \in PositionType
                        /\ pos[s].qty = d.pos[s].qty /\ pos[s].fill = d.pos[s].fill /\ pos[s].from = d.pos[s].from
  <2>1. \A p \in PositionType, x \in Int :
          LET q == [p EXCEPT !.top = x]
          IN  q \in PositionType /\ q.qty = p.qty /\ q.fill = p.fill /\ q.from = p.from
    BY DEF PositionType
  <2> QED BY <1>2, <1>6, <2>1
<1>9. pos \in [Stock0 -> PositionType]
  <2>1. pos = [s \in Stock0 |-> pos[s]]
    OBVIOUS
  <2> HIDE DEF pos
  <2> QED BY <1>8, <2>1
<1> HIDE DEF pos
<1>10. /\ entry \in [Stock0 -> EntryWhy] /\ (~stop => entry = d.entry)
       /\ stop => \A s \in Stock0 : entry[s] = "none"
  BY <1>2 DEF EntryWhy
<1>11. \A s \in Stock0 : Out(s) => d.pos[s].qty # 0 /\ HasNext(s)
  BY DEF Holds
<1> HIDE DEF entry, Out
<1>12. exit \in [Stock0 -> ExitWhy] /\ \A s \in Stock0 : exit[s] # "none" => d.exit[s] # "none" \/ Out(s)
  BY <1>2 DEF ExitWhy
<1> HIDE DEF exit
<1>13. /\ e \in PoolType /\ e.cash = d.cash /\ e.trades = d.trades /\ e.pos = pos /\ e.entry = entry
       /\ e.exit = exit /\ e.off = off
  BY <1>1, <1>4, <1>5, <1>7, <1>9, <1>10, <1>12 DEF PoolType
<1> HIDE DEF e
<1>14. Alike(d, e)
  BY <1>8, <1>13 DEF Alike
<1>15. \A s \in Stock0 : /\ e.entry[s] # "none" => d.pos[s].qty = 0 /\ HasNext(s)
                         /\ e.exit[s] # "none" => d.pos[s].qty # 0 /\ HasNext(s)
  BY <1>10, <1>11, <1>12, <1>13, GoodFact
<1>16. e.off => Queued0(e) = {}
  <2>1. CASE stop
    BY <1>10, <1>13, <2>1 DEF Queued0
  <2>2. CASE ~stop
    <3>1. e.entry = d.entry /\ (e.off <=> d.off)
      BY <1>2, <1>7, <1>10, <1>13, <2>2
    <3>2. Queued0(e) = Queued0(d)
      BY <3>1 DEF Queued0
    <3> QED BY <3>1, <3>2, GoodFact
  <2> QED BY <2>1, <2>2
<1>17. Good(e)
  BY <1>14, <1>15, <1>16, GoodAlike
<1> QED BY <1>3, <1>14, <1>17

\* The next bar is of the same day, or this one was the day's last.
LEMMA DayFact ==
  ASSUME step \in 1..LastBar
  PROVE  /\ SessionOf(step) \in Int
         /\ \/ SessionOf(step + 1) = SessionOf(step)
            \/ SessionOf(step + 1) = SessionOf(step) + 1 /\ LastOfSession(SessionOf(step)) = step
<1> DEFINE S == SessionBars
           q == SessionOf(step)
           z == q * S
<1>1. S \in Nat \ {0} /\ LastBar \in Nat /\ step \in Nat /\ step >= 1 /\ step <= LastBar
  BY BarsAssumption
<1>2. q \in Int /\ q * S <= step - 1 /\ step - 1 < (q + 1) * S
  <2>1. \A a \in Int, b \in Nat \ {0} : a \div b \in Int /\ (a \div b) * b <= a /\ a < ((a \div b) + 1) * b
    BY SMTT(30)
  <2> QED BY <1>1, <2>1 DEF SessionOf
<1> HIDE DEF q
<1>3. z \in Int /\ (q + 1) * S = z + S /\ (q + 2) * S = z + S + S
  BY <1>1, <1>2, SMTT(30)
<1>4. z <= step - 1 /\ step - 1 < z + S
  BY <1>2, <1>3
<1>5. SessionOf(step + 1) = step \div S
  BY <1>1 DEF SessionOf
<1>6. CASE step < z + S
  <2>1. q * S <= step /\ step < (q + 1) * S
    BY <1>1, <1>3, <1>4, <1>6
  <2>2. step \div S = q
    BY <1>1, <1>2, <2>1, DivIn
  <2> QED BY <1>2, <1>5, <2>2 DEF q
<1>7. CASE step = z + S
  <2> DEFINE r == q + 1
  <2>1. r \in Int /\ (r + 1) * S = z + S + S /\ r * S = z + S
    BY <1>1, <1>2, <1>3
  <2> HIDE DEF r, z
  <2>2. r * S <= step /\ step < (r + 1) * S
    BY <1>1, <1>3, <1>7, <2>1
  <2>3. step \div S = r
    BY <1>1, <2>1, <2>2, DivIn
  <2>4. LastOfSession(q) = Min({LastBar, step})
    BY <1>3, <1>7 DEF LastOfSession
  <2>5. Min({LastBar, step}) = step
    <3>1. LastBar \in Int /\ step \in Int
      BY <1>1
    <3>2. Min({LastBar, step}) \in {LastBar, step} /\ Min({LastBar, step}) <= step
      BY <3>1, MostFact
    <3> QED BY <1>1, <3>2
  <2> QED BY <1>2, <1>5, <2>3, <2>4, <2>5 DEF q, r
<1> HIDE DEF z
<1>8. step < z + S \/ step = z + S
  BY <1>1, <1>3, <1>4
<1> QED BY <1>6, <1>7, <1>8

LEMMA PoolKeeps ==
  ASSUME test \in Tests, step \in 1..LastBar, NEW c, Candles(c), Books(pool),
         \A t \in pool.trades : t.to < step, \A s \in Stock0 : Waiting0(pool, s) => Ahead(s)
  PROVE  Good(PoolBar(c)) /\ DaysKept(PoolBar(c), step + 1)
<1> DEFINE a == EntriesFill(ExitsFill(pool, c), c)
           b == Marked(a, c)
           d == StopsAtClose(b, c)
           t == TrendAtClose(d, c)
           g == SignalsAtClose(t, c)
           e == IF d.off THEN d ELSE ReentriesAtClose(g, c)
           f == SquaredOff(e, c)
           x == GuardsAtClose(f, c)
<1>1. PoolBar(c) = x
  BY DEF PoolBar
<1>2. Good(a)
  BY FillsKeep
<1> HIDE DEF a
<1>3. Good(b)
  BY <1>2, MarkedKeeps
<1> HIDE DEF b
<1>4. Good(d)
  BY <1>3, StopsKeep
<1> HIDE DEF d
<1>5. Good(t) /\ t.off = d.off
  BY <1>4, TrendKeeps
<1> HIDE DEF t
<1>6. ~d.off => Good(g) /\ ~g.off
  BY <1>5, SignalsKeep
<1> HIDE DEF g
<1>7. Good(e)
  <2>1. CASE d.off
    BY <1>4, <2>1
  <2>2. CASE ~d.off
    <3>1. Good(ReentriesAtClose(g, c))
      BY <1>6, <2>2, ReentriesKeep
    <3> QED BY <2>2, <3>1
  <2> QED BY <2>1, <2>2
<1> HIDE DEF e
<1>8. /\ Good(f)
      /\ test.mis /\ DayEnds => \A s \in Holds(f) : step \notin Bars(s)
  BY <1>7, SquaredOffKeeps
<1> HIDE DEF f
<1>9. Good(x) /\ Alike(f, x)
  BY <1>8, GuardsKeep
<1> HIDE DEF x
<1>10. DaysKept(x, step + 1)
  <2>1. SUFFICES ASSUME test.mis, NEW s \in Holds(x),
                        NEW day \in SessionOf(x.pos[s].from)..SessionOf(step + 1) - 1
                 PROVE  LastOfSession(day) \notin Bars(s)
    BY DEF DaysKept
  <2>2. DaysKept(f, step)
    BY <1>8 DEF Good, Books
  <2>3. s \in Holds(f) /\ x.pos[s].from = f.pos[s].from
    BY <1>9 DEF Alike, Holds
  <2> DEFINE here == SessionOf(step)
             then == SessionOf(step + 1)
             from == SessionOf(x.pos[s].from)
  <2>4. here \in Int /\ (then = here \/ (then = here + 1 /\ LastOfSession(here) = step))
    BY DayFact
  <2>5. from \in Int
    <3>1. x.pos[s].from \in Int
      <4>1. x \in PoolType /\ s \in Stock0
        BY <1>9, GoodFact, HoldsFact
      <4>2. x.pos[s] \in PositionType
        BY <4>1, PoolFact
      <4> QED BY <4>2, PositionFact, BarsAssumption
    <3>2. \A y \in Int, k \in Nat \ {0} : (y - 1) \div k \in Int
      OBVIOUS
    <3> QED BY <3>1, <3>2, BarsAssumption DEF SessionOf
  <2>6. \A day0 \in from..here - 1 : LastOfSession(day0) \notin Bars(s)
    BY <2>1, <2>2, <2>3 DEF DaysKept
  <2>7. day \in from..then - 1
    OBVIOUS
  <2>8. DayEnds \/ then = here
    BY DEF DayEnds
  <2> HIDE DEF here, then, from
  <2>9. CASE day \in from..here - 1
    BY <2>6, <2>9
  <2>10. CASE day \notin from..here - 1
    <3>1. day = here /\ then # here /\ LastOfSession(here) = step
      BY <2>4, <2>5, <2>7, <2>10
    <3>2. step \notin Bars(s)
      BY <1>8, <2>1, <2>3, <2>8, <3>1
    <3> QED BY <3>1, <3>2
  <2> QED BY <2>9, <2>10
<1> QED BY <1>1, <1>9, <1>10

-----------------------------------------------------------------------------
(* Backtests: the single-symbol engine                                        *)

Fits(d) == d \in SoloType /\ Sound(d.pos)

LEMMA SoloFact ==
  ASSUME NEW d, Fits(d)
  PROVE  /\ d \in SoloType /\ d.cash \in Int /\ d.pos \in PositionType /\ d.entry \in EntryWhy /\ d.exit \in ExitWhy
         /\ d.re \in TrendType /\ d.peak \in Int /\ d.off \in BOOLEAN /\ d.trades \in SUBSET DealType
         /\ Sound(d.pos)
  BY DEF Fits, SoloType

LEMMA SoloMoved ==
  ASSUME NEW d, Fits(d), NEW pos \in PositionType, Sound(pos), NEW exit \in ExitWhy
  PROVE  Fits([d EXCEPT !.pos = pos, !.exit = exit])
<1> DEFINE e == [d EXCEPT !.pos = pos, !.exit = exit]
<1>0. d \in SoloType
  BY SoloFact
<1>1. e \in SoloType /\ e.pos = pos
  BY <1>0 DEF SoloType
<1> HIDE DEF e
<1>2. Fits(e)
  BY <1>1 DEF Fits
<1> QED BY <1>2 DEF e

LEMMA SoloLeavesKeeps ==
  ASSUME test \in Tests, step \in 1..LastBar, Ticker0 \in Stock0, NEW d, Fits(d), NEW price \in Nat, NEW at \in Nat,
         NEW why \in DealWhy
  PROVE  Fits(SoloLeaves(d, price, at, why))
<1> DEFINE cash == Settled(d.cash, d.pos, price, at)
           t == TradeOf(Ticker0, d.pos, price, why)
           trades == d.trades \cup {t}
           z == 0
           gone == [d.re EXCEPT !.why = why, !.cool = z]
           re == IF Reentering THEN Left(d.re, why) ELSE gone
           none == "none"
           flat == Flat
           e == [d EXCEPT !.cash = cash, !.trades = trades, !.pos = flat, !.exit = none, !.re = re]
<1>0. d \in SoloType /\ d.cash \in Int /\ d.pos \in PositionType /\ d.re \in TrendType /\ d.trades \in SUBSET DealType
  BY SoloFact
<1>1. SoloLeaves(d, price, at, why) = e
  BY <1>0 DEF SoloLeaves, SoloType
<1>2. cash \in Int
  <2>1. d.pos.qty \in Int
    BY <1>0, PositionFact
  <2> QED BY <1>0, <2>1, SettledFact
<1>3. trades \in SUBSET DealType
  <2>1. t \in DealType
    BY <1>0, TradeOfFact
  <2> HIDE DEF t
  <2> QED BY <1>0, <2>1
<1>4. re \in TrendType
  <2>1. Left(d.re, why) \in TrendType
    BY <1>0, LeftFact
  <2>2. z \in Int
    OBVIOUS
  <2> HIDE DEF z
  <2>3. gone \in TrendType
    BY <1>0, <2>2 DEF TrendType
  <2> HIDE DEF gone
  <2> QED BY <2>1, <2>3
<1>5. none \in ExitWhy /\ flat \in PositionType /\ Sound(flat)
  BY FlatFact DEF ExitWhy
<1> HIDE DEF cash, trades, re, none, flat
<1>6. e \in SoloType /\ e.pos = flat
  BY <1>0, <1>2, <1>3, <1>4, <1>5 DEF SoloType
<1> HIDE DEF e
<1>7. Fits(e)
  BY <1>5, <1>6 DEF Fits
<1> QED BY <1>1, <1>7

LEMMA SoloExitKeeps ==
  ASSUME test \in Tests, step \in 1..LastBar, Ticker0 \in Stock0, NEW c, Usual(c), NEW d, Fits(d)
  PROVE  Fits(SoloExit(d, c))
<1> DEFINE b == d.pos.qty < 0
           price == Slipped(c.open, b)
           why == Reported(d.pos, price, d.exit)
<1>1. SoloExit(d, c) = IF d.exit = "none" THEN d ELSE SoloLeaves(d, price, c.open, why)
  BY DEF SoloExit
<1>2. price \in Nat /\ c.open \in Nat
  <2>1. b \in BOOLEAN /\ c.open \in Nat \ {0} /\ (c.open * test.slip) % 100 = 0
    BY DEF Usual
  <2> HIDE DEF b
  <2>2. Slipped(c.open, b) \in Nat \ {0}
    BY <2>1, SlippedFact
  <2> QED BY <2>1, <2>2
<1>3. why \in DealWhy
  BY SoloFact, ReportedFact DEF DealWhy
<1> HIDE DEF price, why
<1>4. Fits(SoloLeaves(d, price, c.open, why))
  BY <1>2, <1>3, SoloLeavesKeeps
<1> QED BY <1>1, <1>4

LEMMA SoloEntryKeeps ==
  ASSUME test \in Tests, step \in 1..LastBar, NEW c, Usual(c), NEW d, Fits(d)
  PROVE  Fits(SoloEntry(d, c))
<1> DEFINE b == ~test.short
           price == Slipped(c.open, b)
           hundred == 100 * price
           worth == (d.cash * test.size) \div hundred
           money == d.cash \div price
           least == Min({worth, money})
           n == IF test.short THEN worth ELSE least
           qty == IF test.short THEN -n ELSE n
           paid == Settled(d.cash, [Flat EXCEPT !.qty = -qty], price, c.open)
           none == [d EXCEPT !.entry = "none"]
           top == paid + qty * price
           new == Opened0(qty, price, d.entry, top)
           count == IF d.entry = "REENTRY_TREND" THEN d.re.n + 1 ELSE d.re.n
           no == "none"
           re == [d.re EXCEPT !.n = count, !.why = no]
           e == [none EXCEPT !.cash = paid, !.pos = new, !.re = re]
           dropped == n <= 0 \/ (~test.short /\ paid < 0)
<1>0. d \in SoloType /\ d.cash \in Int /\ d.re \in TrendType /\ d.entry \in EntryWhy /\ Sound(d.pos)
  BY SoloFact
<1>1. SoloEntry(d, c) = IF d.entry = "none" THEN d ELSE IF dropped THEN none ELSE e
  <2>1. SoloEntry(d, c) =
          IF d.entry = "none" THEN d ELSE IF dropped THEN none
          ELSE [none EXCEPT !.cash = paid, !.pos = Opened0(qty, price, d.entry, paid + qty * price),
                            !.re.n = IF d.entry = "REENTRY_TREND" THEN @ + 1 ELSE @, !.re.why = "none"]
    BY DEF SoloEntry
  <2>2. none \in SoloType /\ none.re = d.re
    BY <1>0 DEF SoloType, EntryWhy
  <2> HIDE DEF none, paid, new, qty, price, dropped
  <2>3. [none EXCEPT !.cash = paid, !.pos = Opened0(qty, price, d.entry, paid + qty * price),
                     !.re.n = IF d.entry = "REENTRY_TREND" THEN @ + 1 ELSE @, !.re.why = "none"] = e
    BY <1>0, <2>2 DEF SoloType, TrendType, new
  <2> HIDE DEF e
  <2> QED BY <2>1, <2>3
<1>2. price \in Nat \ {0} /\ c.open \in Nat \ {0} /\ (c.open * test.slip) % 100 = 0
  <2>1. b \in BOOLEAN
    BY TestFact
  <2> HIDE DEF b
  <2>2. c.open \in Nat \ {0} /\ (c.open * test.slip) % 100 = 0
    BY DEF Usual
  <2> QED BY <2>1, <2>2, SlippedFact
<1>3. none \in SoloType /\ none.pos = d.pos /\ none.re = d.re
  BY <1>0 DEF SoloType, EntryWhy
<1>4. Fits(none)
  <2> HIDE DEF none
  <2> QED BY <1>0, <1>3 DEF Fits
<1> HIDE DEF price
<1>5. n \in Int
  <2>1. hundred \in Nat \ {0} /\ d.cash * test.size \in Int
    BY <1>0, <1>2, TestFact
  <2> HIDE DEF hundred
  <2>2. \A x \in Int, y \in Nat \ {0} : x \div y \in Int
    OBVIOUS
  <2>3. worth \in Int /\ money \in Int
    BY <1>0, <1>2, <2>1, <2>2
  <2> HIDE DEF worth, money
  <2>4. least \in Int
    BY <2>3, MostFact
  <2> HIDE DEF least
  <2> QED BY <2>3, <2>4
<1> HIDE DEF n
<1>6. CASE ~dropped
  <2>1. n > 0
    BY <1>5, <1>6
  <2>2. qty \in Int /\ qty # 0 /\ (qty < 0 <=> test.short)
    <3>1. test.short \in BOOLEAN
      BY TestFact
    <3> QED BY <1>5, <2>1, <3>1
  <2> HIDE DEF qty
  <2>3. paid = d.cash - CostOf(qty, price) /\ CostOf(qty, price) \in Int
    BY <1>0, <1>2, <2>2, PaidFact DEF price
  <2> HIDE DEF paid
  <2>4. paid \in Int
    BY <1>0, <2>3
  <2>5. top \in Int
    <3>1. qty * price \in Int
      BY <1>2, <2>2
    <3> QED BY <2>4, <3>1
  <2> HIDE DEF top
  <2>6. new \in PositionType /\ new.qty = qty /\ new.fill = price
    <3>1. price \in Nat
      BY <1>2
    <3> QED BY <1>0, <2>2, <2>5, <3>1, OpenedFact
  <2> HIDE DEF new
  <2>7. Sound(new)
    BY <1>2, <2>2, <2>6 DEF Sound
  <2>8. re \in TrendType
    <3>1. count \in Int /\ no \in DealWhy
      BY <1>0 DEF TrendType, DealWhy, ExitWhy
    <3> HIDE DEF count, no
    <3> QED BY <1>0, <3>1 DEF TrendType
  <2> HIDE DEF re, none
  <2>9. e \in SoloType /\ e.pos = new
    BY <1>3, <2>4, <2>6, <2>8 DEF SoloType
  <2> HIDE DEF e
  <2>10. Fits(e)
    BY <2>7, <2>9 DEF Fits
  <2> QED BY <1>1, <1>6, <2>10
<1> HIDE DEF dropped, e, none
<1> QED BY <1>1, <1>4, <1>6

LEMMA SoloStopsKeeps ==
  ASSUME test \in Tests, NEW c, Usual(c), NEW d, Fits(d)
  PROVE  Fits(SoloStops(d, c))
<1> DEFINE p == Trailed(d.pos, c.close)
           call == StopCalled(p, c.close)
           exit == IF step < LastBar /\ call # "none" THEN call ELSE d.exit
           e == [d EXCEPT !.pos = p, !.exit = exit]
<1>1. SoloStops(d, c) = IF d.pos.qty = 0 THEN d ELSE e
  BY SoloFact DEF SoloStops, SoloType
<1>2. c.close \in Nat /\ d.pos \in PositionType /\ Sound(d.pos) /\ d.exit \in ExitWhy
  BY SoloFact DEF Usual
<1>3. p \in PositionType /\ p.qty = d.pos.qty /\ p.fill = d.pos.fill
  BY <1>2, TrailedFact
<1> HIDE DEF p
<1>4. Sound(p)
  BY <1>2, <1>3, Zenon DEF Sound
<1>5. exit \in ExitWhy
  BY <1>2, CalledFact
<1> HIDE DEF exit
<1>6. Fits(e)
  BY <1>3, <1>4, <1>5, SoloMoved
<1> QED BY <1>1, <1>6

LEMMA SoloSignalsKeeps ==
  ASSUME test \in Tests, NEW c, c.up \in BOOLEAN, NEW d, Fits(d)
  PROVE  Fits(SoloSignals(d, c))
<1> DEFINE re == Cooled(TrendSeen(d.re, c.up))
           g == [d EXCEPT !.re = re]
           k == IF Reentering THEN g ELSE d
<1>1. Fits(k)
  <2>1. re \in TrendType
    <3>1. TrendSeen(d.re, c.up) \in TrendType
      BY SoloFact, SeenFact
    <3>2. "none" \in DealWhy
      BY DEF DealWhy, ExitWhy
    <3> QED BY <3>1, <3>2, LeftFact
  <2> HIDE DEF re
  <2>2. g \in SoloType /\ g.pos = d.pos
    BY <2>1, SoloFact DEF SoloType
  <2> HIDE DEF g
  <2>3. Fits(g)
    BY <2>2, SoloFact DEF Fits
  <2> QED BY <2>3
<1>2. \A w \in EntryWhy : Fits([k EXCEPT !.entry = w])
  <2> HIDE DEF k
  <2>1. SUFFICES ASSUME NEW w \in EntryWhy PROVE Fits([k EXCEPT !.entry = w])
    OBVIOUS
  <2> DEFINE e == [k EXCEPT !.entry = w]
  <2>2. e \in SoloType /\ e.pos = k.pos
    BY <1>1, SoloFact DEF SoloType
  <2> HIDE DEF e
  <2>3. Fits(e)
    BY <1>1, <2>2, SoloFact DEF Fits
  <2> QED BY <2>3 DEF e
<1>3. \A w \in ExitWhy : Fits([k EXCEPT !.exit = w])
  <2> HIDE DEF k
  <2>1. SUFFICES ASSUME NEW w \in ExitWhy PROVE Fits([k EXCEPT !.exit = w])
    OBVIOUS
  <2> DEFINE e == [k EXCEPT !.exit = w]
  <2>2. e \in SoloType /\ e.pos = k.pos
    BY <1>1, SoloFact DEF SoloType
  <2> HIDE DEF e
  <2>3. Fits(e)
    BY <1>1, <2>2, SoloFact DEF Fits
  <2> QED BY <2>3 DEF e
<1> DEFINE back == /\ Reentering /\ k.re.why = "TRAILING_STOP"
                   /\ test.re_max = 0 \/ k.re.n < test.re_max
                   /\ k.re.cool = 0 /\ c.up /\ c.pull
           in == IF c.entry THEN "ENTRY_SIGNAL" ELSE IF back THEN "REENTRY_TREND" ELSE "none"
           out == IF k.exit = "none" /\ c.exit THEN "EXIT_SIGNAL" ELSE k.exit
<1>4. in \in EntryWhy
  <2> HIDE DEF back
  <2> QED BY DEF EntryWhy
<1>5. out \in ExitWhy
  <2> HIDE DEF k
  <2>1. k.exit \in ExitWhy
    BY <1>1, SoloFact
  <2> QED BY <2>1 DEF ExitWhy
<1>6. \/ SoloSignals(d, c) = k
      \/ SoloSignals(d, c) = [k EXCEPT !.entry = in]
      \/ SoloSignals(d, c) = [k EXCEPT !.exit = out]
  <2>1. SoloSignals(d, c) =
          IF step = LastBar THEN k
          ELSE IF k.pos.qty = 0
          THEN IF k.entry # "none" \/ k.off THEN k ELSE [k EXCEPT !.entry = in]
          ELSE [k EXCEPT !.exit = IF @ = "none" /\ c.exit THEN "EXIT_SIGNAL" ELSE @]
    BY DEF SoloSignals, SoloType
  <2> HIDE DEF k, in
  <2>2. [k EXCEPT !.exit = IF @ = "none" /\ c.exit THEN "EXIT_SIGNAL" ELSE @] = [k EXCEPT !.exit = out]
    BY <1>1, SoloFact DEF SoloType
  <2> HIDE DEF out
  <2> QED BY <2>1, <2>2
<1> HIDE DEF k, in, out
<1> QED BY <1>1, <1>2, <1>3, <1>4, <1>5, <1>6

LEMMA SoldFact ==
  ASSUME test \in Tests, NEW c, Usual(c), NEW q
  PROVE  Slipped(c.close, q < 0) \in Nat /\ c.close \in Nat
<1> DEFINE b == q < 0
           m == IF b THEN 100 + test.slip ELSE 100 - test.slip
<1>1. c.close \in Nat
  BY DEF Usual
<1>2. m \in Nat
  <2>1. test.slip \in 0..20
    BY TestFact
  <2> HIDE DEF b
  <2> QED BY <2>1
<1>3. Slipped(c.close, b) = (c.close * m) \div 100
  <2> HIDE DEF b
  <2> QED BY DEF Slipped
<1> HIDE DEF m, b
<1>4. (c.close * m) \div 100 \in Nat
  <2>1. c.close * m \in Nat
    BY <1>1, <1>2
  <2> QED BY <2>1, Quotient
<1> QED BY <1>1, <1>3, <1>4 DEF b

LEMMA SoloSquaredOffKeeps ==
  ASSUME test \in Tests, step \in 1..LastBar, Ticker0 \in Stock0, NEW c, Usual(c), NEW d, Fits(d)
  PROVE  Fits(SoloSquaredOff(d, c))
<1> DEFINE price == Slipped(c.close, d.pos.qty < 0)
           why == "EOD_SQUARE_OFF"
           f == SoloLeaves(d, price, c.close, why)
           no == "none"
           e == [f EXCEPT !.entry = no]
<1>1. SoloSquaredOff(d, c) = d \/ SoloSquaredOff(d, c) = e
  BY Zenon DEF SoloSquaredOff
<1>2. why \in DealWhy /\ no \in EntryWhy
  BY DEF DealWhy, EntryWhy
<1>3. price \in Nat /\ c.close \in Nat
  BY SoldFact
<1> HIDE DEF price, why, no
<1>4. Fits(f)
  BY <1>2, <1>3, SoloLeavesKeeps
<1> HIDE DEF f
<1>5. e \in SoloType /\ e.pos = f.pos
  BY <1>2, <1>4, SoloFact DEF SoloType
<1> HIDE DEF e
<1>6. Fits(e)
  BY <1>4, <1>5, SoloFact DEF Fits
<1> QED BY <1>1, <1>6

LEMMA SoloEndsKeeps ==
  ASSUME test \in Tests, step \in 1..LastBar, Ticker0 \in Stock0, NEW c, Usual(c), NEW d, Fits(d)
  PROVE  Fits(SoloEnds(d, c))
<1> DEFINE price == Slipped(c.close, d.pos.qty < 0)
           why == "END_OF_TEST"
           f == SoloLeaves(d, price, c.close, why)
<1>1. SoloEnds(d, c) = d \/ SoloEnds(d, c) = f
  BY Zenon DEF SoloEnds
<1>2. why \in DealWhy
  BY DEF DealWhy
<1>3. price \in Nat /\ c.close \in Nat
  BY SoldFact
<1> HIDE DEF price, why
<1>4. Fits(f)
  BY <1>2, <1>3, SoloLeavesKeeps
<1> HIDE DEF f
<1> QED BY <1>1, <1>4

LEMMA SoloGuardsKeeps ==
  ASSUME test \in Tests, NEW c, Usual(c), NEW d, Fits(d)
  PROVE  Fits(SoloGuards(d, c))
<1> DEFINE v == SoloWorth(d, c)
           zero == 0
           top == IF d.pos.qty # 0 THEN Max({d.pos.top, v}) ELSE zero
           free == step < LastBar /\ d.exit = "none"
           stop == free /\ SoloStopped(d, c)
           peak == Max({d.peak, v})
           pos == [d.pos EXCEPT !.top = top]
           off == d.off \/ stop
           entry == IF stop THEN "none" ELSE d.entry
           exit == IF ~free \/ d.pos.qty = 0 THEN d.exit
                   ELSE IF stop THEN "EQUITY_DD_GLOBAL"
                   ELSE IF FellTo(v, top, test.dd_trade) THEN "EQUITY_DD_TRADE" ELSE "none"
           e == [d EXCEPT !.peak = peak, !.pos = pos, !.off = off, !.entry = entry, !.exit = exit]
<1>1. d \in SoloType /\ d.cash \in Int /\ d.pos \in PositionType /\ d.entry \in EntryWhy /\ d.exit \in ExitWhy
      /\ d.peak \in Int /\ d.off \in BOOLEAN /\ Sound(d.pos)
  BY SoloFact
<1>2. SoloGuards(d, c) = e
  BY <1>1 DEF SoloGuards, SoloType, PositionType
<1>3. v \in Int
  <2>1. d.pos.qty \in Int /\ c.close \in Int
    BY <1>1, PositionFact DEF Usual
  <2>2. d.pos.qty * c.close \in Int
    BY <2>1
  <2> DEFINE a == d.pos.qty * c.close
  <2>3. v = d.cash + a /\ a \in Int
    BY <2>2 DEF SoloWorth
  <2> HIDE DEF v, a
  <2> QED BY <1>1, <2>3
<1> HIDE DEF v
<1>4. top \in Int /\ peak \in Int
  <2>1. d.pos.top \in Int /\ zero \in Int
    BY <1>1, PositionFact
  <2> HIDE DEF zero
  <2>2. Max({d.pos.top, v}) \in Int /\ Max({d.peak, v}) \in Int
    BY <1>1, <1>3, <2>1, MostFact
  <2> QED BY <2>1, <2>2
<1> HIDE DEF top, peak
<1>5. pos \in PositionType /\ pos.qty = d.pos.qty /\ pos.fill = d.pos.fill
  BY <1>1, <1>4 DEF PositionType
<1> HIDE DEF pos, free
<1>6. Sound(pos)
  BY <1>1, <1>5, Zenon DEF Sound
<1>7. off \in BOOLEAN
  OBVIOUS
<1> HIDE DEF stop
<1>8. entry \in EntryWhy /\ exit \in ExitWhy
  BY <1>1 DEF EntryWhy, ExitWhy
<1> HIDE DEF off, entry, exit
<1>9. e \in SoloType /\ e.pos = pos
  BY <1>1, <1>4, <1>5, <1>7, <1>8 DEF SoloType
<1> HIDE DEF e
<1>10. Fits(e)
  BY <1>6, <1>9 DEF Fits
<1> QED BY <1>2, <1>10

LEMMA SoloKeeps ==
  ASSUME test \in Tests, step \in 1..LastBar, Ticker0 \in Stock0, NEW c \in test.candles, Fits(solo)
  PROVE  Fits(SoloBar(c))
<1>1. Usual(c) /\ c.up \in BOOLEAN
  <2>1. c \in Candle
    BY TestFact
  <2>2. c.up \in BOOLEAN
    BY <2>1 DEF Candle
  <2> QED BY <2>2, UsualFact
<1> DEFINE a == SoloEntry(solo, c)
           b == SoloExit(a, c)
           d == SoloStops(b, c)
           e == SoloSignals(d, c)
           f == SoloSquaredOff(e, c)
           g == SoloGuards(f, c)
<1>2. SoloBar(c) = SoloEnds(g, c)
  BY DEF SoloBar, SoloClose
<1>3. Fits(a)
  BY <1>1, SoloEntryKeeps
<1> HIDE DEF a
<1>4. Fits(b)
  BY <1>1, <1>3, SoloExitKeeps
<1> HIDE DEF b
<1>5. Fits(d)
  BY <1>1, <1>4, SoloStopsKeeps
<1> HIDE DEF d
<1>6. Fits(e)
  BY <1>1, <1>5, SoloSignalsKeeps
<1> HIDE DEF e
<1>7. Fits(f)
  BY <1>1, <1>6, SoloSquaredOffKeeps
<1> HIDE DEF f
<1>8. Fits(g)
  BY <1>1, <1>7, SoloGuardsKeeps
<1> HIDE DEF g
<1>9. Fits(SoloEnds(g, c))
  BY <1>1, <1>8, SoloEndsKeeps
<1> QED BY <1>2, <1>9

-----------------------------------------------------------------------------
(* Backtests: the theorems                                                    *)

LEMMA NothingSums ==
  ASSUME NEW S, IsFiniteSet(S), NEW f, \A x \in S : f[x] = 0
  PROVE  SumFunctionOnSet(f, S) = 0
<1> DEFINE A == {0}
<1>1. 0 \in A /\ \A a, b \in A : a + b \in A
  OBVIOUS
<1>2. \A x \in S : f[x] \in A
  OBVIOUS
<1> HIDE DEF A
<1>3. SumFunctionOnSet(f, S) \in A
  BY <1>1, <1>2, SumStaysIn
<1> QED BY <1>3 DEF A

LEMMA TestInitHolds == TestInit => TestInv
<1> SUFFICES ASSUME TestInit PROVE TestInv
  OBVIOUS
<1>1. test \in Tests /\ step = 1 /\ apart = FALSE
  BY DEF TestInit
<1>2. step \in 1..LastBar + 1 /\ apart \in BOOLEAN
  <2>1. 1 \in 1..LastBar + 1
    BY BarsAssumption
  <2>2. apart \in BOOLEAN
    BY <1>1
  <2> QED BY <1>1, <2>1, <2>2
<1> DEFINE z == 0
           no == FALSE
           none == "none"
           trades == {}
           pos == [s \in Stock0 |-> Flat]
           left == [s \in Stock0 |-> z]
           still == [s \in Stock0 |-> none]
           re == [s \in Stock0 |-> NoTrend]
           flat == Flat
           trend == NoTrend
<1>3. pool = [cash |-> Cash0, pos |-> pos, left |-> left, entry |-> still, exit |-> still, re |-> re,
              last |-> left, equity |-> Cash0, peak |-> z, off |-> no, trades |-> trades]
  BY DEF TestInit
<1>4. solo = [cash |-> Cash0, pos |-> flat, entry |-> none, exit |-> none, re |-> trend, peak |-> z, off |-> no,
              trades |-> trades]
  BY DEF TestInit
<1>5. z \in Int /\ no \in BOOLEAN /\ none \in EntryWhy /\ none \in ExitWhy /\ trades \in SUBSET DealType
      /\ z \in Nat /\ z \in 0..LastBar /\ Cash0 \in Int /\ IsFiniteSet(trades)
  BY BarsAssumption, FS_EmptySet DEF EntryWhy, ExitWhy
<1>6. flat \in PositionType /\ Sound(flat) /\ flat.qty = 0 /\ flat.fill = 0 /\ flat.from = 0 /\ trend \in TrendType
  BY FlatFact, NoTrendFact
<1>7. \A s \in Stock0 : pos[s] = flat /\ still[s] = none
  OBVIOUS
<1>8. /\ pos \in [Stock0 -> PositionType] /\ left \in [Stock0 -> 0..LastBar] /\ left \in [Stock0 -> Nat]
      /\ still \in [Stock0 -> EntryWhy] /\ still \in [Stock0 -> ExitWhy] /\ re \in [Stock0 -> TrendType]
  <2> HIDE DEF z, none
  <2> QED BY <1>5, <1>6
<1>9. Gains(trades) = 0
  <2> DEFINE f == [t \in {} |-> Earned(t)]
  <2>1. SumFunctionOnSet(f, {}) = 0
    BY FS_EmptySet, NothingSums
  <2> QED BY <2>1 DEF Gains
<1>10. Stakes(pos) = 0
  <2> DEFINE f == [s \in Stock0 |-> PaidFor(pos[s])]
  <2>1. PaidFor(Flat) = 0
    BY <1>1, FlatFact, CommittedFact
  <2>2. \A s \in Stock0 : f[s] = 0
    BY <2>1
  <2> HIDE DEF f
  <2>3. SumFunctionOnSet(f, Stock0) = 0
    BY <2>2, NothingSums, StockFact
  <2> QED BY <2>3 DEF Stakes, f
<1>11. trades = {} /\ none = "none" /\ no = FALSE
  OBVIOUS
<1> HIDE DEF z, no, none, trades, pos, left, still, re, flat, trend
<1>12. /\ pool \in PoolType /\ pool.cash = Cash0 /\ pool.pos = pos /\ pool.entry = still /\ pool.exit = still
       /\ pool.off = no /\ pool.trades = trades
  BY <1>3, <1>5, <1>8 DEF PoolType
<1>13. solo \in SoloType /\ solo.pos = flat
  BY <1>4, <1>5, <1>6 DEF SoloType
<1>14. Holds(pool) = {}
  BY <1>6, <1>7, <1>12 DEF Holds
<1>15. Queued0(pool) = {}
  BY <1>7, <1>11, <1>12 DEF Queued0
<1>16. \A s \in Stock0 : pool.pos[s] = flat /\ pool.entry[s] = "none" /\ pool.exit[s] = "none"
  BY <1>7, <1>11, <1>12
<1>17. Books(pool)
  <2>1. \A s \in Stock0 : /\ Sound(pool.pos[s]) /\ pool.pos[s].from <= step
                          /\ pool.entry[s] # "none" => pool.pos[s].qty = 0
                          /\ pool.exit[s] # "none" => pool.pos[s].qty # 0
    BY <1>1, <1>6, <1>16
  <2>2. pool.cash = Cash0 + Gains(pool.trades) - Stakes(pool.pos)
    BY <1>9, <1>10, <1>12, BarsAssumption
  <2>3. pool.cash >= 0
    BY <1>12, BarsAssumption
  <2>4. Cardinality(Holds(pool)) <= test.max_open
    BY <1>1, <1>14, FS_EmptySet, TestFact
  <2>5. DaysKept(pool, step)
    BY <1>14 DEF DaysKept
  <2>6. IsFiniteSet(pool.trades) /\ \A t \in pool.trades : t.to <= step
    BY <1>5, <1>11, <1>12
  <2> QED BY <1>12, <1>15, <2>1, <2>2, <2>3, <2>4, <2>5, <2>6 DEF Books
<1>18. \A t \in pool.trades : t.to < step
  BY <1>11, <1>12
<1>19. \A s \in Stock0 : pool.pos[s].from < step /\ (Waiting0(pool, s) => Ahead(s))
  BY <1>1, <1>6, <1>16 DEF Waiting0
<1>20. Sound(solo.pos)
  BY <1>6, <1>13
<1> QED BY <1>1, <1>2, <1>13, <1>17, <1>18, <1>19, <1>20 DEF TestInv

\* What a bar leaves is what the next one finds.
LEMMA NextBarFinds ==
  ASSUME test \in Tests, step \in 1..LastBar, Good(pool'), DaysKept(pool', step + 1), test' = test, step' = step + 1
  PROVE  /\ Books(pool)' /\ \A t \in pool'.trades : t.to < step'
         /\ \A s \in Stock0 : pool'.pos[s].from < step' /\ (Waiting0(pool', s) => Ahead(s)')
<1> DEFINE d == pool'
<1>1. Books(d) /\ \A s \in Stock0 : Waiting0(d, s) => HasNext(s)
  BY DEF Good
<1>2. d \in PoolType /\ step \in Int
  BY <1>1, BarsAssumption DEF Books
<1>3. \A t \in d.trades : t.to < step'
  <2>1. \A t \in d.trades : t.to \in Int
    <3>1. d.trades \in SUBSET DealType
      BY <1>2, PoolFact
    <3> QED BY <3>1, DealFact
  <2>2. \A t \in d.trades : t.to <= step
    BY <1>1 DEF Books
  <2> QED BY <1>2, <2>1, <2>2
<1>4. \A s \in Stock0 : d.pos[s].from < step'
  <2>1. \A s \in Stock0 : d.pos[s].from \in Int
    <3>1. \A s \in Stock0 : d.pos[s] \in PositionType
      BY <1>2, PoolFact
    <3> QED BY <3>1, PositionFact
  <2>2. \A s \in Stock0 : d.pos[s].from <= step
    BY <1>1 DEF Books
  <2> QED BY <1>2, <2>1, <2>2
<1>5. \A s \in Stock0 : Waiting0(d, s) => Ahead(s)'
  <2>1. SUFFICES ASSUME NEW s \in Stock0, Waiting0(d, s) PROVE Ahead(s)'
    OBVIOUS
  <2>2. PICK b \in Bars(s) : b > step
    BY <1>1, <2>1 DEF HasNext
  <2>3. b \in Int
    BY TestFact DEF Bars
  <2>4. b >= step' /\ b \in test'.bars[s]
    BY <1>2, <2>2, <2>3 DEF Bars
  <2> QED BY <2>4 DEF Ahead, Bars
<1> USE <1>2
<1>6. Books(pool)'
  <2>1. IsFiniteSet(d.trades) /\ d.cash = Cash0 + Gains(d.trades) - Stakes(d.pos)
    BY <1>1 DEF Books
  <2>2. Gains(d.trades) = Gains(pool.trades)' /\ Stakes(d.pos) = Stakes(pool.pos)'
    BY DEF Gains, Stakes, Earned, PaidFor, Leg, Charges
  <2>3. \A s \in Stock0 : /\ Sound(d.pos[s])
                          /\ d.entry[s] # "none" => d.pos[s].qty = 0
                          /\ d.exit[s] # "none" => d.pos[s].qty # 0
    BY <1>1 DEF Books
  <2>4. \A s \in Stock0 : Sound(pool.pos[s])'
    BY <2>3 DEF Sound
  <2>5. \A s \in Stock0 : d.pos[s].from <= step'
    <3>1. \A s \in Stock0 : d.pos[s].from \in Int
      <4>1. \A s \in Stock0 : d.pos[s] \in PositionType
        BY <1>2, PoolFact
      <4> QED BY <4>1, PositionFact
    <3> QED BY <1>2, <1>4, <3>1
  <2>6. \A t \in d.trades : t.to <= step'
    <3>1. d.trades \in SUBSET DealType
      BY <1>2, PoolFact
    <3>2. \A t \in d.trades : t.to \in Int
      BY <3>1, DealFact
    <3> QED BY <1>2, <1>3, <3>2
  <2>7. DaysKept(pool, step)'
    BY DEF DaysKept, Bars, SessionOf, LastOfSession, Holds
  <2>8. /\ ~test.short => d.cash >= 0
        /\ Cardinality(Holds(d)) <= test.max_open
        /\ d.off => Queued0(d) = {}
    BY <1>1 DEF Books
  <2>9. PoolType' = PoolType /\ Holds(d) = Holds(pool)' /\ Queued0(d) = Queued0(pool)'
    BY DEF Holds, Queued0, PoolType
  <2> QED BY <1>2, <2>1, <2>2, <2>3, <2>4, <2>5, <2>6, <2>7, <2>8, <2>9 DEF Books
<1> QED BY <1>3, <1>4, <1>5, <1>6

LEMMA TestKeeps == TestInv /\ [TestNext]_testVars => TestInv'
<1> SUFFICES ASSUME TestInv, [TestNext]_testVars PROVE TestInv'
  OBVIOUS
<1>1. /\ test \in Tests /\ step \in 1..LastBar + 1 /\ apart \in BOOLEAN
      /\ Books(pool) /\ \A t \in pool.trades : t.to < step
      /\ \A s \in Stock0 : pool.pos[s].from < step /\ (Waiting0(pool, s) => Ahead(s))
      /\ solo \in SoloType /\ Sound(solo.pos)
  BY DEF TestInv
<1>2. CASE UNCHANGED testVars
  <2>1. test' = test /\ step' = step /\ pool' = pool /\ solo' = solo /\ apart' = apart
    BY <1>2 DEF testVars
  <2>2. Books(pool)' <=> Books(pool)
    BY <2>1 DEF Books, Sound, DaysKept, Holds, Queued0, Bars, SessionOf, LastOfSession, Gains, Stakes, Earned,
                PaidFor, Leg, Charges, PoolType
  <2>3. \A s \in Stock0 : (Waiting0(pool, s) <=> Waiting0(pool, s)') /\ (Ahead(s) <=> Ahead(s)')
    BY <2>1 DEF Waiting0, Ahead, Bars
  <2>4. Sound(solo.pos)' <=> Sound(solo.pos)
    BY <2>1 DEF Sound
  <2>5. SoloType' = SoloType
    BY DEF SoloType
  <2> QED BY <1>1, <2>1, <2>2, <2>3, <2>4, <2>5 DEF TestInv
<1>3. CASE TestNext
  <2>1. step \in 1..LastBar /\ step' = step + 1 /\ test' = test
    BY <1>1, <1>3, BarsAssumption DEF TestNext, BarComes
  <2>2. PICK c \in [{s \in Stock0 : step \in Bars(s)} -> test.candles] :
          /\ pool' = PoolBar(c)
          /\ IF Single
             THEN LET d == SoloClose(solo, c[Ticker0]) IN
                  /\ solo' = SoloBar(c[Ticker0])
                  /\ apart' = (apart \/ (d.exit # "none" /\ SoloStopped(d, c[Ticker0])))
             ELSE UNCHANGED <<solo, apart>>
    BY <1>3, Zenon DEF TestNext, BarComes
  <2>3. Candles(c)
    BY DEF Candles
  <2>4. Good(pool') /\ DaysKept(pool', step + 1)
    <3>1. Good(PoolBar(c)) /\ DaysKept(PoolBar(c), step + 1)
      BY <1>1, <2>1, <2>3, PoolKeeps
    <3> QED BY <2>2, <3>1
  <2>5. /\ Books(pool)' /\ \A t \in pool'.trades : t.to < step'
        /\ \A s \in Stock0 : pool'.pos[s].from < step' /\ (Waiting0(pool', s) => Ahead(s)')
    BY <1>1, <2>1, <2>4, NextBarFinds
  <2>6. (\A s \in Stock0 : pool.pos[s].from < step /\ (Waiting0(pool, s) => Ahead(s)))'
    <3>1. \A s \in Stock0 : Waiting0(pool', s) <=> Waiting0(pool, s)'
      BY DEF Waiting0
    <3> QED BY <2>5, <3>1
  <2>7. Fits(solo') /\ apart' \in BOOLEAN
    <3>1. CASE ~Single
      BY <1>1, <2>2, <3>1 DEF Fits
    <3>2. CASE Single
      <4>1. Ticker0 \in Stock0 /\ \A s \in Stock0 : Bars(s) # {} => s = Ticker0
        BY <3>2 DEF Single
      <4>2. PICK s \in Stock0 : step \in Bars(s)
        <5>1. UNION {test.bars[s] : s \in Stock0} = 1..LastBar
          BY <1>1, TestAssumption
        <5> QED BY <2>1, <5>1 DEF Bars
      <4>3. c[Ticker0] \in test.candles
        BY <4>1, <4>2
      <4>4. Fits(SoloBar(c[Ticker0]))
        <5>1. Fits(solo)
          BY <1>1 DEF Fits
        <5> QED BY <1>1, <2>1, <4>1, <4>3, <5>1, SoloKeeps
      <4>5. solo' = SoloBar(c[Ticker0])
        BY <2>2, <3>2
      <4> DEFINE k == SoloClose(solo, c[Ticker0]).exit # "none" /\ SoloStopped(SoloClose(solo, c[Ticker0]), c[Ticker0])
      <4>6. apart' = (apart \/ k) /\ k \in BOOLEAN
        BY <2>2, <3>2
      <4> HIDE DEF k
      <4>7. apart' \in BOOLEAN
        BY <1>1, <4>6
      <4> QED BY <4>4, <4>5, <4>7
    <3> QED BY <3>1, <3>2
  <2>9. (solo \in SoloType /\ Sound(solo.pos))'
    <3>1. SoloType' = SoloType /\ Sound(solo.pos)' = Sound(solo'.pos)
      BY <2>1 DEF SoloType, Sound
    <3> QED BY <2>7, <3>1 DEF Fits
  <2>8. step' \in 1..LastBar + 1
    BY <2>1, BarsAssumption
  <2> QED BY <1>1, <2>1, <2>5, <2>6, <2>7, <2>8, <2>9 DEF TestInv
<1> QED BY <1>2, <1>3 DEF TestNext
LEMMA BooksFact ==
  ASSUME NEW d, Books(d), NEW s \in Stock0
  PROVE  (d.entry[s] # "none" => d.pos[s].qty = 0) /\ (d.exit[s] # "none" => d.pos[s].qty # 0)
  BY DEF Books

\* The backtests' state has its type, and nothing waits that has no bar to come.
THEOREM TestsTyped == TestSpec => []TestTypeOK
<1>1. TestInv => TestTypeOK
  <2> SUFFICES ASSUME TestInv PROVE TestTypeOK
    OBVIOUS
  <2>1. /\ test \in Tests /\ step \in 1..LastBar + 1 /\ apart \in BOOLEAN /\ Books(pool)
        /\ \A s \in Stock0 : Waiting0(pool, s) => Ahead(s)
    BY DEF TestInv
  <2>2. Fits(solo)
    BY DEF TestInv, Fits
  <2>3. \A p \in PositionType : Sound(p) => PositionOK(p)
    BY PositionFact DEF PositionOK, Sound
  <2>4. PositionOK(solo.pos) /\ solo.cash \in Int
    BY <2>2, <2>3, SoloFact
  <2>5. pool.pos \in [Stock0 -> PositionType] /\ pool.left \in [Stock0 -> 0..LastBar]
    <3>1. pool \in PoolType
      BY <2>1 DEF Books
    <3> QED BY <3>1, PoolFact
  <2>6. \A s \in Stock0 : Sound(pool.pos[s])
    BY <2>1 DEF Books
  <2>7. ASSUME NEW s \in Stock0
        PROVE  /\ PositionOK(pool.pos[s]) /\ pool.left[s] \in 0..LastBar
               /\ pool.entry[s] # "none" => pool.pos[s].qty = 0 /\ Ahead(s)
               /\ pool.exit[s] # "none" => pool.pos[s].qty # 0 /\ Ahead(s)
    <3>1. PositionOK(pool.pos[s])
      <4>1. pool.pos[s] \in PositionType
        BY <2>5
      <4>2. Sound(pool.pos[s])
        BY <2>6
      <4> DEFINE p == pool.pos[s]
      <4> HIDE DEF p
      <4>3. p \in PositionType /\ Sound(p)
        BY <4>1, <4>2 DEF p
      <4>4. PositionOK(p)
        BY <2>3, <4>3
      <4> QED BY <4>4 DEF p
    <3>2. pool.left[s] \in 0..LastBar
      BY <2>5
    <3>3. pool.entry[s] # "none" \/ pool.exit[s] # "none" => Ahead(s)
      BY <2>1 DEF Waiting0
    <3>6. pool.entry[s] # "none" => pool.pos[s].qty = 0
      BY <2>1, BooksFact
    <3>7. pool.exit[s] # "none" => pool.pos[s].qty # 0
      BY <2>1, BooksFact
    <3>4. pool.entry[s] # "none" => pool.pos[s].qty = 0 /\ Ahead(s)
      BY <3>3, <3>6, Zenon
    <3>5. pool.exit[s] # "none" => pool.pos[s].qty # 0 /\ Ahead(s)
      BY <3>3, <3>7, Zenon
    <3> QED BY <3>1, <3>2, <3>4, <3>5
  <2> QED BY <2>1, <2>4, <2>7, Zenon DEF TestTypeOK
<1> QED BY <1>1, TestInitHolds, TestKeeps, PTL DEF TestSpec

\* What a portfolio backtest reports is possible: the trades, the charges and the
\* positions explain its money, and its limits hold.
THEOREM ReportsArePossible == TestSpec => []ReportIsPossible
<1>1. TestInv => ReportIsPossible
  <2> SUFFICES ASSUME TestInv PROVE ReportIsPossible
    OBVIOUS
  <2>1. Books(pool)
    BY DEF TestInv
  <2>2. pool.cash = Cash0 + Gains(pool.trades) - Stakes(pool.pos)
    BY <2>1 DEF Books
  <2>3. \A s \in Stock0 : Invested(s) = PaidFor(pool.pos[s])
    BY DEF Invested, PaidFor
  <2>4. [s \in Stock0 |-> Invested(s)] = [s \in Stock0 |-> PaidFor(pool.pos[s])]
    BY <2>3
  <2>5. MoneyIsExplained
    BY <2>2, <2>4, Zenon DEF MoneyIsExplained, Gains, Stakes
  <2>6. /\ ~test.short => pool.cash >= 0
        /\ Cardinality(Holds(pool)) <= test.max_open
        /\ pool.off => Queued0(pool) = {}
    BY <2>1 DEF Books
  <2>7. DaysKept(pool, step)
    BY <2>1 DEF Books
  <2>8. LimitsHold
    BY <2>6, <2>7 DEF LimitsHold, DaysKept
  <2> QED BY <2>5, <2>8 DEF ReportIsPossible
<1> QED BY <1>1, TestInitHolds, TestKeeps, PTL DEF TestSpec

-----------------------------------------------------------------------------
(* The strategies side by side, as they are model-checked                     *)

\* A step of the part that is the behaviour is one of that component, and leaves the
\* others alone.
LEMMA StrategiesSteps ==
  ASSUME [StrategiesNext]_strategyVars
  PROVE  /\ [SchedNext]_schedVars /\ [RunNext]_runVars /\ [RebNext]_rebVars
         /\ [RiskNext]_riskVars /\ [TestNext]_testVars /\ [CandleNext]_candleVars
<1>1. CASE StrategiesNext
  BY <1>1 DEF StrategiesNext
<1>2. CASE UNCHANGED strategyVars
  BY <1>2 DEF strategyVars
<1> QED BY <1>1, <1>2

LEMMA StrategiesParts ==
  StrategiesSpec => SchedSpec /\ RunSpec /\ RebSpec /\ RiskSpec /\ TestSpec /\ CandleSpec
<1>1. StrategiesInit => SchedInit /\ RunInit /\ RebInit /\ RiskInit /\ TestInit /\ CandleInit
  BY DEF StrategiesInit
<1>2. [StrategiesNext]_strategyVars =>
        /\ [SchedNext]_schedVars /\ [RunNext]_runVars /\ [RebNext]_rebVars
        /\ [RiskNext]_riskVars /\ [TestNext]_testVars /\ [CandleNext]_candleVars
  BY StrategiesSteps
<1> QED BY <1>1, <1>2, PTL DEF StrategiesSpec, SchedSpec, RunSpec, RebSpec, RiskSpec, TestSpec, CandleSpec

\* Whichever of the strategies acts - the bar pump, the runner, a rebalance, the risk
\* engine, a backtest or the candles - what it keeps has its type.
THEOREM StrategiesTyped == StrategiesSpec => []StrategiesTypeOK
<1>1. /\ SchedTypeOK /\ RunTypeOK /\ RebTypeOK /\ RiskTypeOK /\ TestTypeOK /\ CandleTypeOK
      => StrategiesTypeOK
  BY DEF StrategiesTypeOK
<1> QED BY <1>1, StrategiesParts, SchedulerTyped, RunnerTyped, RebalanceTyped, RiskTyped, TestsTyped,
           CandlesTyped, PTL
=============================================================================
