----------------------------- MODULE CandleStore -----------------------------
(* The candles of one listing and one base timeframe                           *)
(* (backend/app/services/market_data.py): loads that extend what is stored,    *)
(* hydrations that fetch a window whole, the background sync, and the charts   *)
(* of backend/app/api/analytics.py that ask for them.                          *)
(*                                                                             *)
(* Time is in half bars: bar b opens at 2 * b, an odd time falls inside a bar, *)
(* and `one second' beside a bar is half a bar.                                *)
EXTENDS Integers, Sequences, FiniteSetsExt

CONSTANTS
  Reader,      \* requests that need candles
  Syncer,      \* the background sync
  Feeds,       \* [chunk, day]: MAX_DAYS_PER_CALL and one day, in half bars
  Spans,       \* the windows <<from, upto>> requests ask for
  Keep,        \* MAX_HISTORY_YEARS
  TailGap,     \* the longest tail gap a chart fills by itself
  FirstNow, LastNow,
  MaxOutages   \* bound on fetches the broker refuses

Unheld == "unheld"
Loader == Reader \cup {Syncer}

ASSUME FeedAssumption == Feeds \subseteq [chunk : Nat, day : Nat \ {0}]
ASSUME SpanAssumption == Spans \subseteq Int \X Int /\ Keep \in Nat /\ TailGap \in Nat
ASSUME NowAssumption == FirstNow \in Nat /\ LastNow \in Nat /\ FirstNow <= LastNow
                        /\ Syncer \notin Reader /\ Unheld \notin Loader /\ MaxOutages \in Nat

VARIABLES
  feed,      \* the feed of this behaviour
  wall,      \* the time
  candles,   \* the bars stored
  histLock,  \* who holds _history_lock
  loads,     \* each request and where it stands
  unmet,     \* bars missing from the window of a load that returned
  holes,     \* bars not stored that loads are known to leave behind
  outages

candleVars == <<feed, wall, candles, histLock, loads, unmet, holes, outages>>

CandleBar == 0..(LastNow \div 2)
Between(a, z) == {b \in CandleBar : a <= 2 * b /\ 2 * b <= z}
NoLoad == [pc |-> "idle", op |-> "read", from |-> 0, upto |-> 0, segs |-> <<>>, at |-> 0, has |-> {}]
Least(a, b) == IF a < b THEN a ELSE b
Most(a, b) == IF a > b THEN a ELSE b

CandleInit ==
  /\ feed \in Feeds
  /\ wall = FirstNow
  /\ candles = {} /\ unmet = {} /\ holes = {}
  /\ histLock = Unheld
  /\ loads = [r \in Loader |-> NoLoad]
  /\ outages = 0

Waiting(op, from, upto) == [NoLoad EXCEPT !.pc = "wait", !.op = op, !.from = from, !.upto = upto]

\* load_series for a window, a chart that hydrates by itself (auto) or on demand.
AskFor(r, op, w) ==
  /\ loads[r].pc = "idle"
  /\ LET upto == IF op = "read" THEN w[2] ELSE wall IN
     /\ w[1] < upto
     /\ loads' = [loads EXCEPT ![r] = Waiting(op, w[1], upto)]
  /\ UNCHANGED <<feed, wall, candles, histLock, unmet, holes, outages>>

\* _maybe_hydrate_tail_gap: the last days of a window, when something of it is
\* stored; what remains of the request otherwise.
TailOf(from, upto) ==
  LET got == candles \cap Between(from, upto)
      gap == (upto \div feed.day) - ((2 * Max(got)) \div feed.day)
  IN  IF got # {} /\ gap > 0 /\ gap * feed.day <= TailGap
      THEN Waiting("tail", upto - TailGap, upto)
      ELSE NoLoad

\* A dashboard fills the tail of a group's symbol.
AskTail(r, w) ==
  /\ loads[r].pc = "idle" /\ w[1] < wall
  /\ TailOf(w[1], wall) # NoLoad
  /\ loads' = [loads EXCEPT ![r] = TailOf(w[1], wall)]
  /\ UNCHANGED <<feed, wall, candles, histLock, unmet, holes, outages>>

\* _sync_all_instruments_once: from the newest candle, read outside the lock.
SyncOnce ==
  LET latest == IF candles = {} THEN wall - Keep ELSE Most(2 * Max(candles), wall - Keep) IN
  /\ loads[Syncer].pc = "idle" /\ latest < wall
  /\ loads' = [loads EXCEPT ![Syncer] = Waiting("sync", latest, wall)]
  /\ UNCHANGED <<feed, wall, candles, histLock, unmet, holes, outages>>

\* Mutant of Segments: goes on a day after the latest candle, as after a chunk.
SegmentsByDay(from, upto) ==
  IF candles = {} THEN <<<<from, upto>>>>
  ELSE LET before == 2 * Min(candles) - 1
           after == 2 * Max(candles) + feed.day
       IN  (IF from < before THEN <<<<from, before>>>> ELSE <<>>)
           \o (IF after < upto THEN <<<<after, upto>>>> ELSE <<>>)

\* The pieces ensure_history fetches: before the earliest candle, after the latest.
Segments(from, upto) ==
  IF candles = {} THEN <<<<from, upto>>>>
  ELSE LET before == 2 * Min(candles) - 1
           after == 2 * Max(candles) + 1
       IN  (IF from < before THEN <<<<from, before>>>> ELSE <<>>)
           \o (IF after < upto THEN <<<<after, upto>>>> ELSE <<>>)

Pieces(load, from, upto) ==
  IF from >= upto THEN <<>>
  ELSE IF load.op = "hydrate" THEN <<<<from, upto>>>>
  ELSE Segments(from, upto)

\* ensure_history and ensure_history_window take the lock, clamp the window and
\* decide what to fetch.
EnsureHistory(r) ==
  LET load == loads[r]
      from == Most(load.from, wall - Keep)
      upto == Least(load.upto, wall)
      segs == Pieces(load, from, upto)
  IN
  /\ load.pc = "wait" /\ histLock = Unheld
  /\ IF segs = <<>>
     THEN /\ loads' = [loads EXCEPT ![r] = NoLoad]
          /\ unmet' = IF from < upto THEN unmet \cup (Between(from, upto) \ candles) ELSE unmet
          /\ UNCHANGED histLock
     ELSE /\ histLock' = r
          /\ loads' = [loads EXCEPT ![r] = [load EXCEPT !.pc = "fetch", !.from = from, !.upto = upto,
                                           !.segs = segs, !.at = segs[1][1], !.has = candles]]
          /\ UNCHANGED unmet
  /\ UNCHANGED <<feed, wall, candles, holes, outages>>

\* Where a chunk that starts at `at' ends, and where the next one starts.
ChunkEnd(at, end) == Least(at + feed.chunk, end)
NextChunk(at, end) == ChunkEnd(at, end) + feed.day

\* A hydration away from what is stored leaves the bars between.
Detached(load) ==
  IF load.op = "hydrate" /\ load.at = load.from /\ candles # {}
  THEN Between(2 * Max(candles) + 1, load.at - 1) \cup Between(load.upto + 1, 2 * Min(candles) - 1)
  ELSE {}

\* The turns of _fetch_and_store_history: one chunk is fetched and committed; a
\* candle another writer stored meanwhile takes the whole chunk back.
FetchChunk(r) ==
  LET load == loads[r]
      end == Head(load.segs)[2]
      stop == ChunkEnd(load.at, end)
      next == NextChunk(load.at, end)
      got == {b \in Between(load.at, stop) : 2 * b <= wall} \ load.has
      rest == Tail(load.segs)
  IN
  /\ load.pc = "fetch"
  /\ candles' = IF got \cap candles # {} THEN candles ELSE candles \cup got
  /\ holes' = (holes \cup Between(stop + 1, IF next < end THEN next - 1 ELSE end) \cup Detached(load))
             \ candles'
  /\ IF next < end
     THEN /\ loads' = [loads EXCEPT ![r].at = next, ![r].has = @ \cup got]
          /\ UNCHANGED <<histLock, unmet>>
     ELSE IF rest # <<>>
     THEN /\ loads' = [loads EXCEPT ![r].segs = rest, ![r].at = rest[1][1], ![r].has = candles']
          /\ UNCHANGED <<histLock, unmet>>
     ELSE /\ loads' = [loads EXCEPT ![r] = NoLoad]
          /\ histLock' = Unheld
          /\ unmet' = unmet \cup (Between(load.from, load.upto) \ candles')
  /\ UNCHANGED <<feed, wall, outages>>

\* The broker refuses a chunk: the chunks before it stay, a chart tries the tail.
FetchFails(r) ==
  LET load == loads[r]
      begun == load.at # Head(load.segs)[1]
      lost == {b \in Between(load.at, Head(load.segs)[2]) \ candles : \E c \in candles : c > b}
  IN
  /\ load.pc = "fetch" /\ outages < MaxOutages
  /\ outages' = outages + 1
  /\ histLock' = Unheld
  /\ holes' = IF begun THEN holes \cup lost ELSE holes
  /\ loads' = [loads EXCEPT ![r] = IF load.op = "auto" THEN TailOf(load.from, load.upto) ELSE NoLoad]
  /\ UNCHANGED <<feed, wall, candles, unmet>>

Tick ==
  /\ wall < LastNow
  /\ wall' = wall + 1
  /\ UNCHANGED <<feed, candles, histLock, loads, unmet, holes, outages>>

CandleNext ==
  \/ \E r \in Reader, w \in Spans :
       (\E op \in {"read", "auto", "hydrate"} : AskFor(r, op, w)) \/ AskTail(r, w)
  \/ SyncOnce
  \/ \E r \in Loader : EnsureHistory(r) \/ FetchChunk(r) \/ FetchFails(r)
  \/ Tick

CandleSpec == CandleInit /\ [][CandleNext]_candleVars

CandleTypeOK ==
  /\ feed \in Feeds /\ wall \in FirstNow..LastNow
  /\ candles \subseteq CandleBar /\ unmet \subseteq CandleBar /\ holes \subseteq CandleBar
  /\ histLock \in Loader \cup {Unheld}
  /\ \A r \in Loader : loads[r].pc \in {"idle", "wait", "fetch"}
  /\ outages \in 0..MaxOutages

\* Loads look at the earliest and the latest candle only, so a bar missing between
\* the two is never fetched again by them.  Every bar that is missing there, or in
\* a window whose load returned, is one of those the code is known to leave: the
\* day stepped over after each chunk, what a failed load did not reach, what lies
\* between the store and a hydrated window.
GapsAreKnown ==
  /\ unmet \subseteq candles \cup holes
  /\ histLock = Unheld /\ candles # {} => (Min(candles)..Max(candles)) \subseteq candles \cup holes
=============================================================================
