------------------------------- MODULE Backtests -------------------------------
(* The two engines that simulate entry and exit rules on candles: the portfolio *)
(* engine (services/backtests_portfolio_strategy.py), many symbols sharing      *)
(* money and slots, and the single-symbol engine (services/backtests_strategy.  *)
(* py).  A step is one bar, which both take: orders decided at the close of a   *)
(* bar fill at the open of the symbol's next one.                               *)
(*                                                                              *)
(* Prices are multiples of ten, so that slippage and charges of ten per cent    *)
(* are whole; stop prices are in hundredths.  Signals, trend and ranking score  *)
(* of a bar are inputs, and a score of 0 is none.                               *)
EXTENDS Integers, Sequences, FiniteSets, FiniteSetsExt, Functions

CONSTANTS
  Tickers,     \* the symbols, in their order
  Tests,       \* the backtests to look at, a set of TestType
  Cash0,       \* initial_cash
  LastBar,     \* the bars of the calendar are 1..LastBar
  SessionBars  \* bars of a day

Stock0 == Range(Tickers)
Candle == [open : Nat \ {0}, close : Nat, entry : BOOLEAN, exit : BOOLEAN,
           up : BOOLEAN, pull : BOOLEAN, score : Nat]
TestType ==
  [bars : [Stock0 -> SUBSET (1..LastBar)], candles : SUBSET Candle,
   mis : BOOLEAN, short : BOOLEAN, max_open : Nat, sizing : {"PCT", "FIXED", "SLOT"}, size : Nat,
   cap : Nat, rank : BOOLEAN, hold : Nat, cooldown : Nat, sl : Nat, tp : Nat, trail : Nat,
   dd_global : Nat, dd_trade : Nat, slip : 0..20, rate : 0..20,
   reenter : BOOLEAN, filter : BOOLEAN, re_cool : Nat, re_max : Nat, gate : BOOLEAN, buffer : Nat,
   replace : BOOLEAN]

\* Every bar of the calendar is one of some symbol; CNC is long only; prices are
\* such that no slippage is rounded.
ASSUME TestAssumption ==
  \A t \in Tests : /\ t \in TestType
                   /\ t.short => t.mis
                   /\ UNION {t.bars[s] : s \in Stock0} = 1..LastBar
                   /\ \A c \in t.candles : (c.open * t.slip) % 100 = 0
ASSUME TickersAssumption == Tickers \in Seq(Stock0)
ASSUME BarsAssumption == LastBar \in Nat /\ SessionBars \in Nat \ {0} /\ Cash0 \in Nat

VARIABLES
  test,    \* the configuration and the bars each symbol has
  step,    \* the bar to come
  pool,    \* the portfolio engine
  solo,    \* the single-symbol engine
  apart    \* history: the guard of the whole equity was met while an exit waited

testVars == <<test, step, pool, solo, apart>>

Flat == [qty |-> 0, fill |-> 0, from |-> 0, why |-> "none", best |-> 0, trail |-> 0, on |-> FALSE,
         top |-> 0]
NoTrend == [why |-> "none", cool |-> 0, active |-> FALSE, broke |-> FALSE, n |-> 0]

TestInit ==
  /\ test \in Tests
  /\ step = 1 /\ apart = FALSE
  /\ pool = [cash |-> Cash0, pos |-> [s \in Stock0 |-> Flat], left |-> [s \in Stock0 |-> 0],
             entry |-> [s \in Stock0 |-> "none"], exit |-> [s \in Stock0 |-> "none"],
             re |-> [s \in Stock0 |-> NoTrend], last |-> [s \in Stock0 |-> 0],
             equity |-> Cash0, peak |-> 0, off |-> FALSE, trades |-> {}]
  /\ solo = [cash |-> Cash0, pos |-> Flat, entry |-> "none", exit |-> "none", re |-> NoTrend,
             peak |-> 0, off |-> FALSE, trades |-> {}]

-----------------------------------------------------------------------------
(* What both engines compute                                                   *)

Bars(s) == test.bars[s]
HasNext(s) == \E b \in Bars(s) : b > step
Following(s) == Min({b \in Bars(s) : b > step})
SessionOf(b) == (b - 1) \div SessionBars
Reentering == test.reenter /\ ~test.short

Slipped(price, buys) == (price * (IF buys THEN 100 + test.slip ELSE 100 - test.slip)) \div 100
Charges(turnover) == (turnover * test.rate) \div 100
Size(p) == IF p.qty < 0 THEN -p.qty ELSE p.qty

\* Stop loss and target of a position, in hundredths of the price.
LossAt(p) == p.fill * (IF p.qty > 0 THEN 100 - test.sl ELSE 100 + test.sl)
TargetAt(p) == p.fill * (IF p.qty > 0 THEN 100 + test.tp ELSE 100 - test.tp)

\* The best close and the trail of a position after a close.
Trailed(p, close) ==
  LET long == p.qty > 0
      best == IF long THEN Max({p.best, close}) ELSE Min({p.best, close})
      on == test.trail > 0 /\ (p.on \/ IF long THEN best * 100 >= p.fill * (100 + test.trail)
                                       ELSE best * 100 <= p.fill * (100 - test.trail))
      trail == IF ~on THEN p.trail
               ELSE IF long THEN Max({p.trail, best * (100 - test.trail), p.fill * 100})
               ELSE Min({p.trail, best * (100 + test.trail), p.fill * 100})
  IN  [p EXCEPT !.best = best, !.on = on, !.trail = trail]

\* The exit that a close calls for, if any.
StopCalled(p, close) ==
  LET long == p.qty > 0
      Beyond(level) == IF long THEN close * 100 <= level ELSE close * 100 >= level
      lost == test.sl > 0 /\ Beyond(LossAt(p))
  IN  IF test.tp > 0 /\ (IF long THEN close * 100 >= TargetAt(p) ELSE close * 100 <= TargetAt(p))
      THEN "TAKE_PROFIT"
      ELSE IF lost THEN "STOP_LOSS"
      ELSE IF p.on /\ Beyond(p.trail) THEN "TRAILING_STOP" ELSE "none"

\* A trailing exit that fills at a loss is reported as a stop loss.
Reported(p, price, why) ==
  IF why = "TRAILING_STOP" /\ (IF p.qty > 0 THEN price < p.fill ELSE price > p.fill)
  THEN "STOP_LOSS" ELSE why

Opened0(qty, fill, why, top) ==
  [qty |-> qty, fill |-> fill, from |-> step, why |-> why, best |-> fill, trail |-> fill * 100,
   on |-> FALSE, top |-> top]
\* Mutant of Settled: a purchase pays no charges.
SettledFree(cash, p, price, at) ==
  cash + p.qty * price - (IF p.qty > 0 THEN Charges(p.qty * at) ELSE 0)
Settled(cash, p, price, at) ==
  cash + p.qty * price - Charges(Size(p) * at)
TradeOf(s, p, price, why) ==
  [sym |-> s, from |-> p.from, to |-> step, qty |-> p.qty, fill |-> p.fill, price |-> price, why |-> why]

\* The trend's state after a close, and the exit's mark on it.
TrendSeen(r, up) ==
  LET back == ~r.active /\ up /\ r.broke IN
  IF back THEN [NoTrend EXCEPT !.active = TRUE]
  ELSE [r EXCEPT !.active = up, !.broke = r.broke \/ (r.active /\ ~up)]
Cooled(r) == [r EXCEPT !.cool = IF @ > 0 THEN @ - 1 ELSE 0]
Left(r, why) == [r EXCEPT !.why = why, !.cool = IF why = "TRAILING_STOP" THEN test.re_cool + 1 ELSE 0]
\* A position opened by a re-entry.
Returned(r) == [r EXCEPT !.n = @ + 1, !.why = "none", !.cool = 0]

FellTo(equity, peak, pct) == pct > 0 /\ peak > 0 /\ equity * 100 <= peak * (100 - pct)

\* A loop over the symbols in their order, its body applied to what is there so far.
Through(body(_, _), d) ==
  LET after[n \in 0..Len(Tickers)] == IF n = 0 THEN d ELSE body(after[n - 1], Tickers[n])
  IN  after[Len(Tickers)]

-----------------------------------------------------------------------------
(* The portfolio engine.  c is the candle of each symbol that has one.         *)

Holds(d) == {s \in Stock0 : d.pos[s].qty # 0}
Queued0(d) == {s \in Stock0 : d.entry[s] # "none"}
IndexOf(s) == CHOOSE i \in 1..Len(Tickers) : Tickers[i] = s
Room(d) == test.max_open - Cardinality(Holds(d)) - Cardinality(Queued0(d))

\* A position is closed: trade, cash, counters.
Exited0(d, s, price, at, why) ==
  [d EXCEPT !.cash = Settled(@, d.pos[s], price, at),
            !.trades = @ \cup {TradeOf(s, d.pos[s], price, why)},
            !.pos[s] = Flat, !.exit[s] = "none", !.left[s] = step,
            !.re[s] = IF Reentering THEN Left(@, why) ELSE @]

\* 1: exits at the open.
ExitFills(d, s, c) ==
  LET price == Slipped(c[s].open, d.pos[s].qty < 0)
  IN  IF s \notin DOMAIN c \/ d.exit[s] = "none" THEN d
      ELSE Exited0(d, s, price, c[s].open, Reported(d.pos[s], price, d.exit[s]))
ExitsFill(d0, c) == Through(LAMBDA d, s : ExitFills(d, s, c), d0)

\* What an entry may spend, as whole shares at a price.
Shares0(d, price, slots, cash) ==
  LET asked == IF test.sizing = "PCT" THEN (d.equity * test.size) \div (100 * price)
               ELSE IF test.sizing = "FIXED" THEN test.size \div price
               ELSE cash \div (price * Max({1, slots}))
      capped == IF test.cap > 0 /\ d.equity > 0 THEN Min({asked, (d.equity * test.cap) \div (100 * price)})
                ELSE asked
  IN  IF test.short THEN capped ELSE Min({capped, d.cash \div price})

\* 2: entries at the open, in the order of the symbols.  One that finds no slot
\* or no money is dropped.
EntryTaken(d, s, qty, price, paid) ==
  [d EXCEPT !.cash = paid, !.pos[s] = Opened0(qty, price, d.entry[s], d.equity), !.entry[s] = "none",
            !.re[s] = IF d.entry[s] = "REENTRY_TREND" THEN Returned(@) ELSE @]
EntryFills(d, s, c, slots, cash) ==
  LET price == Slipped(c[s].open, ~test.short)
      n == Shares0(d, price, slots, cash)
      qty == IF test.short THEN -n ELSE n
      paid == Settled(d.cash, [Flat EXCEPT !.qty = -qty], price, c[s].open)
  IN  IF s \notin DOMAIN c \/ d.entry[s] = "none" THEN d
      ELSE IF Cardinality(Holds(d)) >= test.max_open \/ n <= 0 \/ (~test.short /\ paid < 0)
      THEN [d EXCEPT !.entry[s] = "none"] ELSE EntryTaken(d, s, qty, price, paid)
EntriesFill(d0, c) ==
  LET slots == Max({0, test.max_open - Cardinality(Holds(d0))})
  IN  Through(LAMBDA d, s : EntryFills(d, s, c, slots, d0.cash), d0)

\* 3: the closes.
Marked(d, c) == [d EXCEPT !.last = [s \in Stock0 |-> IF s \in DOMAIN c THEN c[s].close ELSE @[s]]]

\* 4: stops at the close of positions held long enough.
Guardable(d, c, s) ==
  /\ s \in DOMAIN c /\ s \in Holds(d) /\ HasNext(s) /\ d.exit[s] = "none"
  /\ step - d.pos[s].from >= test.hold
StopsAtClose(d, c) ==
  LET p == [s \in Stock0 |-> IF Guardable(d, c, s) THEN Trailed(d.pos[s], c[s].close) ELSE d.pos[s]]
  IN  [d EXCEPT !.pos = p,
                !.exit = [s \in Stock0 |-> IF Guardable(d, c, s) THEN StopCalled(p[s], c[s].close) ELSE @[s]]]

\* 5: signals at the close.  Entries take the free slots, the best score first.
TrendAtClose(d, c) ==
  IF ~Reentering THEN d
  ELSE [d EXCEPT !.re = [s \in Stock0 |->
          IF test.filter /\ s \in DOMAIN c THEN TrendSeen(Cooled(@[s]), c[s].up) ELSE Cooled(@[s])]]
Asking(d, c) ==
  {s \in DOMAIN c : /\ d.pos[s].qty = 0 /\ d.entry[s] = "none" /\ Room(d) > 0 /\ HasNext(s) /\ c[s].entry
                    /\ test.cooldown > 0 /\ d.left[s] > 0 => step - d.left[s] > test.cooldown}
Best(S, n, Before(_, _)) == {s \in S : Cardinality({r \in S : Before(r, s)}) < n}
Picked(d, c) ==
  LET asking == Asking(d, c)
      scored == {s \in asking : test.rank /\ c[s].score > 0}
      ByScore(r, s) == \/ c[r].score > c[s].score
                       \/ c[r].score = c[s].score /\ IndexOf(r) < IndexOf(s)
      ByName(r, s) == IndexOf(r) < IndexOf(s)
      top == Best(scored, Room(d), ByScore)
  IN  top \cup Best(asking \ scored, Room(d) - Cardinality(top), ByName)
SignalsAtClose(d, c) ==
  LET picked == Picked(d, c)
  IN  [d EXCEPT !.entry = [s \in Stock0 |-> IF s \in picked THEN "ENTRY_SIGNAL" ELSE @[s]],
                !.exit = [s \in Stock0 |->
                   IF /\ s \in DOMAIN c /\ s \in Holds(d) /\ @[s] = "none" /\ HasNext(s) /\ c[s].exit
                      /\ step - d.pos[s].from >= test.hold
                   THEN "EXIT_SIGNAL" ELSE @[s]]]

\* Re-entries after a trailing stop, best rank first: into a free slot, or in the
\* place of a worse holding whose next bar is the same.
RankOf(c, s) ==
  Cardinality({r \in DOMAIN c : /\ c[r].score > 0
                                /\ \/ c[r].score > c[s].score
                                   \/ c[r].score = c[s].score /\ IndexOf(r) <= IndexOf(s)})
Ranked(c, s) == test.rank /\ s \in DOMAIN c /\ c[s].score > 0
Returning(d, c, s) ==
  /\ s \in DOMAIN c /\ HasNext(s) /\ d.pos[s].qty = 0 /\ d.entry[s] = "none"
  /\ d.re[s].why = "TRAILING_STOP" /\ d.re[s].cool = 0
  /\ test.re_max = 0 \/ d.re[s].n < test.re_max
  /\ test.filter => c[s].up
  /\ c[s].pull
  /\ test.gate => Ranked(c, s) /\ RankOf(c, s) <= test.max_open + test.buffer
Worse(d, c, s) ==
  LET held == {h \in Holds(d) : d.exit[h] = "none" /\ Ranked(c, h)} IN
  {h \in held : /\ \A g \in held : RankOf(c, g) <= RankOf(c, h)
                /\ RankOf(c, s) < RankOf(c, h)
                /\ HasNext(h) /\ Following(h) = Following(s)}
ComesBack(d, s, c) ==
  LET out == CHOOSE h \in Worse(d, c, s) : TRUE
  IN  IF Room(d) > 0 THEN [d EXCEPT !.entry[s] = "REENTRY_TREND"]
      ELSE IF test.replace /\ test.gate /\ Worse(d, c, s) # {}
      THEN [d EXCEPT !.exit[out] = "PORTFOLIO_ROTATE_OUT", !.entry[s] = "REENTRY_TREND"]
      ELSE d
ByRank(r, s, c) == \/ test.gate /\ RankOf(c, r) < RankOf(c, s)
                   \/ (test.gate => RankOf(c, r) = RankOf(c, s)) /\ IndexOf(r) < IndexOf(s)
\* back are the candidates that have not had their turn.
BestBack(back, c) == {s \in back : \A r \in back \ {s} : ByRank(s, r, c)}
NextBack(e, c) ==
  LET s == CHOOSE r \in BestBack(e.back, c) : TRUE
  IN  IF BestBack(e.back, c) = {} THEN e
      ELSE [back |-> e.back \ {s}, desk |-> ComesBack(e.desk, s, c)]
AllBack(e0, c) == Through(LAMBDA e, s : NextBack(e, c), e0)
ReentriesAtClose(d, c) ==
  LET back == {s \in Stock0 : Returning(d, c, s)}
  IN  IF Reentering THEN AllBack([back |-> back, desk |-> d], c).desk ELSE d

\* 6: intraday positions end at the last bar of the calendar's day, if their
\* symbol has that bar; at its close, without slippage.
DayEnds == step = LastBar \/ SessionOf(step + 1) # SessionOf(step)
DayOver(d, s, c) ==
  IF s \notin DOMAIN c \/ s \notin Holds(d) THEN d
  ELSE [Exited0(d, s, c[s].close, c[s].close, "EOD_SQUARE_OFF") EXCEPT !.entry[s] = "none"]
\* Mutant of SquaredOff: a position that has an exit pending is left to it.
SquaredOffUnlessLeaving(d0, c) ==
  IF test.mis /\ DayEnds
  THEN Through(LAMBDA d, s : IF d.exit[s] # "none" THEN d ELSE DayOver(d, s, c), d0) ELSE d0
SquaredOff(d0, c) ==
  IF test.mis /\ DayEnds THEN Through(LAMBDA d, s : DayOver(d, s, c), d0) ELSE d0

\* 7 and 8: equity, and the guards on its fall.
Net0(d) == d.cash + SumFunctionOnSet([s \in Stock0 |-> d.pos[s].qty * d.last[s]], Stock0)
GuardsAtClose(d, c) ==
  LET v == Net0(d)
      peak == Max({d.peak, v})
      stop == FellTo(v, peak, test.dd_global)
      top == [s \in Stock0 |-> IF test.dd_trade > 0 /\ s \in Holds(d) THEN Max({d.pos[s].top, v})
                               ELSE d.pos[s].top]
      Out(s) == s \in DOMAIN c /\ s \in Holds(d) /\ HasNext(s)
  IN  [d EXCEPT !.equity = v, !.peak = peak, !.off = @ \/ stop,
                !.pos = [s \in Stock0 |-> [@[s] EXCEPT !.top = top[s]]],
                !.entry = IF stop THEN [s \in Stock0 |-> "none"] ELSE @,
                !.exit = [s \in Stock0 |->
                   IF Out(s) /\ FellTo(v, top[s], test.dd_trade) THEN "EQUITY_DD_TRADE"
                   ELSE IF Out(s) /\ stop THEN "EQUITY_DD_GLOBAL" ELSE @[s]]]

PoolBar(c) ==
  LET d == StopsAtClose(Marked(EntriesFill(ExitsFill(pool, c), c), c), c)
      e == IF d.off THEN d ELSE ReentriesAtClose(SignalsAtClose(TrendAtClose(d, c), c), c)
  IN  GuardsAtClose(SquaredOff(e, c), c)

-----------------------------------------------------------------------------
(* The single-symbol engine.  c is the candle.                                 *)

Ticker0 == Tickers[1]
SoloEntry(d, c) ==
  LET price == Slipped(c.open, ~test.short)
      worth == (d.cash * test.size) \div (100 * price)
      n == IF test.short THEN worth ELSE Min({worth, d.cash \div price})
      qty == IF test.short THEN -n ELSE n
      paid == Settled(d.cash, [Flat EXCEPT !.qty = -qty], price, c.open)
      none == [d EXCEPT !.entry = "none"]
  IN  IF d.entry = "none" THEN d
      ELSE IF n <= 0 \/ (~test.short /\ paid < 0) THEN none
      ELSE [none EXCEPT !.cash = paid,
                        !.pos = Opened0(qty, price, d.entry, paid + qty * price),
                        !.re.n = IF d.entry = "REENTRY_TREND" THEN @ + 1 ELSE @,
                        !.re.why = "none"]

SoloLeaves(d, price, at, why) ==
  [d EXCEPT !.cash = Settled(@, d.pos, price, at), !.trades = @ \cup {TradeOf(Ticker0, d.pos, price, why)},
            !.pos = Flat, !.exit = "none",
            !.re = IF Reentering THEN Left(@, why) ELSE [@ EXCEPT !.why = why, !.cool = 0]]
\* Mutant of SoloExit: a losing trailing exit stays a trailing one.
SoloExitTrailing(d, c) ==
  IF d.exit = "none" THEN d
  ELSE SoloLeaves(d, Slipped(c.open, d.pos.qty < 0), c.open, d.exit)
SoloExit(d, c) ==
  IF d.exit = "none" THEN d
  ELSE LET price == Slipped(c.open, d.pos.qty < 0)
       IN  SoloLeaves(d, price, c.open, Reported(d.pos, price, d.exit))

SoloStops(d, c) ==
  LET p == Trailed(d.pos, c.close)
      call == StopCalled(p, c.close)
  IN  IF d.pos.qty = 0 THEN d
      ELSE [d EXCEPT !.pos = p, !.exit = IF step < LastBar /\ call # "none" THEN call ELSE @]

SoloSignals(d0, c) ==
  LET d == IF Reentering THEN [d0 EXCEPT !.re = Cooled(TrendSeen(@, c.up))] ELSE d0
      back == /\ Reentering /\ d.re.why = "TRAILING_STOP"
              /\ test.re_max = 0 \/ d.re.n < test.re_max
              /\ d.re.cool = 0 /\ c.up /\ c.pull
  IN  IF step = LastBar THEN d
      ELSE IF d.pos.qty = 0
      THEN IF d.entry # "none" \/ d.off THEN d
           ELSE [d EXCEPT !.entry = IF c.entry THEN "ENTRY_SIGNAL"
                                    ELSE IF back THEN "REENTRY_TREND" ELSE "none"]
      ELSE [d EXCEPT !.exit = IF @ = "none" /\ c.exit THEN "EXIT_SIGNAL" ELSE @]

SoloSquaredOff(d, c) ==
  IF test.mis /\ d.pos.qty # 0 /\ DayEnds
  THEN [SoloLeaves(d, Slipped(c.close, d.pos.qty < 0), c.close, "EOD_SQUARE_OFF") EXCEPT !.entry = "none"]
  ELSE d

SoloWorth(d, c) == d.cash + d.pos.qty * c.close
SoloStopped(d, c) == FellTo(SoloWorth(d, c), Max({d.peak, SoloWorth(d, c)}), test.dd_global)
\* The guards wait while an exit is pending.
SoloGuards(d, c) ==
  LET v == SoloWorth(d, c)
      top == IF d.pos.qty # 0 THEN Max({d.pos.top, v}) ELSE 0
      free == step < LastBar /\ d.exit = "none"
      stop == free /\ SoloStopped(d, c)
  IN  [d EXCEPT !.peak = Max({@, v}), !.pos.top = top, !.off = @ \/ stop,
                !.entry = IF stop THEN "none" ELSE @,
                !.exit = IF ~free \/ d.pos.qty = 0 THEN @
                         ELSE IF stop THEN "EQUITY_DD_GLOBAL"
                         ELSE IF FellTo(v, top, test.dd_trade) THEN "EQUITY_DD_TRADE" ELSE "none"]

SoloEnds(d, c) ==
  IF step = LastBar /\ d.pos.qty # 0
  THEN SoloLeaves(d, Slipped(c.close, d.pos.qty < 0), c.close, "END_OF_TEST") ELSE d

SoloClose(d, c) ==
  SoloSquaredOff(SoloSignals(SoloStops(SoloExit(SoloEntry(d, c), c), c), c), c)
SoloBar(c) == SoloEnds(SoloGuards(SoloClose(solo, c), c), c)

-----------------------------------------------------------------------------
(* A bar: both engines take it, the single one when the backtest has one symbol *)

Single == {s \in Stock0 : Bars(s) # {}} = {Ticker0}

BarComes ==
  /\ step <= LastBar
  /\ LET here == {s \in Stock0 : step \in Bars(s)} IN
     \E c \in [here -> test.candles] :
       /\ pool' = PoolBar(c)
       /\ IF Single
          THEN LET d == SoloClose(solo, c[Ticker0]) IN
               /\ solo' = SoloBar(c[Ticker0])
               /\ apart' = (apart \/ (d.exit # "none" /\ SoloStopped(d, c[Ticker0])))
          ELSE UNCHANGED <<solo, apart>>
  /\ step' = step + 1
  /\ UNCHANGED test

TestNext == BarComes
TestSpec == TestInit /\ [][TestNext]_testVars

-----------------------------------------------------------------------------
(* Properties *)

Ahead(s) == \E b \in Bars(s) : b >= step
PositionOK(p) ==
  /\ p.qty \in Int /\ {p.fill, p.best, p.trail} \subseteq Nat /\ p.top \in Int
  /\ p.from \in 0..LastBar /\ p.on \in BOOLEAN /\ (p.qty = 0 <=> p.fill = 0)
\* Type: an entry waits only for a symbol that is not held, an exit only for one
\* that is, and either only while the symbol has bars to come.
TestTypeOK ==
  /\ test \in Tests /\ step \in 1..LastBar + 1 /\ apart \in BOOLEAN
  /\ \A s \in Stock0 : /\ PositionOK(pool.pos[s]) /\ pool.left[s] \in 0..LastBar
                       /\ pool.entry[s] # "none" => pool.pos[s].qty = 0 /\ Ahead(s)
                       /\ pool.exit[s] # "none" => pool.pos[s].qty # 0 /\ Ahead(s)
  /\ PositionOK(solo.pos) /\ solo.cash \in Int

\* The trades that the portfolio engine reports, with their charges, and the
\* positions it still holds account for its money to the last unit.
Leg(qty, price, buys, slipped) ==
  Charges((IF qty < 0 THEN -qty ELSE qty) *
          IF slipped THEN (price * 100) \div (IF buys THEN 100 + test.slip ELSE 100 - test.slip) ELSE price)
Earned(t) == t.qty * (t.price - t.fill) - Leg(t.qty, t.fill, t.qty > 0, TRUE)
             - Leg(t.qty, t.price, t.qty < 0, t.why # "EOD_SQUARE_OFF")
Invested(s) == LET p == pool.pos[s] IN p.qty * p.fill + Leg(p.qty, p.fill, p.qty > 0, TRUE)
MoneyIsExplained ==
  pool.cash = Cash0 + SumFunctionOnSet([t \in pool.trades |-> Earned(t)], pool.trades)
              - SumFunctionOnSet([s \in Stock0 |-> Invested(s)], Stock0)

\* Slots and money bound what is held at any time, rotations included; after the
\* equity guard nothing waits to be entered; and an intraday position outlives its
\* day only when its symbol has no bar at the day's end.
LastOfSession(day) == Min({LastBar, (day + 1) * SessionBars})
LimitsHold ==
  /\ Cardinality(Holds(pool)) <= test.max_open
  /\ ~test.short => pool.cash >= 0
  /\ pool.off => Queued0(pool) = {}
  /\ test.mis => \A s \in Holds(pool) : \A day \in SessionOf(pool.pos[s].from)..SessionOf(step) - 1 :
                   LastOfSession(day) \notin Bars(s)

\* What a portfolio backtest reports is possible: its money and its limits.
ReportIsPossible == MoneyIsExplained /\ LimitsHold

\* On one symbol, and without the settings that only one of them has, the two
\* engines hold the same positions, have the same money and report the same
\* trades at every bar, for every order of signals, stops, drawdowns, trailing
\* exits and re-entries; unless the guard of the equity was met while an exit
\* waited, which one of them then passes over.
Comparable ==
  /\ Single /\ ~apart /\ test.sizing = "PCT" /\ test.cap = 0 /\ test.hold = 0 /\ test.cooldown = 0
  /\ ~test.gate /\ test.filter /\ (test.mis => test.slip = 0)
  /\ test.dd_trade > 0 => test.rate = 0 /\ ~test.reenter
Deal0(t) == [f \in {"from", "to", "qty", "fill", "price"} |-> t[f]]
TwinsAgree ==
  Comparable =>
    /\ {Deal0(t) : t \in pool.trades} = {Deal0(t) : t \in {u \in solo.trades : u.why # "END_OF_TEST"}}
    /\ step <= LastBar =>
         /\ solo.cash = pool.cash
         /\ [solo.pos EXCEPT !.top = 0] = [pool.pos[Ticker0] EXCEPT !.top = 0]
=============================================================================
