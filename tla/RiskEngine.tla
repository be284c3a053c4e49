----------------------------- MODULE RiskEngine -----------------------------
(* What the risk engine makes of an order before it is sent                   *)
(* (services/risk_engine.py, called by execute_order_internal), and the       *)
(* records it judges by: the positions table (services/positions_sync.py),    *)
(* the round trips of analytics (services/analytics.py), the equity snapshots *)
(* and the state of each execution scope (services/execution_policy_state.py).*)
(* None of them follows an order by itself: positions are copied from the     *)
(* broker, and round trips are built when somebody asks for analytics.        *)
(*                                                                            *)
(* One broker account and one user.  The broker takes every order it is sent  *)
(* (refusals are the concern of OrderExecution).  Time is a count of bars.    *)
EXTENDS Integers, Sequences, FiniteSets, FiniteSetsExt

CONSTANTS
  RiskSettings,   \* the installations: settings, categories, prices, what is ordered,
                  \* and three bounds: bars, orders, whether the exchange cancels any
  Instrument, Product,
  Baseline,       \* RiskGlobalConfig.baseline_equity_inr
  BarsADay        \* how many bars a trading day has

Source == {"MANUAL", "SIGMATRADER"}
Unsent == -1
RiskOrder ==
  [src : Source, sym : Instrument, side : {"BUY", "SELL"}, qty : Nat \ {0}, price : Nat,
   product : Product, type : STRING, exit : BOOLEAN, made : Nat, sent : Nat \cup {Unsent},
   status : {"WAITING", "REJECTED_RISK", "SENT", "EXECUTED", "CANCELLED"}]
RiskProfile ==
  [allow : BOOLEAN, types : SUBSET STRING, capital : Nat, slots : Nat, exposure : Nat,
   caution : Nat, defense : Nat, hard : Nat, daily : Nat, hard_daily : Nat, losses : Nat,
   cutoffs : SUBSET Nat, per_day : Nat, per_symbol : Nat, apart : Nat, cooldown : Nat,
   fixed : BOOLEAN, mandatory : BOOLEAN, fallback : Nat, near : Nat, far : Nat, mult : Nat,
   max_qty : Nat, max_value : Nat, risk : Nat, hard_risk : Nat, short : BOOLEAN]

\* pick_risk_profile, and get_source_override: what a source overrides wins over
\* the profile of the product.
NoProfile == <<>>
ProfileIn(setting, src, product) ==
  LET base == setting.profile[product]
      over == IF src = "MANUAL" THEN <<>> ELSE setting.override[product]
  IN  [f \in DOMAIN base |-> IF f \in DOMAIN over THEN over[f] ELSE base[f]]

ASSUME SettingsAssumption ==
  \A r \in RiskSettings :
    /\ r.menu \subseteq RiskOrder /\ r.orders \in Nat /\ r.bars \in Nat
    /\ {r.manual_override, r.lapses} \subseteq BOOLEAN
    /\ \A s \in Instrument : r.atr[s] \in Nat /\ r.mark[s] \in Nat
    /\ \A src \in Source, p \in Product : ProfileIn(r, src, p) \in RiskProfile \cup {NoProfile}
ASSUME RiskAssumption == /\ Baseline \in Nat \ {0} /\ BarsADay \in Nat \ {0}
                         /\ IsFiniteSet(Instrument) /\ IsFiniteSet(Product)

VARIABLES
  risk,     \* the installation
  asked,    \* the orders, in the order of their creation
  book,     \* the positions at the broker
  table,    \* the positions table
  trips,    \* analytics_trades
  scope,    \* execution_policy_state
  snaps,    \* equity_snapshots: the peak of a day
  moment,     \* now, in bars
  won,      \* history: what the closed trades of a scope have made
  strays,   \* history: orders judged on a table that lagged, or not judged at all
  rounded   \* history: scopes whose average had to be rounded

riskVars == <<risk, asked, book, table, trips, scope, snaps, moment, won, strays, rounded>>

Holding == Instrument \X Product
Scope == Source \X Holding
DayOf(t) == t \div BarsADay
BarOf(t) == t % BarsADay
HoldingOf(o) == <<o.sym, o.product>>
ScopeOf(o) == <<o.src, HoldingOf(o)>>
Signed(o) == IF o.side = "BUY" THEN o.qty ELSE -o.qty
Magnitude(n) == IF n < 0 THEN -n ELSE n
Placed(o) == o.sent # Unsent
Executed(o) == o.status = "EXECUTED"
Tally(P(_), f(_)) == SumFunctionOnSet([i \in DOMAIN asked |-> f(asked[i])],
                                      {i \in DOMAIN asked : P(asked[i])})

Lot == [qty : Int, avg : Nat]
ScopeState == [date : Nat, trades : Nat, bar : Int, streak : Nat, loss : Int,
               qty : Int, avg : Nat, gain : Int]
FreshScope == [date |-> 0, trades |-> 0, bar |-> Unsent, streak |-> 0, loss |-> Unsent,
               qty |-> 0, avg |-> 0, gain |-> 0]

RiskInit ==
  /\ risk \in RiskSettings
  /\ asked = <<>>
  /\ book = [h \in Holding |-> [qty |-> 0, avg |-> 0]] /\ table = book
  /\ trips = {}
  /\ scope = [k \in Scope |-> FreshScope]
  /\ snaps = [d \in 0..DayOf(risk.bars) |-> 0]
  /\ moment = 0
  /\ won = [k \in Scope |-> 0]
  /\ strays = {} /\ rounded = {}

-----------------------------------------------------------------------------
(* The state of a scope.  An average of 0 is an unknown one.                  *)

\* reset_daily_counters_if_new_day
NewDay(s, t) ==
  IF s.date = DayOf(t) THEN s
  ELSE [s EXCEPT !.date = DayOf(t), !.trades = 0, !.bar = Unsent, !.streak = 0, !.loss = Unsent]

\* What closing n units of the scope's position at a price makes.
Made(s, price, n) == (price - s.avg) * n * (IF s.qty > 0 THEN 1 ELSE -1)
Closes(s, o) == s.qty * Signed(o) < 0 /\ o.qty >= Magnitude(s.qty) /\ s.avg # 0 /\ o.price # 0
ClosedGain(s, o) == s.gain + Made(s, o.price, Magnitude(s.qty))

\* Average and gain of a scope that an order takes to the quantity new, where
\* scaling in keeps the gain if `kept'.  Averages are rounded down here.
Valued(s, o, new, kept) ==
  CASE o.price = 0 -> IF s.qty * new > 0 THEN [avg |-> s.avg, gain |-> s.gain] ELSE [avg |-> 0, gain |-> 0]
    [] o.price # 0 /\ s.qty = 0 -> [avg |-> o.price, gain |-> 0]
    [] o.price # 0 /\ s.qty # 0 /\ s.avg = 0 -> [avg |-> 0, gain |-> 0]
    [] o.price # 0 /\ s.avg # 0 /\ s.qty * Signed(o) > 0 ->
         [avg |-> (s.avg * Magnitude(s.qty) + o.price * o.qty) \div Magnitude(new),
          gain |-> IF kept THEN s.gain ELSE 0]
    [] Closes(s, o) -> [avg |-> o.price, gain |-> 0]
    [] OTHER -> [avg |-> s.avg, gain |-> s.gain + Made(s, o.price, o.qty)]

Rounds(s, o) == s.avg # 0 /\ o.price # 0 /\ s.qty * Signed(o) > 0
                /\ (s.avg * Magnitude(s.qty) + o.price * o.qty) % Magnitude(s.qty + Signed(o)) # 0

\* The losing streak goes on with a trade that closes the position.  A reversal
\* that does not enlarge the position is no trade of the day.
Streak(s, o, t) ==
  IF ~Closes(s, o) THEN s
  ELSE IF ClosedGain(s, o) < 0 THEN [s EXCEPT !.streak = @ + 1, !.loss = BarOf(t)]
  ELSE [s EXCEPT !.streak = 0, !.loss = Unsent]
Entered0(s, new, v, t) ==
  [s EXCEPT !.qty = new, !.avg = IF new = 0 THEN 0 ELSE v.avg, !.gain = IF new = 0 THEN 0 ELSE v.gain,
            !.trades = IF Magnitude(new) > Magnitude(s.qty) THEN @ + 1 ELSE @,
            !.bar = IF Magnitude(new) > Magnitude(s.qty) THEN BarOf(t) ELSE @]
ScopeAfter(s, o, t, kept) ==
  Entered0(Streak(s, o, t), s.qty + Signed(o), Valued(s, o, s.qty + Signed(o), kept), t)

\* Plausible bug: scaling in forgets what partial closes have made.
PostTradeForgets(s0, o, t) == ScopeAfter(NewDay(s0, t), o, t, FALSE)
\* apply_post_trade_updates_on_execution_unified
PostTrade(s0, o, t) == ScopeAfter(NewDay(s0, t), o, t, TRUE)

-----------------------------------------------------------------------------
(* Broker, positions and round trips *)

\* The broker's position in what an order trades, at the price it was filled.
FillPrice(o) == IF o.price = 0 THEN risk.mark[o.sym] ELSE o.price
AtBroker(b, o) ==
  LET end == PostTrade([FreshScope EXCEPT !.qty = b.qty, !.avg = b.avg],
                       [o EXCEPT !.price = FillPrice(o)], 0)
  IN  [qty |-> end.qty, avg |-> end.avg]

\* sync_positions_from_zerodha and _angelone: clear and copy.
SyncPositions ==
  /\ table' = book
  /\ table' # table
  /\ UNCHANGED <<risk, asked, book, trips, scope, snaps, moment, won, strays, rounded>>

\* The reports of the broker: filled, or cancelled at the exchange.
Ends(i, status) ==
  /\ asked[i].status = "SENT"
  /\ asked' = [asked EXCEPT ![i].status = status]
  /\ UNCHANGED <<risk, table, trips, scope, snaps, moment, won, strays, rounded>>
Filled(i) ==
  Ends(i, "EXECUTED") /\ book' = [book EXCEPT ![HoldingOf(asked[i])] = AtBroker(@, asked[i])]
Lapsed(i) == risk.lapses /\ Ends(i, "CANCELLED") /\ UNCHANGED book

Matches(o, p) == o.side # p.side /\ o.qty = p.qty /\ o.price # 0 /\ p.price # 0
\* Plausible bug: the open order stays open after its exit.
MetOpen(acc, i) ==
  IF acc.open = 0 \/ ~Matches(asked[acc.open], asked[i]) THEN [acc EXCEPT !.open = i]
  ELSE [acc EXCEPT !.pairs = @ \cup {[entry |-> acc.open, exit |-> i]}]
\* _iter_order_pairs over one stream: an order is paired with the next of the
\* opposite side, same size and known price, which otherwise replaces it.
Met(acc, i) ==
  IF acc.open = 0 \/ ~Matches(asked[acc.open], asked[i]) THEN [acc EXCEPT !.open = i]
  ELSE [open |-> 0, pairs |-> acc.pairs \cup {[entry |-> acc.open, exit |-> i]}]
Paired(stream) ==
  LET after[n \in 0..Len(asked)] ==
        IF n = 0 THEN [open |-> 0, pairs |-> {}]
        ELSE IF n \in stream THEN Met(after[n - 1], n) ELSE after[n - 1]
  IN  after[Len(asked)].pairs

Used == {t.entry : t \in trips} \cup {t.exit : t \in trips}
Stream(k) == {i \in DOMAIN asked : Executed(asked[i]) /\ i \notin Used /\ ScopeOf(asked[i]) = k}

\* rebuild_trades
RebuildTrades ==
  /\ trips' = trips \cup UNION {Paired(Stream(k)) : k \in Scope}
  /\ trips' # trips
  /\ UNCHANGED <<risk, asked, book, table, scope, snaps, moment, won, strays, rounded>>

-----------------------------------------------------------------------------
(* compute_portfolio_pnl_state: the round trips in the order of their exits   *)

\* Plausible bug: a short round trip is booked like a long one.
TripGainLong(t) == (asked[t.exit].price - asked[t.entry].price) * asked[t.exit].qty
TripGain(t) == LET o == asked[t.entry]  p == asked[t.exit]
               IN  (IF o.side = "BUY" THEN p.price - o.price ELSE o.price - p.price) * p.qty

GainOf(closed) == SumFunctionOnSet([t \in trips |-> TripGain(t)], closed)
\* With the round trips that the first n orders ended.
EquityAfter(n) == Baseline + GainOf({t \in trips : t.exit <= n})
Account ==
  [now |-> EquityAfter(Len(asked)),
   peak |-> Max({EquityAfter(n) : n \in 0..Len(asked)}),
   today |-> GainOf({t \in trips : DayOf(asked[t.exit].made) = DayOf(moment)}),
   streak |-> Cardinality({t \in trips : \A u \in trips : u.exit >= t.exit => TripGain(u) < 0})]

\* drawdown_state, of the account a
FellBy(a, pct) == pct > 0 /\ (a.peak - a.now) * 100 >= pct * a.peak
DrawdownState(a, p) ==
  IF FellBy(a, p.hard) THEN "HARD_STOP"
  ELSE IF FellBy(a, p.defense) THEN "DEFENSE"
  ELSE IF FellBy(a, p.caution) THEN "CAUTION" ELSE "NORMAL"

\* apply_drawdown_throttle, in tenths of the capital.
Throttled(a, p) == DrawdownState(a, p) = "CAUTION"
TenthsOfCapital(a, p) == p.capital * (IF Throttled(a, p) THEN 7 ELSE 10)
Slots(a, p) == IF p.slots > 0 /\ Throttled(a, p) THEN Max({1, (p.slots * 7) \div 10}) ELSE p.slots

-----------------------------------------------------------------------------
(* evaluate_order_risk.  A setting of 0, or an empty set, is not configured.  *)

\* _is_structural_exit
IsExit(o) == LET q == table[HoldingOf(o)].qty
             IN  o.exit \/ Magnitude(q + Signed(o)) < Magnitude(q)

Profile(o) == ProfileIn(risk, o.src, o.product)

\* The gates before the equity of the day is recorded.
Barred(o, p) == ~p.allow \/ (p.types # {} /\ o.type \notin p.types)

BarredByLosses(o, p, a, state) ==
  LET lost == 100 * Magnitude(Min({0, a.today}))
  IN  \/ state = "HARD_STOP"
      \/ state = "DEFENSE" /\ risk.category[o.sym] \notin {"ETF", "LC"}
      \/ /\ p.daily > 0
         /\ \/ p.hard_daily > 0 /\ lost >= p.hard_daily * Baseline
            \/ lost >= p.daily * Baseline
      \/ p.losses > 0 /\ a.streak >= p.losses

\* MIS only: cutoffs, trades of the day, bars between trades, cooldown.  Orders
\* that close a position without saying so count as trades.
EntriesSent(o) ==
  {i \in DOMAIN asked : Placed(asked[i]) /\ ~asked[i].exit /\ asked[i].product = o.product}
SentToday(o) == {i \in EntriesSent(o) : DayOf(asked[i].sent) = DayOf(moment)}
SameSymbol(o, ids) == {i \in ids : asked[i].sym = o.sym}
FromAlert(ids) == {i \in ids : asked[i].src # "MANUAL"}
LastTrip(o) == LET own == {t \in trips : HoldingOf(asked[t.entry]) = HoldingOf(o)}
               IN  {t \in own : \A u \in own : u.exit <= t.exit}
BarredIntraday(o, p) ==
  /\ o.product = "MIS"
  /\ \/ \E c \in p.cutoffs : BarOf(moment) >= c
     \/ p.per_day > 0 /\ Cardinality(SentToday(o)) >= p.per_day
     \/ p.per_symbol > 0 /\ Cardinality(SameSymbol(o, SentToday(o))) >= p.per_symbol
     \/ /\ p.apart > 0
        /\ \/ o.src = "MANUAL"
           \/ \E i \in FromAlert(SameSymbol(o, EntriesSent(o))) : o.made - asked[i].made < p.apart
     \/ /\ p.cooldown > 0 /\ o.src # "MANUAL"
        /\ \E t \in LastTrip(o) : TripGain(t) < 0 /\ o.made - asked[t.exit].made < p.cooldown

HeldIn(lots, product) == {h \in Holding : h[2] = product /\ lots[h].qty # 0}
BarredBySlots(o, slots) == slots > 0 /\ Cardinality(HeldIn(table, o.product)) >= slots

\* _stop_distance_for_order, in hundredths of a price unit; 0 when there is none.
StopDistance(o, p) ==
  LET Within(d) == Max({o.price * p.near, Min({d, o.price * p.far})})
      atr == risk.atr[o.sym]
  IN  IF p.fixed \/ (atr = 0 /\ p.mandatory) THEN Within(o.price * p.fallback)
      ELSE IF atr = 0 THEN 0 ELSE Within(100 * atr * p.mult)

\* The quantity after each cap; 0 rejects the order.
CapTo(qty, limit, unit) == IF qty * unit > limit THEN limit \div unit ELSE qty
Wanted(o, p, a) == IF o.src = "MANUAL" THEN o.qty
                   ELSE IF o.price = 0 THEN 0 ELSE TenthsOfCapital(a, p) \div (10 * o.price)
WithinCount(p, qty) == IF p.max_qty > 0 THEN Min({qty, p.max_qty}) ELSE qty
WithinValue(o, p, qty) == IF p.max_value > 0 /\ o.price # 0 THEN CapTo(qty, p.max_value, o.price) ELSE qty
WithinLoss(qty, pct, unit) == IF pct = 0 THEN qty ELSE CapTo(qty, Baseline * pct, unit)
WithinRisk(o, p, qty, unit) ==
  IF (p.risk = 0 /\ p.hard_risk = 0) \/ o.price = 0 THEN qty
  ELSE IF unit = 0 THEN (IF p.mandatory THEN 0 ELSE qty)
  ELSE WithinLoss(WithinLoss(qty, p.hard_risk, unit), p.risk, unit)
Sized(o, p, a) == WithinRisk(o, p, WithinValue(o, p, WithinCount(p, Wanted(o, p, a))), StopDistance(o, p))

GoesShort(o, qty) == o.side = "SELL" /\ o.product # "CNC" /\ table[HoldingOf(o)].qty < qty
Cost(lots) == [h \in Holding |-> Magnitude(lots[h].qty) * lots[h].avg]
Exposure(lots, product) == SumFunctionOnSet(Cost(lots), {h \in Holding : h[2] = product})
BarredByExposure(o, p, a, qty) ==
  /\ p.exposure > 0 /\ o.price # 0 /\ a.now > 0
  /\ 100 * (Exposure(table, o.product) + qty * o.price) > a.now * p.exposure

BarredAnyway(o, p, a) ==
  Barred(o, p) \/ BarredByLosses(o, p, a, DrawdownState(a, p)) \/ BarredBySlots(o, Slots(a, p))
  \/ BarredIntraday(o, p)

\* Plausible bug: the exposure is checked for the quantity asked for.
VerdictBeforeSizing(o, p, a) ==
  IF BarredAnyway(o, p, a) \/ BarredByExposure(o, p, a, o.qty) THEN 0 ELSE Sized(o, p, a)
\* The quantity of an entry that may be sent, 0 for none.
BarredFor(o, p, a, qty) == (~p.short /\ GoesShort(o, qty)) \/ BarredByExposure(o, p, a, qty)
Verdict(o, p, a) ==
  IF BarredAnyway(o, p, a) \/ BarredFor(o, p, a, Sized(o, p, a)) THEN 0 ELSE Sized(o, p, a)

-----------------------------------------------------------------------------
(* Orders *)

\* Everything that was sent has been filled and copied into the table.
TableInStep ==
  \A h \in Holding : table[h].qty = Tally(LAMBDA o : Placed(o) /\ o.status # "CANCELLED"
                                                     /\ HoldingOf(o) = h, Signed)

\* The ith order, or a new one, goes to the broker as `sent', or is rejected.
Stored(i, o) == IF i > Len(asked) THEN Append(asked, o) ELSE [asked EXCEPT ![i] = o]
Send(i, sent, k, sound) ==
  /\ asked' = Stored(i, sent)
  /\ scope' = [scope EXCEPT ![k] = PostTrade(@, sent, moment)]
  /\ won' = [won EXCEPT ![k] = LET before == NewDay(scope[k], moment)
                               IN  IF Closes(before, sent) THEN @ + ClosedGain(before, sent) ELSE @]
  /\ rounded' = IF Rounds(scope[k], sent) THEN rounded \cup {k} ELSE rounded
  /\ strays' = IF sound THEN strays ELSE strays \cup {i}
Reject(i, rejected) ==
  /\ asked' = Stored(i, rejected)
  /\ UNCHANGED <<scope, won, strays, rounded>>

\* What is decided of an order: the quantity to send, 0 for none, and whether it
\* was judged on a table in step with the broker.  There is no cap on exposure
\* when the price is unknown, nor when the losses have used up the equity.
Reduces(o, q) == q * (q + Signed(o)) >= 0 /\ Magnitude(q + Signed(o)) <= Magnitude(q)
Decision(o, p, a) ==
  CASE IsExit(o) -> [qty |-> o.qty, sound |-> TableInStep /\ Reduces(o, table[HoldingOf(o)].qty)]
    [] ~IsExit(o) /\ p = NoProfile -> [qty |-> IF o.src = "MANUAL" THEN o.qty ELSE 0, sound |-> FALSE]
    [] ~IsExit(o) /\ p # NoProfile /\ o.src = "MANUAL" /\ risk.manual_override ->
         [qty |-> o.qty, sound |-> FALSE]
    [] OTHER -> [qty |-> Verdict(o, p, a), sound |-> TableInStep /\ o.price # 0 /\ a.now > 0]
SentNow(o, qty) == [o EXCEPT !.qty = qty, !.status = "SENT", !.sent = moment]
Enact(i, o, d) ==
  IF d.qty > 0 THEN Send(i, SentNow(o, d.qty), ScopeOf(o), d.sound)
  ELSE Reject(i, [o EXCEPT !.status = "REJECTED_RISK"])
Recorded(o, p) == ~IsExit(o) /\ p # NoProfile /\ ~Barred(o, p)

\* The part of execute_order_internal between the status check and the
\* placement, and the update of the scope after it.
Judge(i, o, p, a) ==
  /\ Enact(i, o, Decision(o, p, a))
  /\ snaps' = IF Recorded(o, p) THEN [snaps EXCEPT ![DayOf(moment)] = Max({@, a.peak})] ELSE snaps
  /\ UNCHANGED <<risk, book, table, trips, moment>>
Execute(i, o) == Judge(i, o, Profile(o), Account)

Blank(deal) == [deal EXCEPT !.status = "WAITING", !.sent = Unsent, !.made = moment]

\* A signal is stored and executed at once; an order of the user waits first.
Dispatch(deal) ==
  /\ deal.src # "MANUAL" /\ Len(asked) < risk.orders
  /\ Execute(Len(asked) + 1, Blank(deal))
Ask(deal) ==
  /\ deal.src = "MANUAL" /\ Len(asked) < risk.orders
  /\ asked' = Append(asked, Blank(deal))
  /\ UNCHANGED <<risk, book, table, trips, scope, snaps, moment, won, strays, rounded>>
ExecuteManual(i) == asked[i].status = "WAITING" /\ Execute(i, asked[i])

NextBarPasses ==
  /\ moment < risk.bars /\ moment' = moment + 1
  /\ UNCHANGED <<risk, asked, book, table, trips, scope, snaps, won, strays, rounded>>

RiskNext ==
  \/ \E deal \in risk.menu : Dispatch(deal) \/ Ask(deal)
  \/ \E i \in DOMAIN asked : ExecuteManual(i) \/ Filled(i) \/ Lapsed(i)
  \/ SyncPositions \/ RebuildTrades \/ NextBarPasses

RiskSpec == RiskInit /\ [][RiskNext]_riskVars

-----------------------------------------------------------------------------
(* Properties *)

\* Orders, positions and records keep their types.
RiskTypeOK ==
  /\ risk \in RiskSettings /\ asked \in Seq(RiskOrder)
  /\ \A i \in DOMAIN asked : asked[i].made \in 0..moment /\ asked[i].sent \in Unsent..moment
  /\ book \in [Holding -> Lot] /\ table \in [Holding -> Lot]
  /\ trips \subseteq [entry : DOMAIN asked, exit : DOMAIN asked]
  /\ scope \in [Scope -> ScopeState] /\ won \in [Scope -> Int]
  /\ snaps \in [0..DayOf(risk.bars) -> Nat] /\ moment \in 0..risk.bars
  /\ strays \subseteq DOMAIN asked /\ rounded \subseteq Scope

\* However often and whenever the round trips are rebuilt, and however late the
\* fills of older orders are, an order belongs to one round trip at most, and a
\* round trip pairs two filled orders of one stream, opposite and of one size.
TripsPairOff ==
  /\ \A t \in trips : LET o == asked[t.entry]  p == asked[t.exit] IN
       t.entry < t.exit /\ Executed(o) /\ Executed(p) /\ ScopeOf(o) = ScopeOf(p) /\ Matches(o, p)
  /\ \A t, u \in trips : t # u => {t.entry, t.exit} \cap {u.entry, u.exit} = {}

Paid(o) == Signed(o) * o.price

\* The position a scope keeps of its own is the sum of what was sent in it, and
\* when all prices were known, its average, its realised gain and the gains of
\* its closed trades account for the money of every order, through scaling in,
\* partial closes, reversals and new days; but for what averages are rounded here.
ScopeAddsUp ==
  \A k \in Scope :
    LET Own(o) == Placed(o) /\ ScopeOf(o) = k
        s == scope[k]
    IN  /\ s.qty = Tally(Own, Signed)
        /\ k \notin rounded /\ (\A i \in DOMAIN asked : Own(asked[i]) => asked[i].price # 0)
             => won[k] + s.gain + Tally(Own, Paid) = s.qty * s.avg

\* The two records that the limits are judged on account for the orders.
RecordsAddUp == TripsPairOff /\ ScopeAddsUp

Peak == Max({snaps[d] : d \in DOMAIN snaps})
WithinCaps(lots, product) ==
  LET ps == {ProfileIn(risk, src, product) : src \in Source} IN
  NoProfile \notin ps =>
    /\ (\A p \in ps : p.slots > 0) =>
         \E p \in ps : Cardinality(HeldIn(lots, product)) <= p.slots
    /\ (\A p \in ps : p.exposure > 0) =>
         \E p \in ps : 100 * Exposure(lots, product) <= Peak * p.exposure

\* While every order was judged on a table in step with the broker, and on some
\* equity, the broker holds at most as many positions in a product as the settings
\* allow, and at cost at most the allowed share of the highest equity, whatever the
\* sizing made of the orders and however profits and losses came in between.  The
\* sources have caps of their own, and the largest is the one that can hold.
PositionsWithinCap == strays = {} => \A product \in Product : WithinCaps(book, product)

EntrySent(i) == LET o == asked'[i]
                IN  Placed(o) /\ (i > Len(asked) \/ ~Placed(asked[i])) /\ ~IsExit(o)
AllRecorded == \A i \in DOMAIN asked : Placed(asked[i]) => i \in Used
WithinDays == \A t \in trips : DayOf(asked[t.entry].made) = DayOf(asked[t.exit].made)
HeedsLosses(o) ==
  LET p == Profile(o)
      Today(x) == Placed(x) /\ DayOf(x.made) = DayOf(moment)
  IN  p # NoProfile /\ AllRecorded /\ ~(risk.manual_override /\ o.src = "MANUAL")
      => /\ p.daily > 0 /\ WithinDays => 100 * Tally(Today, Paid) < p.daily * Baseline
         /\ p.hard \in 1..100 => 100 * Tally(Placed, Paid) < p.hard * Baseline

\* When all orders are filled and their round trips recorded, no entry is sent
\* that the money really lost forbids: the day's loss limit, and the hard stop, a
\* percentage of the peak that is no more than the whole of it.
EntriesStopAfterLosses ==
  [][\A i \in DOMAIN asked' : EntrySent(i) => HeedsLosses(asked'[i])]_riskVars
=============================================================================
