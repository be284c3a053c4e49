--------------------------- MODULE DeploymentRunner ---------------------------
(* The evaluation of one deployment (services/deployment_runner.py) and the   *)
(* reconciliation of its books with its orders                                *)
(* (services/deployment_reconciler.py).  A group gets one job per symbol and  *)
(* bar, and each of them evaluates all symbols.                               *)
(*                                                                            *)
(* Signals and prices are inputs; percentages are taken of whole numbers.  A  *)
(* value that state_json does not hold is 0.                                  *)
EXTENDS Integers, Sequences, FiniteSets, Functions

CONSTANTS
  Symbols,     \* the symbols of the deployment, in their order
  Policies,    \* its configurations to look at, a set of PolicyType
  Prices, Capital,
  Markets,     \* what a bar can bring, a set of functions from symbols to Quote
  MaxBars, MaxEvals,   \* bounds: bars, evaluations of one
  MaxDrops             \* bound: crashes, reconciliations and flatten windows

PolicyType == [live : BOOLEAN, short : BOOLEAN, daily : BOOLEAN, max_open : Nat,
               hold : Nat, cooldown : Nat, sl : Nat, tp : Nat, trail : Nat,
               dd_global : Nat, dd_trade : Nat, size : 1..100]

ASSUME PolicyAssumption == Policies \subseteq PolicyType
ASSUME PriceAssumption == /\ Prices \subseteq Nat \ {0} /\ Capital \in Nat
                          /\ MaxBars \in Nat \ {0} /\ MaxEvals \in Nat /\ MaxDrops \in Nat

VARIABLES
  policy,   \* the deployment's configuration
  state,    \* state_json
  active,   \* the state row is RUNNING, not PAUSED
  fills,    \* the orders of the deployment, by client_order_id
  stops,    \* the disaster stops: their rows by bar, and the one of each position
  bar,      \* the bar whose jobs are being evaluated
  market,   \* its prices and signals
  audit,    \* the reconciler: whether it has read, and what
  met,      \* history: a client_order_id was met twice
  stale,    \* history: the reconciler has overwritten an evaluation, or a short position
  ended,    \* history: the drawdown guard has ended trading
  exits,    \* history: the evaluation of the last exit, per symbol
  evals, drops

runVars == <<policy, state, active, fills, stops, bar, market, audit, met, stale, ended, exits, evals, drops>>

Symbol == Range(Symbols)
ASSUME SymbolAssumption == Symbols \in Seq(Symbol)

JobKind == {"BAR_CLOSED", "DAILY_PROXY_CLOSED", "WINDOW"}
NoPosition == [qty |-> 0, entry |-> 0, peak |-> 0, trough |-> 0, held |-> 0, top |-> 0]
NewState == [cash |-> Capital, pos |-> [s \in Symbol |-> NoPosition],
             cool |-> [s \in Symbol |-> 0], disabled |-> FALSE, peak |-> Capital]
NoStops == [row |-> [s \in Symbol |-> [b \in 1..MaxBars |-> "none"]], at |-> [s \in Symbol |-> 0]]

RunInit ==
  /\ policy \in Policies
  /\ state = NewState /\ active = TRUE
  /\ fills = {} /\ stops = NoStops /\ bar = 1
  /\ market \in Markets
  /\ audit = [busy |-> FALSE, state |-> NewState]
  /\ met = FALSE /\ stale = FALSE /\ ended = FALSE
  /\ exits = [s \in Symbol |-> 0]
  /\ evals = 0 /\ drops = 0

-----------------------------------------------------------------------------
(* The market at a bar: per symbol the close, the price of a fill after it,    *)
(* and the two signals.  A job misses the symbols it finds no candles of.     *)

Quote == [close : Prices, fill : Prices, entry : BOOLEAN, exit : BOOLEAN]
ASSUME MarketAssumption == Markets \subseteq [Symbol -> Quote]
NoQuote == [close |-> 0, fill |-> 0, entry |-> FALSE, exit |-> FALSE]
\* The price after the bar is asked for on bar jobs only.
View(kind, missing) ==
  [s \in Symbol |-> IF s \in missing THEN NoQuote
                    ELSE [market[s] EXCEPT !.fill = IF kind = "BAR_CLOSED" THEN @
                                                    ELSE market[s].close]]
Quoted(view, s) == view[s].close > 0

-----------------------------------------------------------------------------
(* The evaluation.  A desk is a state with the orders created so far.         *)

Held(d) == {s \in Symbol : d.state.pos[s].qty > 0}
Worth(d, s, price) == (IF policy.short THEN -1 ELSE 1) * d.state.pos[s].qty * price
Equity(d, view) ==
  d.state.cash + SumFunctionOnSet([s \in Symbol |-> Worth(d, s, view[s].close)], Held(d))
OrZero(x, default) == IF x = 0 THEN default ELSE x
Larger(a, b) == IF a > b THEN a ELSE b
Smaller(a, b) == IF a < b THEN a ELSE b

\* An order's client_order_id: kind, bar, symbol, side and how many orders the
\* job has created before.
Deal(d, s, entry, qty, price) ==
  [s |-> s, entry |-> entry, qty |-> qty, price |-> price, idx |-> Len(d.deals)]
\* A deal's effect on the cash: an entry buys, unless the deployment is short.
Flow(deal) == (IF deal.entry = policy.short THEN 1 ELSE -1) * deal.qty * deal.price

\* Plausible bug: the proceeds are booked at the entry price.
ClosedAtEntry(d, s, price) ==
  LET deal == Deal(d, s, FALSE, d.state.pos[s].qty, price)
  IN  IF s \notin Held(d) THEN d
      ELSE [deals |-> Append(d.deals, deal),
            state |-> [d.state EXCEPT
                         !.cash = @ + Flow([deal EXCEPT !.price = d.state.pos[s].entry]),
                         !.pos[s].qty = 0, !.cool[s] = OrZero(policy.cooldown, @)]]
Closed(d, s, price) ==
  LET deal == Deal(d, s, FALSE, d.state.pos[s].qty, price)
  IN  IF s \notin Held(d) THEN d
      ELSE [deals |-> Append(d.deals, deal),
            state |-> [d.state EXCEPT !.cash = @ + Flow(deal), !.pos[s].qty = 0,
                                      !.cool[s] = OrZero(policy.cooldown, @)]]

\* The position's record is updated in place: `top' of an earlier one stays.
Opened(d, s, qty, price) ==
  LET deal == Deal(d, s, TRUE, qty, price)
  IN  [deals |-> Append(d.deals, deal),
       state |-> [d.state EXCEPT !.cash = @ + Flow(deal),
                    !.pos[s] = [qty |-> qty, entry |-> price, peak |-> price,
                                trough |-> price, held |-> 0, top |-> @.top]]]

\* A loop over a sequence, its body applied to what is there so far and an element.
Loop(body(_, _), d, seq) ==
  LET after[n \in 0..Len(seq)] == IF n = 0 THEN d ELSE body(after[n - 1], seq[n])
  IN  after[Len(seq)]
Each(body(_, _), d) == Loop(body, d, Symbols)

\* Plausible bug: flatten windows count as bars.
CountedAlways(d, kind, view) ==
  LET eq == Equity(d, view)
  IN  [d EXCEPT !.state =
         [@ EXCEPT !.peak = Larger(OrZero(d.state.peak, eq), eq),
                   !.pos = [s \in Symbol |->
                     IF s \in Held(d) THEN [d.state.pos[s] EXCEPT !.held = @ + 1]
                     ELSE d.state.pos[s]],
                   !.cool = [s \in Symbol |-> Larger(0, d.state.cool[s] - 1)]]]
\* The peak of the equity, and the counters of bars.
Counted(d, kind, view) ==
  LET eq == Equity(d, view)
      counts == kind # "WINDOW"
  IN  [d EXCEPT !.state =
         [@ EXCEPT !.peak = Larger(OrZero(d.state.peak, eq), eq),
                   !.pos = [s \in Symbol |->
                     IF counts /\ s \in Held(d) THEN [d.state.pos[s] EXCEPT !.held = @ + 1]
                     ELSE d.state.pos[s]],
                   !.cool = [s \in Symbol |->
                     IF counts THEN Larger(0, d.state.cool[s] - 1) ELSE d.state.cool[s]]]]

\* The kind of job that acts on signals.
Signals(kind) == kind = IF policy.daily THEN "DAILY_PROXY_CLOSED" ELSE "BAR_CLOSED"

\* MIS_FLATTEN and FORCE_FLATTEN, at the entry price where there is no other.
Flattened(d, view) ==
  Each(LAMBDA e, s : Closed(e, s, OrZero(view[s].close, e.state.pos[s].entry)), d)

\* _risk_exit_reason, with the position's peak and trough brought up to date.
Stopped(p, close) ==
  IF policy.short
  THEN \/ policy.sl > 0 /\ close * 100 >= p.entry * (100 + policy.sl)
       \/ policy.tp > 0 /\ close * 100 <= p.entry * (100 - policy.tp)
       \/ policy.trail > 0 /\ close * 100 >= p.trough * (100 + policy.trail)
  ELSE \/ policy.sl > 0 /\ close * 100 <= p.entry * (100 - policy.sl)
       \/ policy.tp > 0 /\ close * 100 >= p.entry * (100 + policy.tp)
       \/ policy.trail > 0 /\ close * 100 <= p.peak * (100 - policy.trail)
RiskExit(e, s, view) ==
  LET c == view[s].close
      p == [e.state.pos[s] EXCEPT !.peak = Larger(OrZero(@, c), c),
                                  !.trough = Smaller(OrZero(@, c), c)]
      seen == [e EXCEPT !.state.pos[s] = p]
  IN  IF s \notin Held(e) \/ ~Quoted(view, s) THEN e
      ELSE IF p.entry > 0 /\ Stopped(p, c) THEN Closed(seen, s, view[s].fill)
      ELSE seen
RiskExits(d, view) == Each(LAMBDA e, s : RiskExit(e, s, view), d)
Exited(d, kind, view) == IF kind = "WINDOW" THEN Flattened(d, view) ELSE RiskExits(d, view)

SignalExit(e, s, kind, view) ==
  IF Signals(kind) /\ view[s].exit /\ e.state.pos[s].held >= policy.hold
  THEN Closed(e, s, view[s].fill) ELSE e
SignalExits(d, kind, view) == Each(LAMBDA e, s : SignalExit(e, s, kind, view), d)

\* The equity's drawdown from its peak ends trading; from a position's, the position.
Drawdown(eq, peak, pct) == pct > 0 /\ peak > 0 /\ eq * 100 <= peak * (100 - pct)
AllClosed(d, view) ==
  Each(LAMBDA e, s : IF Quoted(view, s) THEN Closed(e, s, view[s].close) ELSE e, d)
GuardedGlobally(d, view) ==
  LET eq == Equity(d, view)
      peak == Larger(OrZero(d.state.peak, eq), eq)
      risen == [d EXCEPT !.state.peak = peak]
  IN  IF ~Drawdown(eq, peak, policy.dd_global) THEN risen
      ELSE AllClosed([risen EXCEPT !.state.disabled = TRUE], view)
TradeGuard(e, s, eq, view) ==
  LET top == Larger(OrZero(e.state.pos[s].top, eq), eq)
      seen == [e EXCEPT !.state.pos[s] = [@ EXCEPT !.top = top]]
  IN  IF s \notin Held(e) \/ policy.dd_trade = 0 THEN e
      ELSE IF Drawdown(eq, top, policy.dd_trade) /\ Quoted(view, s)
      THEN Closed(seen, s, view[s].close) ELSE seen
GuardedByTrade(d, eq, view) == Each(LAMBDA e, s : TradeGuard(e, s, eq, view), d)
Guarded(d, view) == GuardedByTrade(GuardedGlobally(d, view), Equity(d, view), view)

\* Entries: the first symbols with a signal take the free slots, also those that
\* are then turned away.
Enter(e, s, view) ==
  LET qty == (OrZero(Equity(e, view), e.state.cash) * policy.size) \div (100 * view[s].fill)
  IN  IF e.state.cool[s] > 0 \/ s \in Held(e) \/ qty <= 0 THEN e
      ELSE Opened(e, s, qty, view[s].fill)
Admitted(r, s, view) ==
  IF ~view[s].entry \/ r.slots = 0 THEN r
  ELSE [slots |-> r.slots - 1, desk |-> Enter(r.desk, s, view)]
AllAdmitted(r, view) == Each(LAMBDA e, s : Admitted(e, s, view), r)
Entries(d, kind, view) ==
  LET slots == Larger(0, policy.max_open - Cardinality(Held(d)))
  IN  IF d.state.disabled \/ ~Signals(kind) THEN d
      ELSE AllAdmitted([slots |-> slots, desk |-> d], view).desk

\* process_deployment_job
Evaluated(kind, view) ==
  LET counted == Counted([state |-> state, deals |-> <<>>], kind, view)
      left    == SignalExits(Exited(counted, kind, view), kind, view)
  IN  Entries(Guarded(left, view), kind, view)

-----------------------------------------------------------------------------
(* Jobs *)

Kinds == IF policy.daily THEN JobKind ELSE {"BAR_CLOSED", "WINDOW"}
\* The order rows of the disaster stops after some deals.  A stop is keyed by
\* the bar of its entry, and a key that exists already keeps its row; an exit
\* cancels the stop that the position refers to.
WithStop(st, s) ==
  IF policy.sl = 0 THEN [st EXCEPT !.at[s] = 0]
  ELSE [row |-> [st.row EXCEPT ![s][bar] = IF @ = "none" THEN "waiting" ELSE @],
        at |-> [st.at EXCEPT ![s] = bar]]
WithoutStop(st, s) ==
  IF st.at[s] = 0 THEN st
  ELSE [row |-> [st.row EXCEPT ![s][st.at[s]] = "cancelled"], at |-> [st.at EXCEPT ![s] = 0]]
\* Plausible bug: the position forgets its stop without cancelling it.
StopsForgotten(deals) ==
  Loop(LAMBDA st, deal : IF deal.entry THEN WithStop(st, deal.s)
                         ELSE [st EXCEPT !.at[deal.s] = 0], stops, deals)
StopsAfter(deals) ==
  Loop(LAMBDA st, deal : IF deal.entry THEN WithStop(st, deal.s) ELSE WithoutStop(st, deal.s),
       stops, deals)

Key(kind, deal) == <<kind, bar, deal.s, deal.entry, deal.idx>>
Keyed(kind, deals) == {[key |-> Key(kind, deals[i]), deal |-> deals[i]] : i \in DOMAIN deals}
Known(kind, deals) == {f \in Keyed(kind, deals) : \E g \in fills : g.key = f.key}

\* A paused deployment is flattened, but not evaluated.
MayEvaluate(kind) ==
  /\ kind \in Kinds
  /\ IF kind = "WINDOW" THEN drops < MaxDrops ELSE active /\ evals < MaxEvals

Evaluate(kind) ==
  /\ MayEvaluate(kind)
  /\ IF kind = "WINDOW" THEN drops' = drops + 1 /\ evals' = evals
     ELSE evals' = evals + 1 /\ drops' = drops
  /\ \E missing \in SUBSET Symbol :
       LET d == Evaluated(kind, View(kind, missing))
           new == Keyed(kind, d.deals) \ Known(kind, d.deals)
       IN  /\ state' = d.state
           /\ fills' = fills \cup new
           /\ stops' = StopsAfter(d.deals)
           /\ met' = (met \/ Known(kind, d.deals) # {})
           /\ ended' = (ended \/ d.state.disabled)
           /\ exits' = [s \in Symbol |-> IF \E f \in new : f.deal.s = s /\ ~f.deal.entry
                                         THEN evals' ELSE exits[s]]
  /\ UNCHANGED <<policy, active, bar, market, audit, stale>>

\* An exception or a crash takes the state back, and the orders too, except
\* those that a candle fetch of a LIVE evaluation has committed.
EvaluationFails(kind) ==
  /\ MayEvaluate(kind) /\ policy.live
  /\ drops < MaxDrops
  /\ \E missing \in SUBSET Symbol :
       LET deals == Evaluated(kind, View(kind, missing)).deals
       IN  \E n \in 1..Len(deals) - 1 :
             LET kept == SubSeq(deals, 1, n)
             IN  /\ stops' = [stops EXCEPT !.row = StopsAfter(kept).row]
                 /\ fills' = fills \cup (Keyed(kind, kept) \ Known(kind, kept))
                 /\ met' = (met \/ Known(kind, kept) # {})
  /\ drops' = drops + 1
  /\ UNCHANGED <<policy, state, active, bar, market, audit, stale, ended, exits, evals>>

NextBarComes ==
  /\ bar < MaxBars
  /\ bar' = bar + 1 /\ market' \in Markets
  /\ UNCHANGED <<policy, state, active, fills, stops, audit, met, stale, ended, exits, evals, drops>>

-----------------------------------------------------------------------------
(* The reconciler, for paper deployments *)

Net(T, s) == SumFunction([f \in {f \in T : f.deal.s = s} |->
                            (IF f.deal.entry = policy.short THEN -1 ELSE 1) * f.deal.qty])
Traded == {s \in Symbol : \E f \in fills : f.deal.s = s}
Mismatch(st) == \E s \in Traded : Net(fills, s) # st.pos[s].qty
\* Only the quantities survive, and only the long ones.
Rebuilt(st) ==
  [st EXCEPT !.pos = [s \in Symbol |-> [NoPosition EXCEPT !.qty = Larger(0, Net(fills, s))]]]

AuditRead ==
  /\ ~audit.busy /\ ~policy.live /\ drops < MaxDrops
  /\ audit' = [busy |-> TRUE, state |-> state]
  /\ drops' = drops + 1
  /\ UNCHANGED <<policy, state, active, fills, stops, bar, market, met, stale, ended, exits, evals>>

\* The orders are read after the state; a mismatch rewrites and pauses.
AuditWrite ==
  /\ audit.busy
  /\ IF Mismatch(audit.state)
     THEN /\ state' = Rebuilt(audit.state) /\ active' = FALSE
          /\ stops' = [stops EXCEPT !.at = NoStops.at]
          /\ stale' = (stale \/ audit.state # state \/ policy.short)
     ELSE UNCHANGED <<state, active, stops, stale>>
  /\ audit' = [busy |-> FALSE, state |-> NewState]
  /\ UNCHANGED <<policy, fills, bar, market, met, ended, exits, evals, drops>>

Resumed ==
  /\ ~active /\ active' = TRUE
  /\ UNCHANGED <<policy, state, fills, stops, bar, market, audit, met, stale, ended, exits, evals, drops>>

RunNext ==
  \/ \E kind \in JobKind : Evaluate(kind) \/ EvaluationFails(kind)
  \/ NextBarComes \/ AuditRead \/ AuditWrite \/ Resumed

RunSpec == RunInit /\ [][RunNext]_runVars

-----------------------------------------------------------------------------
(* Properties *)

Position == [qty : Nat, entry : Nat, peak : Nat, trough : Nat, held : Nat, top : Int]
DeskState == [cash : Int, pos : [Symbol -> Position], cool : [Symbol -> Nat],
              disabled : BOOLEAN, peak : Int]
RunTypeOK ==
  /\ policy \in Policies /\ state \in DeskState /\ active \in BOOLEAN
  /\ \A f \in fills : f.key[2] \in 1..MaxBars /\ f.deal.qty > 0 /\ f.deal.price \in Nat
  /\ stops \in [row : [Symbol -> [1..MaxBars -> {"none", "waiting", "cancelled"}]],
               at : [Symbol -> 0..MaxBars]]
  /\ bar \in 1..MaxBars /\ market \in Markets
  /\ audit \in [busy : BOOLEAN, state : DeskState]
  /\ {met, stale, ended} \subseteq BOOLEAN /\ exits \in [Symbol -> 0..MaxEvals]
  /\ evals \in 0..MaxEvals /\ drops \in 0..MaxDrops

\* A paper deployment's positions and cash are what its orders add up to, and
\* the orders never open more positions than max_open, as long as no order id
\* has been met twice and no reconciliation has lost something.
BooksMatch ==
  ~policy.live /\ ~met /\ ~stale =>
    /\ \A s \in Symbol : Net(fills, s) = (IF policy.short THEN -1 ELSE 1) * state.pos[s].qty
    /\ state.cash = Capital + SumFunction([f \in fills |-> Flow(f.deal)])
    /\ Cardinality({s \in Symbol : Net(fills, s) # 0}) <= policy.max_open

\* Under the same conditions a disaster stop waits only for a position that is
\* held and refers to it, and a position entered once in its bar has one waiting.
\* (An entry repeated in its bar gets the stop that its first exit cancelled.)
Entered(s, b) == {f \in fills : f.deal.s = s /\ f.deal.entry /\ f.key[2] = b}
StopsFollow ==
  ~policy.live /\ ~met /\ ~stale => \A s \in Symbol :
    /\ \A b \in 1..MaxBars : stops.row[s][b] = "waiting" => s \in Held([state |-> state])
                                                          /\ stops.at[s] = b
    /\ policy.sl > 0 /\ s \in Held([state |-> state])
       /\ Cardinality(Entered(s, stops.at[s])) = 1 => stops.row[s][stops.at[s]] = "waiting"

\* After the drawdown guard has ended trading nothing is entered any more, and
\* after an exit nothing until the cooldown's evaluations have passed, unless a
\* reconciliation has lost something.
EntryOf(s) == \E f \in fills' \ fills : f.deal.s = s /\ f.deal.entry
EntriesAreGuarded ==
  [][~stale => \A s \in Symbol : EntryOf(s) =>
       /\ ~ended
       /\ exits[s] > 0 => evals + 1 >= exits[s] + policy.cooldown]_runVars
=============================================================================
