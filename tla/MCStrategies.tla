----------------------------- MODULE MCStrategies -----------------------------
(* The strategies and what they rest on, each on a small instance: the bar     *)
(* pump and the runner of deployments, rebalancing, the risk engine, the        *)
(* backtests and the candles.  A behaviour is one of exactly one of them,      *)
(* `part', and the variables of the others keep one initial value.             *)
EXTENDS DeploymentScheduler, DeploymentRunner, Rebalance, RiskEngine, Backtests, CandleStore

VARIABLE part

strategyVars == <<part, schedVars, runVars, rebVars, riskVars, testVars, candleVars>>

\* What is not part of the behaviour has one initial state.
StrategiesInit ==
  /\ part \in {"scheduler", "runner", "rebalance", "risk", "backtest", "candles"}
  /\ part # "scheduler" => plan = CHOOSE p \in Plans : TRUE
  /\ part # "runner" => /\ policy = CHOOSE p \in Policies : TRUE
                        /\ market = CHOOSE m \in Markets : TRUE
  /\ part # "rebalance" => desk = CHOOSE d \in Desks : TRUE
  /\ part # "risk" => risk = CHOOSE r \in RiskSettings : TRUE
  /\ part # "backtest" => test = CHOOSE t \in Tests : TRUE
  /\ part # "candles" => feed = CHOOSE f \in Feeds : TRUE
  /\ SchedInit /\ RunInit /\ RebInit /\ RiskInit /\ TestInit /\ CandleInit

StrategiesNext ==
  /\ part' = part
  /\ \/ part = "scheduler" /\ SchedNext /\ UNCHANGED <<runVars, rebVars, riskVars, testVars, candleVars>>
     \/ part = "runner" /\ RunNext /\ UNCHANGED <<schedVars, rebVars, riskVars, testVars, candleVars>>
     \/ part = "rebalance" /\ RebNext /\ UNCHANGED <<schedVars, runVars, riskVars, testVars, candleVars>>
     \/ part = "risk" /\ RiskNext /\ UNCHANGED <<schedVars, runVars, rebVars, testVars, candleVars>>
     \/ part = "backtest" /\ TestNext /\ UNCHANGED <<schedVars, runVars, rebVars, riskVars, candleVars>>
     \/ part = "candles" /\ CandleNext /\ UNCHANGED <<schedVars, runVars, rebVars, riskVars, testVars>>

StrategiesSpec == StrategiesInit /\ [][StrategiesNext]_strategyVars

\* The state of every part keeps its type.
StrategiesTypeOK ==
  /\ part = "scheduler" => SchedTypeOK
  /\ part = "runner" => RunTypeOK
  /\ part = "rebalance" => RebTypeOK
  /\ part = "risk" => RiskTypeOK
  /\ part = "backtest" => TestTypeOK
  /\ part = "candles" => CandleTypeOK

-----------------------------------------------------------------------------
(* The instances *)

\* A deployment on intraday bars that enters on start, and one on daily bars.
MCPlans == {[daily |-> d, mis |-> TRUE, enter |-> ~d] : d \in BOOLEAN}

\* Deployments: cooldowns and stops; drawdown guards on daily proxy bars; several
\* slots, LIVE; a short one.
MCBasic == [live |-> FALSE, short |-> FALSE, daily |-> FALSE, max_open |-> 1, hold |-> 0,
            cooldown |-> 0, sl |-> 0, tp |-> 0, trail |-> 0, dd_global |-> 0, dd_trade |-> 0,
            size |-> 50]
MCPolicies ==
  {[MCBasic EXCEPT !.cooldown = 2, !.sl = 50, !.trail = 50, !.hold = 1],
   [MCBasic EXCEPT !.dd_global = 20, !.tp = 100],
   [MCBasic EXCEPT !.max_open = 2, !.dd_trade = 20, !.daily = TRUE],
   [MCBasic EXCEPT !.live = TRUE, !.max_open = 2, !.cooldown = 1],
   [MCBasic EXCEPT !.short = TRUE, !.sl = 50, !.cooldown = 1]}
MCSymbols == <<"x", "y">>
\* The second symbol's entry signal comes with the low price of the first.
MCMarkets == {m \in [Symbol -> Quote] :
                /\ m["x"].fill = m["x"].close
                /\ m["y"].fill = 1 /\ m["y"].close = 2 /\ ~m["y"].exit
                /\ m["y"].entry = (m["x"].close = 1)}

MCRebPolicies == {[budget |-> b, least |-> l, most |-> m, band |-> d, rel |-> 40 * d] :
                    b \in {3, 20}, l \in {0, 3}, m \in {1, 2}, d \in {0, 1}}
MCDesks == {[price |-> [s \in Share |-> IF s = "x" THEN 2 ELSE f], held |-> h,
             own |-> [s \in Share |-> IF s = "x" THEN 4 ELSE h[s]], weight |-> w, policy |-> p] :
              f \in {0, 3}, h \in [Share -> {0, 3}], w \in [Share -> {-1, 1, 3}], p \in MCRebPolicies}

\* Orders: by a strategy or by hand, in one product.
MCDeal(src, sym, side, qty, price, product) ==
  [src |-> src, sym |-> sym, side |-> side, qty |-> qty, price |-> price, product |-> product,
   type |-> IF price = 0 THEN "MARKET" ELSE "LIMIT", exit |-> FALSE,
   status |-> "WAITING", made |-> 0, sent |-> 0]
MCAuto(sym, side, qty, price) == MCDeal("SIGMATRADER", sym, side, qty, price, "MIS")
MCHand(sym, side, qty, price) == MCDeal("MANUAL", sym, side, qty, price, "CNC")
MCProfile ==
  [allow |-> TRUE, types |-> {}, capital |-> 240, slots |-> 0, exposure |-> 0, caution |-> 0,
   defense |-> 0, hard |-> 0, daily |-> 0, hard_daily |-> 0, losses |-> 0, cutoffs |-> {},
   per_day |-> 0, per_symbol |-> 0, apart |-> 0, cooldown |-> 0, fixed |-> TRUE,
   mandatory |-> TRUE, fallback |-> 5, near |-> 1, far |-> 10, mult |-> 2, max_qty |-> 0,
   max_value |-> 0, risk |-> 0, hard_risk |-> 0, short |-> TRUE]
MCRisk(profile, override, orders, bars, menu) ==
  [profile |-> [p \in Product |-> profile], override |-> [p \in Product |-> override], menu |-> menu,
   manual_override |-> FALSE, category |-> [s \in Instrument |-> IF s = "x" THEN "LC" ELSE "SC"],
   atr |-> [s \in Instrument |-> IF s = "x" THEN 3 ELSE 0], mark |-> [s \in Instrument |-> 60],
   orders |-> orders, bars |-> bars, lapses |-> FALSE]
MCLong == {MCAuto("x", "BUY", 2, 120), MCAuto("x", "SELL", 2, 60)}
MCShort == {MCAuto("y", "SELL", 4, 60), MCAuto("y", "BUY", 4, 90)}
MCBoth == {MCAuto("x", "BUY", 2, 120), MCAuto("y", "BUY", 2, 120)}
MCRiskSettings ==
  {\* limits on losses and drawdown
   MCRisk([MCProfile EXCEPT !.daily = 10], <<>>, 3, 2, MCLong),
   MCRisk([MCProfile EXCEPT !.daily = 20, !.hard_daily = 12], <<>>, 3, 0, MCLong),
   MCRisk([MCProfile EXCEPT !.hard = 12], <<>>, 3, 1, MCShort),
   MCRisk([MCProfile EXCEPT !.caution = 5], <<>>, 3, 0, MCShort),
   MCRisk([MCProfile EXCEPT !.defense = 10], <<>>, 3, 0, MCLong \cup MCBoth),
   MCRisk([MCProfile EXCEPT !.losses = 1], [types |-> {"LIMIT"}], 3, 0,
          MCLong \cup {[MCAuto("x", "BUY", 2, 120) EXCEPT !.type = "SL"]}),
   \* limits on the pace
   MCRisk([MCProfile EXCEPT !.cooldown = 2], <<>>, 3, 2, MCLong),
   MCRisk([MCProfile EXCEPT !.cutoffs = {1}, !.per_day = 2], <<>>, 3, 2, MCBoth),
   MCRisk([MCProfile EXCEPT !.apart = 1], [per_symbol |-> 1], 3, 2, MCBoth),
   \* limits on positions and exposure, and caps on the size
   MCRisk([MCProfile EXCEPT !.slots = 1, !.capital = 480], [max_qty |-> 3], 3, 0, MCLong \cup MCBoth),
   MCRisk([MCProfile EXCEPT !.exposure = 35, !.hard_risk = 2], [max_value |-> 200], 3, 0,
          MCLong \cup MCBoth),
   [MCRisk([MCProfile EXCEPT !.risk = 1, !.fixed = FALSE, !.exposure = 45],
          [short |-> FALSE, mandatory |-> FALSE], 3, 0, MCBoth \cup MCLong) EXCEPT !.lapses = TRUE],
   MCRisk([MCProfile EXCEPT !.risk = 1, !.fallback = 0, !.near = 0], <<>>, 1, 0, MCBoth),
   \* orders by hand
   MCRisk(MCProfile, <<>>, 3, 0, {MCHand("x", "BUY", 1, 60), MCHand("x", "BUY", 2, 120),
                                  MCHand("x", "SELL", 2, 180), MCHand("x", "SELL", 1, 60)}),
   [MCRisk([MCProfile EXCEPT !.slots = 1], [allow |-> FALSE], 2, 0,
           {MCHand("x", "BUY", 1, 60), MCHand("y", "BUY", 1, 0), MCAuto("y", "BUY", 1, 120)})
      EXCEPT !.manual_override = TRUE],
   [MCRisk(MCProfile, <<>>, 3, 0,
           {MCHand("x", "BUY", 1, 60), MCHand("x", "SELL", 2, 0), MCAuto("y", "BUY", 1, 120)})
      EXCEPT !.profile = [p \in Product |-> IF p = "CNC" THEN MCProfile ELSE NoProfile]]}

\* Two symbols; the second trades only in some backtests, and with gaps.
MCTickers == <<"x", "y">>
MCBar(open, close, entry, exit, up, score) ==
  [open |-> open, close |-> close, entry |-> entry, exit |-> exit, up |-> up, pull |-> up, score |-> score]
\* Entry at 10 or 20, rising and falling closes, an exit signal.
MCCandles == {MCBar(10, 10, TRUE, FALSE, TRUE, 0), MCBar(20, 20, FALSE, FALSE, TRUE, 0),
              MCBar(20, 10, FALSE, FALSE, FALSE, 0), MCBar(10, 20, FALSE, TRUE, TRUE, 0)}
\* The same with a ranking score.
MCScored == {MCBar(10, 20, TRUE, FALSE, TRUE, 2), MCBar(20, 10, FALSE, FALSE, TRUE, 1),
             MCBar(20, 10, FALSE, TRUE, TRUE, 3)}
MCOne == [s \in {"x", "y"} |-> IF s = "x" THEN 1..LastBar ELSE {}]
MCTwo == [s \in {"x", "y"} |-> IF s = "x" THEN {3, 4, 5, 6} ELSE (1..LastBar) \ {4}]
MCTurns == [s \in {"x", "y"} |-> IF s = "x" THEN {4, 5, 6} ELSE 1..LastBar]
MCTest == [bars |-> MCOne, candles |-> MCCandles, mis |-> FALSE, short |-> FALSE, max_open |-> 1,
  sizing |-> "PCT", size |-> 100, cap |-> 0, rank |-> FALSE, hold |-> 0, cooldown |-> 0, sl |-> 0, tp |-> 0,
  trail |-> 0, dd_global |-> 0, dd_trade |-> 0, slip |-> 0, rate |-> 0, reenter |-> FALSE, filter |-> TRUE,
  re_cool |-> 0, re_max |-> 1, gate |-> FALSE, buffer |-> 0, replace |-> FALSE]
MCPair == [MCTest EXCEPT !.bars = MCTwo, !.candles = MCScored, !.rank = TRUE]
MCTests ==
  {\* one symbol, both engines
   [MCTest EXCEPT !.sl = 40, !.tp = 90, !.slip = 10, !.rate = 10, !.size = 80],
   [MCTest EXCEPT !.trail = 30, !.reenter = TRUE, !.slip = 10],
   [MCTest EXCEPT !.trail = 30, !.dd_global = 30, !.size = 50],
   [MCTest EXCEPT !.dd_trade = 20, !.tp = 90],
   [MCTest EXCEPT !.mis = TRUE, !.short = TRUE, !.sl = 50, !.trail = 40],
   [MCTest EXCEPT !.mis = TRUE, !.trail = 30, !.reenter = TRUE, !.re_cool = 1, !.re_max = 0, !.rate = 10],
   [MCTest EXCEPT !.mis = TRUE, !.short = TRUE, !.tp = 40, !.dd_global = 20],
   \* two symbols with gaps
   [MCPair EXCEPT !.max_open = 2, !.sizing = "SLOT", !.rate = 10, !.hold = 2],
   [MCPair EXCEPT !.bars = MCTurns, !.trail = 30, !.reenter = TRUE, !.gate = TRUE, !.replace = TRUE, !.buffer = 1],
   [MCPair EXCEPT !.mis = TRUE, !.short = TRUE, !.max_open = 2, !.size = 60, !.sl = 50, !.rate = 10, !.cooldown = 1],
   [MCPair EXCEPT !.mis = TRUE, !.sizing = "FIXED", !.size = 90, !.cap = 50, !.dd_global = 10, !.max_open = 2,
                  !.slip = 10],
   [MCPair EXCEPT !.rank = FALSE, !.dd_trade = 10, !.trail = 30, !.reenter = TRUE, !.filter = FALSE, !.re_max = 0]}

\* A day is longer than a bar, or no longer; windows before and across now.
MCFeeds == {[chunk |-> 4, day |-> 2], [chunk |-> 4, day |-> 4]}
MCSpans == {<<0, 6>>, <<7, 11>>}
=============================================================================
