------------------------------ MODULE StopRules ------------------------------
(* The arithmetic of SigmaTrader-managed exits                                *)
(* (services/managed_risk.py): where the stop of a position stands after a    *)
(* quote, whether it is hit, and whether the take-profit is.                  *)
(*                                                                            *)
(* Prices and distances are integers.  The code treats a missing distance and *)
(* one that is not positive alike, so 0 is "no distance"; a trail price that  *)
(* was never set is NoPrice.                                                  *)
EXTENDS Integers

CONSTANT NoPrice

ASSUME NoPriceAssumption == NoPrice \notin Int

Side == {"BUY", "SELL"}
Opposite(side) == IF side = "BUY" THEN "SELL" ELSE "BUY"

\* Towards profit on the given side.
Gain(side, distance) == IF side = "BUY" THEN distance ELSE -distance

\* The more favourable of two prices: max for a long position, min for a short.
Favour(side, a, b) == IF side = "BUY" THEN (IF a >= b THEN a ELSE b)
                                      ELSE (IF a <= b THEN a ELSE b)

AtLeast(side, price, level) == IF side = "BUY" THEN price >= level
                                               ELSE price <= level

InitialStop(side, entry, plan) == entry - Gain(side, plan.stop)

TakeProfitHit(side, entry, plan, ltp) ==
  plan.tp > 0 /\ AtLeast(side, ltp, entry + Gain(side, plan.tp))

\* Trailing starts at once, or when the best price has moved by plan.act; once
\* started it stays on until the plan has no trail.
TrailingActive(side, entry, plan, best, wasActive) ==
  /\ plan.trail > 0
  /\ \/ plan.act <= 0
     \/ wasActive
     \/ AtLeast(side, best, entry + Gain(side, plan.act))

\* The ratchet.  It moves only towards profit and starts no worse than the
\* initial stop.
RatchetTrail(side, entry, plan, best, trail) ==
  LET candidate == best - Gain(side, plan.trail)
      moved == IF trail = NoPrice THEN candidate ELSE Favour(side, trail, candidate)
  IN  Favour(side, moved, InitialStop(side, entry, plan))

\* Mutant: the trail follows the quote.
UpdateFromQuote(side, entry, plan, state, ltp) ==
  LET active == TrailingActive(side, entry, plan, ltp, state.active)
      trail  == IF active THEN RatchetTrail(side, entry, plan, ltp, NoPrice)
                          ELSE state.trail
      stop   == IF active THEN trail ELSE InitialStop(side, entry, plan)
  IN  [best |-> ltp, trail |-> trail, active |-> active, stop |-> stop,
       triggered |-> AtLeast(side, stop, ltp)]

\* Of a state [best, trail, active] after a quote.
UpdateStopState(side, entry, plan, state, ltp) ==
  LET best   == Favour(side, state.best, ltp)
      active == TrailingActive(side, entry, plan, best, state.active)
      trail  == IF active THEN RatchetTrail(side, entry, plan, best, state.trail)
                          ELSE state.trail
      stop   == IF active THEN trail ELSE InitialStop(side, entry, plan)
  IN  [best |-> best, trail |-> trail, active |-> active, stop |-> stop,
       triggered |-> AtLeast(side, stop, ltp)]
=============================================================================
