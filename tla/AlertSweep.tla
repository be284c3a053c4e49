------------------------------ MODULE AlertSweep ------------------------------
(* Evaluation of the alerts (services/alerts_v3.py): a loop sweeps over the   *)
(* enabled alerts, records an event per match and queues its order.  What a   *)
(* sweep writes becomes durable when it ends, or earlier, when the execution  *)
(* of an AUTO order or the fetching of candles commits.                       *)
(*                                                                            *)
(* Whether a condition holds is a choice; its bar is the latest bar of the    *)
(* symbol's candles, which only grow, or none for conditions on holdings.     *)
EXTENDS Integers, FiniteSets

CONSTANTS
  Alert,       \* the alerts
  AlertTypes,  \* the ways in which an alert can trigger and act
  Listing,     \* the symbols of an alert's target
  BarSpan,     \* time units of a bar
  Horizon,     \* bound: time
  MaxToggles, MaxLosses   \* bounds: edits by the user, sweeps lost

AlertAttributes == [mode : {"ONCE", "ONCE_PER_BAR", "EVERY_TIME"}, action : {"none", "manual", "auto"},
                    throttle : Nat, cadence : Nat, barred : BOOLEAN]
ASSUME AlertAssumption == AlertTypes \subseteq AlertAttributes
ASSUME TimeAssumption == BarSpan \in Nat \ {0} /\ Horizon \in Nat \ {0} /\ MaxToggles \in Nat /\ MaxLosses \in Nat

VARIABLES
  rule,      \* how each alert triggers and acts
  armed,     \* the enabled alerts
  saved,     \* the durable rows: events, orders, and when each alert was evaluated
  sweep,     \* the loop, with the rows as it sees them
  feed,      \* the latest bar of each symbol's candles
  time,
  toggles, losses

alertVars == <<rule, armed, saved, sweep, feed, time, toggles, losses>>

\* Events and orders: alert, symbol, bar and the start of the sweep.
Match == [alert : Alert, sym : Listing, bar : 0..Horizon + 1, at : 1..Horizon]
NoRows == [events |-> {}, orders |-> {}, checked |-> [a \in Alert |-> 0]]
NoSweep == [at |-> 0, last |-> 0, todo |-> {}, now |-> {}, syms |-> {}, rows |-> NoRows]

AlertInit ==
  /\ rule \in [Alert -> AlertTypes]
  /\ armed = Alert /\ saved = NoRows /\ sweep = NoSweep
  /\ feed = [s \in Listing |-> 1] /\ time = 1
  /\ toggles = 0 /\ losses = 0

-----------------------------------------------------------------------------
(* _should_emit_event *)

EventsOf(rows, a, s) == {e \in rows.events : e.alert = a /\ e.sym = s}
LastEvents(rows, a, s) == {e \in EventsOf(rows, a, s) : \A f \in EventsOf(rows, a, s) : f.at <= e.at}

\* Plausible bug: a sweep looks only at the events of its own bar.
ShouldEmitPerBar(rows, a, s, at, bar) ==
  \A last \in LastEvents(rows, a, s) :
    rule[a].mode = "EVERY_TIME" \/ last.bar # bar

\* The last event of the alert for the symbol, if any, is out of the throttle,
\* and the mode allows another one.
ShouldEmit(rows, a, s, at, bar) ==
  \A last \in LastEvents(rows, a, s) :
    /\ at - last.at >= rule[a].throttle
    /\ \/ rule[a].mode = "EVERY_TIME"
       \/ rule[a].mode = "ONCE_PER_BAR" /\ bar # 0 /\ last.bar # bar

-----------------------------------------------------------------------------
(* The sweep: evaluate_alerts_v3_once                                         *)

SweepOnly == UNCHANGED <<rule, armed, feed, time, toggles, losses>>

\* The alerts are read once; those evaluated less than a cadence ago wait.  The
\* next sweep starts seconds after the last one.
SweepStarts ==
  /\ sweep.at = 0 /\ time > sweep.last
  /\ LET due == {a \in armed : saved.checked[a] = 0 \/ time - saved.checked[a] >= rule[a].cadence}
     IN  /\ due # {}
         /\ sweep' = [NoSweep EXCEPT !.at = time, !.todo = due, !.rows = saved]
  /\ SweepOnly /\ UNCHANGED saved

\* The next alert; one out of market hours, or malformed, is passed over.
SweepTakes(a) ==
  /\ sweep.now = {} /\ a \in sweep.todo
  /\ \/ sweep' = [sweep EXCEPT !.todo = @ \ {a}, !.now = {a}, !.syms = Listing]
     \/ sweep' = [sweep EXCEPT !.todo = @ \ {a}]
  /\ SweepOnly /\ UNCHANGED saved

Fired(a, s) == [alert |-> a, sym |-> s, at |-> sweep.at,
                bar |-> IF rule[a].barred THEN feed[s] ELSE 0]

\* Plausible bug: an event is added only once its order has been executed.
SweepSymbolLate(a, s) ==
  /\ a \in sweep.now /\ s \in sweep.syms
  /\ LET rest == [sweep EXCEPT !.syms = @ \ {s}]
         told == [rest EXCEPT !.rows.events = @ \cup {Fired(a, s)}]
         sold == [told EXCEPT !.rows.orders = @ \cup {Fired(a, s)}]
         sent == [sweep EXCEPT !.rows.orders = @ \cup {Fired(a, s)}]
     IN  \/ sweep' = rest /\ saved' \in {saved, sweep.rows}
         \/ /\ ShouldEmit(sweep.rows, a, s, sweep.at, Fired(a, s).bar)
            /\ \/ sweep' = told /\ saved' = saved
               \/ /\ rule[a].action = "auto"
                  /\ sweep' = sold /\ saved' = sent.rows
  /\ SweepOnly

\* A symbol of the alert: no match, or one that is not to be emitted; an event
\* whose order cannot be created; an event with its order.  Candles are fetched
\* for the condition, and for the size of the order once the event is flushed;
\* the execution of an AUTO order commits everything.
SweepSymbol(a, s) ==
  /\ a \in sweep.now /\ s \in sweep.syms
  /\ LET rest == [sweep EXCEPT !.syms = @ \ {s}]
         told == [rest EXCEPT !.rows.events = @ \cup {Fired(a, s)}]
         sold == [told EXCEPT !.rows.orders = @ \cup {Fired(a, s)}]
         acts == rule[a].action
     IN  \/ sweep' = rest /\ saved' \in {saved, sweep.rows}
         \/ /\ ShouldEmit(sweep.rows, a, s, sweep.at, Fired(a, s).bar)
            /\ \/ sweep' = told /\ saved' \in {saved, sweep.rows}
               \/ acts # "none" /\ sweep' = told /\ saved' = told.rows
               \/ acts # "none" /\ sweep' = sold /\ saved' \in {saved, sweep.rows, told.rows}
               \/ acts = "auto" /\ sweep' = sold /\ saved' = sold.rows
  /\ SweepOnly

SweepDone(a) ==
  /\ a \in sweep.now /\ sweep.syms = {}
  /\ sweep' = [sweep EXCEPT !.now = {}, !.rows.checked[a] = sweep.at]
  /\ SweepOnly /\ UNCHANGED saved

\* An exception: the alert's other symbols are left out, its events stay.
SweepSkips(a) ==
  /\ a \in sweep.now /\ sweep.syms # {}
  /\ sweep' = [sweep EXCEPT !.now = {}, !.syms = {}]
  /\ SweepOnly /\ UNCHANGED saved

SweepCommits ==
  /\ sweep.at # 0 /\ sweep.todo = {} /\ sweep.now = {}
  /\ saved' = sweep.rows /\ sweep' = [NoSweep EXCEPT !.last = sweep.at]
  /\ SweepOnly

\* A crash, or a row that was deleted meanwhile: the last commit fails.
SweepLost ==
  /\ sweep.at # 0 /\ losses < MaxLosses /\ losses' = losses + 1
  /\ sweep' = [NoSweep EXCEPT !.last = sweep.at]
  /\ UNCHANGED <<rule, armed, saved, feed, time, toggles>>

-----------------------------------------------------------------------------

Toggle(a) ==
  /\ toggles < MaxToggles /\ toggles' = toggles + 1
  /\ armed' = IF a \in armed THEN armed \ {a} ELSE armed \cup {a}
  /\ UNCHANGED <<rule, saved, sweep, feed, time, losses>>

TimePasses ==
  /\ time < Horizon /\ time' = time + 1
  /\ UNCHANGED <<rule, armed, saved, sweep, feed, toggles, losses>>

CandlesArrive(s) ==
  /\ feed[s] < 1 + time \div BarSpan /\ feed' = [feed EXCEPT ![s] = 1 + time \div BarSpan]
  /\ UNCHANGED <<rule, armed, saved, sweep, time, toggles, losses>>

AlertNext ==
  \/ \E a \in Alert : \/ SweepTakes(a) \/ SweepDone(a) \/ SweepSkips(a) \/ Toggle(a)
                      \/ \E s \in Listing : SweepSymbol(a, s)
  \/ SweepStarts \/ SweepCommits \/ SweepLost \/ TimePasses
  \/ \E s \in Listing : CandlesArrive(s)

AlertSpec == AlertInit /\ [][AlertNext]_alertVars

-----------------------------------------------------------------------------
(* Properties *)

RowsOK(rows) == /\ rows.events \subseteq Match /\ rows.orders \subseteq Match
                /\ rows.checked \in [Alert -> 0..Horizon]
AlertTypeOK ==
  /\ rule \in [Alert -> AlertTypes] /\ armed \subseteq Alert /\ RowsOK(saved) /\ RowsOK(sweep.rows)
  /\ sweep.todo \cup sweep.now \subseteq Alert /\ Cardinality(sweep.now) <= 1
  /\ feed \in [Listing -> 1..Horizon + 1] /\ time \in 1..Horizon

\* Through lost sweeps and alerts switched off and on, an alert of mode ONCE fires
\* once per symbol, one of mode ONCE_PER_BAR once per symbol and bar, and no two
\* events of a symbol are closer than the throttle.
FiresByMode ==
  \A e, f \in saved.events :
    e # f /\ e.alert = f.alert /\ e.sym = f.sym =>
      /\ rule[e.alert].mode # "ONCE"
      /\ rule[e.alert].mode = "ONCE_PER_BAR" => e.bar # f.bar
      /\ f.at >= e.at => f.at - e.at >= rule[e.alert].throttle

\* Every durable order has its durable event, so that a sweep after a crash will
\* not queue or send it again.
OrdersAreTold == saved.orders \subseteq saved.events

\* What an alert has done follows its mode and is known to the next sweep.
AlertsKeepToMode == FiresByMode /\ OrdersAreTold
=============================================================================
