--------------------------- MODULE AutomationProofs ---------------------------
(* Theorems about what triggers orders - alerts, TradingView signals and the  *)
(* targets of holdings - and about how fills are booked, for every value of   *)
(* the constants: what is booked was traded, once for each time an order      *)
(* turns EXECUTED, and what is EXECUTED is in the books and in the group's    *)
(* quantity.                                                                  *)
EXTENDS MCAutomation, AiExecutionProofs

-----------------------------------------------------------------------------
(* Alerts: the inductive invariant                                            *)

RowsType == [events : SUBSET Match, orders : SUBSET Match, checked : [Alert -> 0..Horizon]]
SweepType == [at : 0..Horizon, last : 0..Horizon, todo : SUBSET Alert, now : SUBSET Alert,
              syms : SUBSET Listing, rows : RowsType]

SweepTyped ==
  /\ sweep \in SweepType
  /\ saved \in RowsType
  /\ sweep.at <= time
  /\ sweep.todo \cup sweep.now # {} => sweep.at # 0
  /\ sweep.now # {} => \E a \in Alert : sweep.now = {a}
  /\ rule \in [Alert -> AlertTypes] /\ armed \subseteq Alert
  /\ feed \in [Listing -> 1..Horizon + 1] /\ time \in 1..Horizon

\* Two events of an alert for a symbol obey its mode.  The bars of events of
\* different sweeps follow their order.
Obeys(e, f) ==
  e.alert = f.alert /\ e.sym = f.sym =>
    /\ e.at < f.at => e.bar <= f.bar
    /\ e # f => /\ rule[e.alert].mode # "ONCE"
                /\ rule[e.alert].mode = "ONCE_PER_BAR" => e.bar # f.bar
                /\ f.at >= e.at => f.at - e.at >= rule[e.alert].throttle

\* An event of time t or before, of a bar that its symbol has reached.
Reached(e, t) == e.at <= t /\ e.bar <= IF rule[e.alert].barred THEN feed[e.sym] ELSE 0

\* Rows with events up to time t.  Whoever has an event has a last one, which is
\* the one that ShouldEmit asks.
RowsFit(rows, t) ==
  /\ rows.orders \subseteq rows.events
  /\ \A e \in rows.events : Reached(e, t) /\ LastEvents(rows, e.alert, e.sym) # {}
  /\ \A e, f \in rows.events : Obeys(e, f)

AlertInv == SweepTyped /\ RowsFit(saved, time) /\ RowsFit(sweep.rows, sweep.at)

LEMMA AlertFields ==
  ASSUME NEW t \in AlertTypes
  PROVE  /\ t.mode \in {"ONCE", "ONCE_PER_BAR", "EVERY_TIME"} /\ t.throttle \in Nat /\ t.barred \in BOOLEAN
         /\ t.cadence \in Nat
BY AlertAssumption DEF AlertAttributes

LEMMA MatchFields ==
  ASSUME NEW e \in Match
  PROVE  /\ e.alert \in Alert /\ e.sym \in Listing /\ e.bar \in Nat /\ e.bar <= Horizon + 1
         /\ e.at \in Nat /\ e.at >= 1 /\ e.at <= Horizon
BY TimeAssumption DEF Match

-----------------------------------------------------------------------------
(* What an event adds to the rows *)

\* An event that ShouldEmit lets through obeys the mode with all events before it.
LEMMA EmitObeys ==
  ASSUME NEW rows \in RowsType, NEW t \in Nat, RowsFit(rows, t), rule \in [Alert -> AlertTypes],
         NEW e \in Match, e.at = t,
         e.bar = IF rule[e.alert].barred THEN feed[e.sym] ELSE 0,
         ShouldEmit(rows, e.alert, e.sym, t, e.bar),
         NEW f \in rows.events, f.alert = e.alert, f.sym = e.sym
  PROVE  /\ rule[e.alert].mode # "ONCE"
         /\ rule[e.alert].mode = "ONCE_PER_BAR" => e.bar # f.bar
         /\ e.at - f.at >= rule[e.alert].throttle
         /\ f.bar <= e.bar
         /\ f.at <= e.at
<1>1. rows.events \subseteq Match
  BY DEF RowsType
<1>2. PICK last \in LastEvents(rows, e.alert, e.sym) : TRUE
  BY DEF RowsFit
<1>3. /\ last \in rows.events /\ last.alert = e.alert /\ last.sym = e.sym
      /\ f.at <= last.at
  BY DEF LastEvents, EventsOf
<1>4. /\ t - last.at >= rule[e.alert].throttle
      /\ \/ rule[e.alert].mode = "EVERY_TIME"
         \/ rule[e.alert].mode = "ONCE_PER_BAR" /\ e.bar # 0 /\ last.bar # e.bar
  BY DEF ShouldEmit
<1>5. f.at <= t /\ f.bar <= e.bar /\ last.bar <= e.bar /\ last.at <= t
  BY <1>3 DEF RowsFit, Reached
<1>6. /\ f.at \in Nat /\ last.at \in Nat /\ f.bar \in Nat /\ last.bar \in Nat /\ e.bar \in Nat
      /\ rule[e.alert].throttle \in Nat
  <2>1. f \in Match /\ last \in Match /\ e.alert \in Alert
    BY <1>1, <1>3, MatchFields
  <2> QED BY <2>1, MatchFields, AlertFields
<1>7. e.at - f.at >= rule[e.alert].throttle
  BY <1>3, <1>4, <1>5, <1>6
<1>8. rule[e.alert].mode = "ONCE_PER_BAR" => e.bar # f.bar
  <2>1. CASE f.at < last.at
    <3>1. f.bar <= last.bar
      BY <1>3, <2>1 DEF RowsFit, Obeys
    <3> QED BY <1>4, <1>5, <1>6, <3>1
  <2>2. CASE f.at = last.at
    <3>1. f \in LastEvents(rows, e.alert, e.sym)
      BY <1>2, <2>2 DEF LastEvents, EventsOf
    <3> QED BY <3>1 DEF ShouldEmit
  <2> QED BY <1>3, <1>6, <2>1, <2>2
<1> QED BY <1>4, <1>5, <1>7, <1>8

\* Rows with such an event fit.
LEMMA EmitFits ==
  ASSUME NEW rows \in RowsType, NEW t \in Nat, RowsFit(rows, t), rule \in [Alert -> AlertTypes],
         NEW e \in Match, e.at = t,
         e.bar = IF rule[e.alert].barred THEN feed[e.sym] ELSE 0,
         ShouldEmit(rows, e.alert, e.sym, t, e.bar),
         NEW new \in RowsType, new.events = rows.events \cup {e},
         new.orders \subseteq rows.orders \cup {e}
  PROVE  RowsFit(new, t)
<1>1. rows.events \subseteq Match /\ new.orders \subseteq new.events
  BY DEF RowsType, RowsFit
<1>2. Reached(e, t)
  BY MatchFields DEF Reached
<1>3. \A f \in rows.events : f.alert = e.alert /\ f.sym = e.sym => f.at <= e.at
  BY EmitObeys
<1>4. ASSUME NEW f \in new.events
      PROVE  Reached(f, t) /\ LastEvents(new, f.alert, f.sym) # {}
  <2>1. CASE f.alert = e.alert /\ f.sym = e.sym
    <3>1. e \in LastEvents(new, f.alert, f.sym)
      BY <1>3, <2>1, MatchFields DEF LastEvents, EventsOf
    <3> QED BY <1>2, <3>1 DEF RowsFit
  <2>2. CASE ~(f.alert = e.alert /\ f.sym = e.sym)
    <3>1. f \in rows.events
      BY <2>2
    <3>2. EventsOf(new, f.alert, f.sym) = EventsOf(rows, f.alert, f.sym)
      BY <2>2 DEF EventsOf
    <3>3. LastEvents(new, f.alert, f.sym) = LastEvents(rows, f.alert, f.sym)
      BY <3>2 DEF LastEvents
    <3> QED BY <3>1, <3>3 DEF RowsFit
  <2> QED BY <2>1, <2>2
<1>5. ASSUME NEW f \in new.events, NEW g \in new.events
      PROVE  Obeys(f, g)
  <2>1. CASE f \in rows.events /\ g \in rows.events
    BY <2>1 DEF RowsFit
  <2>2. CASE f \in rows.events /\ g = e
    <3> SUFFICES ASSUME f.alert = e.alert, f.sym = e.sym
                 PROVE  /\ f.at < e.at => f.bar <= e.bar
                        /\ rule[f.alert].mode # "ONCE"
                        /\ rule[f.alert].mode = "ONCE_PER_BAR" => f.bar # e.bar
                        /\ e.at - f.at >= rule[f.alert].throttle
      BY <2>2 DEF Obeys
    <3> QED BY <2>2, EmitObeys
  <2>3. CASE f = e /\ g \in rows.events
    <3> SUFFICES ASSUME g.alert = e.alert, g.sym = e.sym
                 PROVE  /\ ~(e.at < g.at)
                        /\ rule[e.alert].mode # "ONCE"
                        /\ rule[e.alert].mode = "ONCE_PER_BAR" => e.bar # g.bar
                        /\ g.at >= e.at => g.at - e.at >= rule[e.alert].throttle
      BY <2>3 DEF Obeys
    <3>1. /\ rule[e.alert].mode # "ONCE"
          /\ rule[e.alert].mode = "ONCE_PER_BAR" => e.bar # g.bar
          /\ e.at - g.at >= rule[e.alert].throttle /\ g.at <= e.at
      BY <2>3, EmitObeys
    <3>2. e.at \in Nat /\ g.at \in Nat /\ rule[e.alert].throttle \in Nat
      <4>1. g \in Match /\ e.alert \in Alert
        BY <1>1, <2>3, MatchFields
      <4> QED BY <4>1, MatchFields, AlertFields
    <3> QED BY <3>1, <3>2
  <2>4. CASE f = e /\ g = e
    BY <2>4, MatchFields DEF Obeys
  <2> QED BY <2>1, <2>2, <2>3, <2>4
<1> QED BY <1>1, <1>4, <1>5 DEF RowsFit

\* Later, and with more bars, rows fit as well.
LEMMA LaterFits ==
  ASSUME NEW rows \in RowsType, NEW t \in Nat, RowsFit(rows, t), NEW u \in Nat, u >= t
  PROVE  RowsFit(rows, u)
<1>1. rows.events \subseteq Match
  BY DEF RowsType
<1> QED BY <1>1, MatchFields DEF RowsFit, Reached

-----------------------------------------------------------------------------
(* The steps of the alerts                                                    *)

LEMMA NoSweepFits ==
  /\ NoRows \in RowsType /\ NoSweep \in SweepType
  /\ NoSweep.rows = NoRows /\ NoSweep.at = 0 /\ NoSweep.todo = {} /\ NoSweep.now = {}
  /\ \A t : RowsFit(NoRows, t)
<1>1. NoRows \in RowsType /\ NoRows.events = {} /\ NoRows.orders = {}
  BY TimeAssumption DEF NoRows, RowsType
<1>2. NoSweep \in SweepType
  BY <1>1, TimeAssumption DEF NoSweep, SweepType
<1>3. NoSweep.rows = NoRows /\ NoSweep.at = 0 /\ NoSweep.todo = {} /\ NoSweep.now = {}
  BY DEF NoSweep
<1>4. \A t : RowsFit(NoRows, t)
  BY <1>1 DEF RowsFit
<1> QED BY <1>1, <1>2, <1>3, <1>4

LEMMA AlertInitHolds ==
  ASSUME AlertInit
  PROVE  AlertInv
<1>1. SweepTyped
  BY NoSweepFits, TimeAssumption DEF SweepTyped, AlertInit
<1> QED BY <1>1, NoSweepFits DEF AlertInit, AlertInv

LEMMA SweepFields ==
  ASSUME AlertInv
  PROVE  /\ sweep.at \in 0..Horizon /\ sweep.last \in 0..Horizon /\ sweep.todo \subseteq Alert
         /\ sweep.now \subseteq Alert /\ sweep.syms \subseteq Listing /\ sweep.rows \in RowsType
         /\ saved \in RowsType /\ sweep.at <= time /\ time \in 1..Horizon
         /\ sweep.at \in Nat /\ time \in Nat /\ Horizon \in Nat
         /\ RowsFit(saved, time) /\ RowsFit(sweep.rows, sweep.at) /\ RowsFit(sweep.rows, time)
<1>1. /\ sweep.at \in 0..Horizon /\ sweep.last \in 0..Horizon /\ sweep.todo \subseteq Alert
      /\ sweep.now \subseteq Alert /\ sweep.syms \subseteq Listing /\ sweep.rows \in RowsType
      /\ saved \in RowsType /\ sweep.at <= time /\ time \in 1..Horizon
  BY DEF AlertInv, SweepTyped, SweepType
<1>2. sweep.at \in Nat /\ time \in Nat /\ Horizon \in Nat
  BY <1>1, TimeAssumption
<1> QED BY <1>1, <1>2, LaterFits DEF AlertInv

\* A step of the loop: the rows that it writes or commits fit.
LEMMA LoopKeeps ==
  ASSUME AlertInv, UNCHANGED <<rule, armed, feed, time>>,
         NEW s \in SweepType,
         sweep' = s, s.at <= time, s.todo \cup s.now # {} => s.at # 0,
         s.now # {} => \E a \in Alert : s.now = {a},
         RowsFit(s.rows, s.at),
         saved' \in RowsType, RowsFit(saved', time)
  PROVE  AlertInv'
<1>1. SweepTyped'
  BY DEF AlertInv, SweepTyped
<1>2. RowsFit(saved, time)' /\ RowsFit(sweep.rows, sweep.at)'
  BY DEF RowsFit, Reached, Obeys, LastEvents, EventsOf
<1> QED BY <1>1, <1>2 DEF AlertInv

LEMMA SweepStartsKeeps ==
  ASSUME AlertInv, SweepStarts
  PROVE  AlertInv'
<1> DEFINE due == {a \in armed : saved.checked[a] = 0 \/ time - saved.checked[a] >= rule[a].cadence}
           s == [NoSweep EXCEPT !.at = time, !.todo = due, !.rows = saved]
<1>1. sweep' = s /\ UNCHANGED <<rule, armed, feed, time, saved>>
  BY DEF SweepStarts, SweepOnly
<1>2. due \subseteq Alert
  BY DEF AlertInv, SweepTyped
<1> HIDE DEF due
<1>3. s.at = time /\ s.todo = due /\ s.now = {} /\ s.rows = saved
  BY NoSweepFits DEF SweepType
<1>4. s \in SweepType
  <2>1. time \in 0..Horizon /\ saved \in RowsType
    BY SweepFields
  <2> QED BY <1>2, <2>1, NoSweepFits DEF SweepType
<1> HIDE DEF s
<1> QED BY <1>1, <1>3, <1>4, SweepFields, LoopKeeps

\* The next sweep is asked for with nothing but the start of this one.
LEMMA SweepEndsKeeps ==
  ASSUME AlertInv, sweep' = [NoSweep EXCEPT !.last = sweep.at],
         UNCHANGED <<rule, armed, feed, time>>, saved' \in {saved, sweep.rows}
  PROVE  AlertInv'
<1> DEFINE s == [NoSweep EXCEPT !.last = sweep.at]
<1>1. s.at = 0 /\ s.todo = {} /\ s.now = {} /\ s.rows = NoRows /\ s \in SweepType
  BY SweepFields, NoSweepFits DEF SweepType
<1>2. sweep' = s
  OBVIOUS
<1> HIDE DEF s
<1> QED BY <1>1, <1>2, NoSweepFits, SweepFields, LoopKeeps

LEMMA SweepWalksKeeps ==
  ASSUME AlertInv, NEW a \in Alert, SweepTakes(a) \/ SweepDone(a) \/ SweepSkips(a)
  PROVE  AlertInv'
<1>1. UNCHANGED <<rule, armed, feed, time, saved>>
  BY DEF SweepTakes, SweepDone, SweepSkips, SweepOnly
<1>2. sweep \in SweepType
  BY DEF AlertInv, SweepTyped
<1>3. sweep.todo \cup sweep.now # {} => sweep.at # 0
  BY DEF AlertInv, SweepTyped
<1>4. CASE SweepTakes(a)
  <2>1. PICK now \in {{}, {a}}, syms \in SUBSET Listing :
          sweep' = [sweep EXCEPT !.todo = @ \ {a}, !.now = now, !.syms = syms]
    <3>1. CASE sweep' = [sweep EXCEPT !.todo = @ \ {a}, !.now = {a}, !.syms = Listing]
      BY <3>1
    <3>2. CASE sweep' = [sweep EXCEPT !.todo = @ \ {a}]
      <4>1. sweep' = [sweep EXCEPT !.todo = @ \ {a}, !.now = {}, !.syms = sweep.syms]
        BY <1>2, <1>4, <3>2 DEF SweepType, SweepTakes
      <4> QED BY <1>2, <4>1 DEF SweepType
    <3> QED BY <1>4, <3>1, <3>2 DEF SweepTakes
  <2> DEFINE s == [sweep EXCEPT !.todo = @ \ {a}, !.now = now, !.syms = syms]
  <2>2. /\ s.at = sweep.at /\ s.rows = sweep.rows /\ s.now = now
        /\ s \in SweepType
    BY <1>2 DEF SweepType
  <2>3. sweep' = s
    BY <2>1
  <2> HIDE DEF s
  <2>4. sweep.at # 0
    BY <1>3, <1>4 DEF SweepTakes
  <2> QED BY <1>1, <2>1, <2>2, <2>3, <2>4, SweepFields, LoopKeeps
<1>5. CASE SweepDone(a) \/ SweepSkips(a)
  <2>1. PICK syms \in SUBSET Listing, checked \in [Alert -> 0..Horizon] :
          sweep' = [sweep EXCEPT !.now = {}, !.syms = syms, !.rows.checked = checked]
    <3>1. CASE SweepDone(a)
      <4>1. sweep' = [sweep EXCEPT !.now = {}, !.syms = sweep.syms,
                                   !.rows.checked = [sweep.rows.checked EXCEPT ![a] = sweep.at]]
        BY <1>2, <3>1 DEF SweepType, SweepDone, RowsType
      <4>2. [sweep.rows.checked EXCEPT ![a] = sweep.at] \in [Alert -> 0..Horizon]
        BY <1>2 DEF SweepType, RowsType
      <4> QED BY <1>2, <4>1, <4>2 DEF SweepType
    <3>2. CASE SweepSkips(a)
      <4>1. sweep' = [sweep EXCEPT !.now = {}, !.syms = {}, !.rows.checked = sweep.rows.checked]
        BY <1>2, <3>2 DEF SweepType, SweepSkips, RowsType
      <4> QED BY <1>2, <4>1 DEF SweepType, RowsType
    <3> QED BY <1>5, <3>1, <3>2
  <2> DEFINE rows == [sweep.rows EXCEPT !.checked = checked]
             s == [sweep EXCEPT !.now = {}, !.syms = syms, !.rows = rows]
  <2>2. rows \in RowsType /\ rows.events = sweep.rows.events /\ rows.orders = sweep.rows.orders
    BY <1>2 DEF SweepType, RowsType
  <2>3. sweep' = s
    BY <1>2, <2>1 DEF SweepType
  <2> HIDE DEF rows
  <2>4. /\ s.at = sweep.at /\ s.rows = rows /\ s.now = {} /\ s.todo = sweep.todo
        /\ s \in SweepType
    BY <1>2, <2>2 DEF SweepType
  <2> HIDE DEF s
  <2>5. RowsFit(rows, sweep.at)
    BY <2>2, SweepFields DEF RowsFit, LastEvents, EventsOf
  <2> QED BY <1>1, <1>3, <2>3, <2>4, <2>5, SweepFields, LoopKeeps
<1> QED BY <1>4, <1>5

\* The event of a symbol: of this sweep, and of the latest bar.
LEMMA FiredFits ==
  ASSUME AlertInv, NEW a \in Alert, NEW s \in Listing, sweep.at # 0
  PROVE  /\ Fired(a, s) \in Match /\ Fired(a, s).alert = a /\ Fired(a, s).sym = s
         /\ Fired(a, s).at = sweep.at
         /\ Fired(a, s).bar = IF rule[a].barred THEN feed[s] ELSE 0
<1>1. feed[s] \in 0..Horizon + 1 /\ 0 \in 0..Horizon + 1 /\ sweep.at \in 1..Horizon
  BY SweepFields, TimeAssumption DEF AlertInv, SweepTyped
<1> QED BY <1>1 DEF Fired, Match

LEMMA SweepSymbolKeeps ==
  ASSUME AlertInv, NEW a \in Alert, NEW y \in Listing, SweepSymbol(a, y)
  PROVE  AlertInv'
<1> DEFINE e == Fired(a, y)
           told == [sweep.rows EXCEPT !.events = @ \cup {e}]
           sold == [told EXCEPT !.orders = @ \cup {e}]
           With(rows) == [sweep EXCEPT !.syms = @ \ {y}, !.rows = rows]
<1>1. UNCHANGED <<rule, armed, feed, time>> /\ sweep.at # 0
  BY DEF SweepSymbol, SweepOnly, AlertInv, SweepTyped
<1>2. sweep \in SweepType /\ sweep.rows \in RowsType
  BY SweepFields DEF AlertInv, SweepTyped
<1>3. e \in Match /\ e.alert = a /\ e.sym = y /\ e.at = sweep.at /\ e.bar = IF rule[a].barred THEN feed[y] ELSE 0
  BY <1>1, FiredFits
<1>4. \/ sweep' = With(sweep.rows) /\ saved' \in {saved, sweep.rows}
      \/ /\ ShouldEmit(sweep.rows, a, y, sweep.at, e.bar)
         /\ \/ sweep' = With(told) /\ saved' \in {saved, sweep.rows, told}
            \/ sweep' = With(sold) /\ saved' \in {saved, sweep.rows, told, sold}
  <2> DEFINE rest == [sweep EXCEPT !.syms = @ \ {y}]
             restTold == [rest EXCEPT !.rows.events = @ \cup {e}]
             restSold == [restTold EXCEPT !.rows.orders = @ \cup {e}]
  <2>1. rest = With(sweep.rows) /\ restTold = With(told) /\ restSold = With(sold)
    BY <1>2 DEF SweepType, RowsType
  <2>2. restTold.rows = told /\ restSold.rows = sold
    BY <1>2 DEF SweepType, RowsType
  <2>3. \/ sweep' = rest /\ saved' \in {saved, sweep.rows}
        \/ /\ ShouldEmit(sweep.rows, a, y, sweep.at, e.bar)
           /\ \/ sweep' = restTold /\ saved' \in {saved, sweep.rows, restTold.rows}
              \/ sweep' = restSold /\ saved' \in {saved, sweep.rows, restTold.rows, restSold.rows}
    BY DEF SweepSymbol
  <2> QED BY <2>1, <2>2, <2>3
<1>5. /\ told \in RowsType /\ told.events = sweep.rows.events \cup {e} /\ told.orders = sweep.rows.orders
      /\ sold \in RowsType /\ sold.events = sweep.rows.events \cup {e} /\ sold.orders = sweep.rows.orders \cup {e}
  BY <1>2, <1>3 DEF RowsType
<1> HIDE DEF e, told, sold
<1>6. \A rows \in RowsType : /\ With(rows) \in SweepType /\ With(rows).rows = rows
                             /\ With(rows).at = sweep.at /\ With(rows).todo = sweep.todo
                             /\ With(rows).now = sweep.now
  BY <1>2 DEF SweepType
<1> HIDE DEF With
<1>7. RowsFit(sweep.rows, sweep.at) /\ sweep.at \in Nat /\ rule \in [Alert -> AlertTypes]
  BY SweepFields DEF AlertInv, SweepTyped
<1>8. ShouldEmit(sweep.rows, a, y, sweep.at, e.bar) =>
        RowsFit(told, sweep.at) /\ RowsFit(sold, sweep.at)
  BY <1>2, <1>3, <1>5, <1>7, EmitFits
<1>9. PICK rows \in RowsType : sweep' = With(rows) /\ RowsFit(rows, sweep.at)
  BY <1>2, <1>4, <1>5, <1>7, <1>8
<1>10. saved' \in RowsType /\ (saved' = saved \/ RowsFit(saved', sweep.at))
  BY <1>2, <1>4, <1>5, <1>7, <1>8, SweepFields
<1>11. RowsFit(saved', time)
  <2>1. saved' = saved => RowsFit(saved', time)
    BY SweepFields
  <2>2. sweep.at \in Nat /\ time \in Nat /\ time >= sweep.at
    BY SweepFields
  <2> QED BY <1>10, <2>1, <2>2, LaterFits
<1>12. /\ sweep.at <= time /\ (sweep.todo \cup sweep.now # {} => sweep.at # 0)
       /\ sweep.now # {} => \E b \in Alert : sweep.now = {b}
  BY DEF AlertInv, SweepTyped
<1> DEFINE s == With(rows)
<1>13. s \in SweepType /\ s.rows = rows /\ s.at = sweep.at /\ s.todo = sweep.todo /\ s.now = sweep.now /\ sweep' = s
  BY <1>6, <1>9
<1> HIDE DEF s
<1> QED BY <1>1, <1>9, <1>10, <1>11, <1>12, <1>13, LoopKeeps

\* Time passes, and candles arrive: neither takes back the bar of an event.
LEMMA WorldKeeps ==
  ASSUME AlertInv, UNCHANGED <<rule, saved, sweep>>, armed' \subseteq Alert,
         time' \in 1..Horizon, time' >= time,
         feed' \in [Listing -> 1..Horizon + 1], \A s \in Listing : feed'[s] >= feed[s]
  PROVE  AlertInv'
<1>1. SweepTyped'
  BY SweepFields DEF AlertInv, SweepTyped
<1>2. \A e \in Match : Reached(e, time) => Reached(e, time)'
  <2>1. \A e \in Match : e.at \in Nat /\ e.bar \in Nat /\ feed[e.sym] \in Nat /\ feed'[e.sym] \in Nat
                         /\ feed'[e.sym] >= feed[e.sym]
    BY MatchFields, SweepFields DEF AlertInv, SweepTyped
  <2> QED BY <2>1, SweepFields DEF Reached
<1>3. \A e \in Match : Reached(e, sweep.at) => Reached(e, sweep.at)'
  <2>1. \A e \in Match : e.bar \in Nat /\ feed[e.sym] \in Nat /\ feed'[e.sym] \in Nat
                         /\ feed'[e.sym] >= feed[e.sym]
    BY MatchFields, SweepFields DEF AlertInv, SweepTyped
  <2> QED BY <2>1 DEF Reached
<1>4. saved.events \subseteq Match /\ sweep.rows.events \subseteq Match
  BY SweepFields DEF RowsType
<1>5. RowsFit(saved, time)' /\ RowsFit(sweep.rows, sweep.at)'
  BY <1>2, <1>3, <1>4 DEF AlertInv, RowsFit, Obeys, LastEvents, EventsOf
<1> QED BY <1>1, <1>5 DEF AlertInv

LEMMA AlertNextKeeps ==
  ASSUME AlertInv, [AlertNext]_alertVars
  PROVE  AlertInv'
<1> USE SweepFields
<1>1. ASSUME NEW a \in Alert, SweepTakes(a) \/ SweepDone(a) \/ SweepSkips(a)
      PROVE  AlertInv'
  BY <1>1, SweepWalksKeeps
<1>2. ASSUME NEW a \in Alert, Toggle(a)
      PROVE  AlertInv'
  <2>1. UNCHANGED <<rule, saved, sweep, feed, time>> /\ armed' \subseteq Alert
    BY <1>2 DEF Toggle, AlertInv, SweepTyped
  <2>2. feed \in [Listing -> 1..Horizon + 1]
    BY DEF AlertInv, SweepTyped
  <2> QED BY <2>1, <2>2, WorldKeeps
<1>3. ASSUME NEW a \in Alert, NEW s \in Listing, SweepSymbol(a, s)
      PROVE  AlertInv'
  BY <1>3, SweepSymbolKeeps
<1>4. CASE SweepStarts
  BY <1>4, SweepStartsKeeps
<1>5. CASE SweepCommits \/ SweepLost
  BY <1>5, SweepEndsKeeps DEF SweepCommits, SweepLost, SweepOnly
<1>6. CASE TimePasses
  <2>1. UNCHANGED <<rule, saved, sweep, feed, armed>> /\ time' = time + 1 /\ time < Horizon
    BY <1>6 DEF TimePasses
  <2>2. feed \in [Listing -> 1..Horizon + 1] /\ armed \subseteq Alert
    BY DEF AlertInv, SweepTyped
  <2> QED BY <2>1, <2>2, WorldKeeps
<1>7. ASSUME NEW s \in Listing, CandlesArrive(s)
      PROVE  AlertInv'
  <2>1. /\ UNCHANGED <<rule, saved, sweep, armed, time>>
        /\ feed[s] < 1 + time \div BarSpan /\ feed' = [feed EXCEPT ![s] = 1 + time \div BarSpan]
    BY <1>7 DEF CandlesArrive
  <2>2. feed \in [Listing -> 1..Horizon + 1] /\ armed \subseteq Alert
    BY DEF AlertInv, SweepTyped
  <2>3. time \div BarSpan \in 0..time
    BY TimeAssumption
  <2>4. 1 + time \div BarSpan \in 1..Horizon + 1
    BY <2>3
  <2> QED BY <2>1, <2>2, <2>4, WorldKeeps
<1>8. CASE UNCHANGED alertVars
  <2>1. UNCHANGED <<rule, saved, sweep, feed, armed, time>>
    BY <1>8 DEF alertVars
  <2>2. feed \in [Listing -> 1..Horizon + 1] /\ armed \subseteq Alert
    BY DEF AlertInv, SweepTyped
  <2> QED BY <2>1, <2>2, WorldKeeps
<1> QED BY <1>1, <1>2, <1>3, <1>4, <1>5, <1>6, <1>7, <1>8 DEF AlertNext

LEMMA AlertInvAlways == AlertSpec => []AlertInv
<1>1. AlertInit => AlertInv
  BY AlertInitHolds
<1>2. AlertInv /\ [AlertNext]_alertVars => AlertInv'
  BY AlertNextKeeps
<1> QED BY <1>1, <1>2, PTL DEF AlertSpec

\* The rows of the alerts keep their types, and a sweep works on one alert at a time.
THEOREM AlertsTyped == AlertSpec => []AlertTypeOK
<1>1. AlertInv => AlertTypeOK
  <2> SUFFICES ASSUME AlertInv
               PROVE  AlertTypeOK
    OBVIOUS
  <2>1. RowsOK(saved) /\ RowsOK(sweep.rows)
    BY SweepFields DEF RowsType, RowsOK
  <2>2. Cardinality(sweep.now) <= 1
    <3>1. sweep.now = {} \/ \E a \in Alert : sweep.now = {a}
      BY DEF AlertInv, SweepTyped
    <3>2. \A a : Cardinality({a}) = 1
      BY FS_Singleton
    <3>3. Cardinality({}) = 0
      BY FS_EmptySet
    <3> QED BY <3>1, <3>2, <3>3
  <2> QED BY <2>1, <2>2, SweepFields DEF AlertInv, SweepTyped, AlertTypeOK
<1> QED BY <1>1, AlertInvAlways, PTL

\* Alerts fire as their mode and their throttle say, also across sweeps that were
\* lost after part of what they wrote was committed, and no order that a sweep
\* queued or sent is without its durable event, so that no later sweep repeats it
\* (evaluate_alerts_v3_once, _should_emit_event).
THEOREM AlertsKeep == AlertSpec => []AlertsKeepToMode
<1>1. AlertInv => AlertsKeepToMode
  BY DEF AlertInv, RowsFit, Obeys, AlertsKeepToMode, FiresByMode, OrdersAreTold
<1> QED BY <1>1, AlertInvAlways, PTL

-----------------------------------------------------------------------------
(* Signals: the inductive invariant                                           *)

\* Handler h has stored the order of signal s, and is executing or requeueing it.
Work == {"dispatch", "record", "raised", "requeue"}
Works(h, s) == intake[h].on = {s} /\ intake[h].pc \in Work

\* An order can still be placed for s by its worker before the broker has it, from
\* the waiting queue, or from the copy there; each is the only one who can.
SignalFits(s) ==
  /\ first[s].status = "none" => sent[s] <= unheard[s] /\ copy[s] = "none" /\ \A h \in Handler : ~Works(h, s)
  /\ \A h \in Handler : Works(h, s) =>
       /\ first[s].mode = "AUTO" /\ copy[s] = "none"
       /\ intake[h].pc # "record" => sent[s] <= unheard[s]
  /\ \A h, g \in Handler : Works(h, s) /\ Works(g, s) => h = g
  /\ Queued(first[s]) => sent[s] <= unheard[s]
  /\ copy[s] = "WAITING" => sent[s] <= unheard[s]
  /\ copy[s] # "none" => first[s].mode = "AUTO"
  /\ sent[s] <= 1 + unheard[s]
  /\ \/ s \in left
     \/ first[s].status = "none" \/ first[s].linked
     \/ \E h \in Handler : Works(h, s)
     \/ first[s].status = "CANCELLED" /\ first[s].mode = "MANUAL"
     \/ Queued(first[s])
     \/ copy[s] # "none"

IntakeInv == IntakeTypeOK /\ \A s \in Signal : SignalFits(s)

LEMMA NobodyType ==
  Nobody \in HandlerState /\ Nobody.pc = "idle" /\ Nobody.on = {}
BY SetupsAssumption DEF Nobody, HandlerState

LEMMA IntakeInitHolds ==
  ASSUME IntakeInit
  PROVE  IntakeInv
<1>1. IntakeTypeOK
  BY NobodyType DEF IntakeInit, IntakeTypeOK, OrderState, OrderMode
<1>2. \A h \in Handler, s \in Signal : ~Works(h, s)
  BY NobodyType DEF IntakeInit, Works, Work
<1>3. \A s \in Signal : /\ first[s].status = "none" /\ copy[s] = "none" /\ sent[s] = 0 /\ unheard[s] = 0
  BY DEF IntakeInit
<1> QED BY <1>1, <1>2, <1>3 DEF IntakeInv, SignalFits, Queued

-----------------------------------------------------------------------------
(* The steps of the webhook                                                   *)

\* A step of handler h on signal s leaves the other signals as they are.
LEMMA HandlerKeeps ==
  ASSUME IntakeInv, NEW h \in Handler, NEW s \in Signal, NEW n \in HandlerState,
         intake' = [intake EXCEPT ![h] = n],
         intake[h].on = {s} \/ intake[h].pc \notin Work, n.on = {s} \/ n.pc \notin Work,
         first' \in [Signal -> [status : OrderState, mode : OrderMode, linked : BOOLEAN]],
         copy' \in [Signal -> {"none", "WAITING", "SENT", "CANCELLED"}],
         alerts' \in [Signal -> Nat], sent' \in [Signal -> Nat], stray' \in [Signal -> Nat],
         unheard' \in [Signal -> Nat], left' \subseteq Signal, left \subseteq left',
         \A r \in Signal \ {s} : /\ first'[r] = first[r] /\ copy'[r] = copy[r]
                                 /\ sent'[r] = sent[r] /\ unheard'[r] = unheard[r],
         SignalFits(s)'
  PROVE  IntakeInv'
<1>1. intake \in [Handler -> HandlerState]
  BY DEF IntakeInv, IntakeTypeOK
<1>2. IntakeTypeOK'
  BY <1>1 DEF IntakeTypeOK
<1>3. ASSUME NEW r \in Signal, r # s
      PROVE  SignalFits(r)'
  <2>1. \A g \in Handler : /\ Works(g, r)' <=> Works(g, r)
                           /\ Works(g, r) => intake'[g] = intake[g]
    BY <1>1, <1>3 DEF Works
  <2>2. /\ first'[r] = first[r] /\ copy'[r] = copy[r]
        /\ sent'[r] = sent[r] /\ unheard'[r] = unheard[r]
    BY <1>3
  <2>3. SignalFits(r)
    BY DEF IntakeInv
  <2> QED BY <2>1, <2>2, <2>3 DEF SignalFits, Queued
<1> QED BY <1>2, <1>3 DEF IntakeInv

LEMMA HandlerFields ==
  ASSUME IntakeInv, NEW h \in Handler, NEW s \in Signal, NEW pc, On(h, s, pc)
  PROVE  /\ intake[h].pc = pc /\ intake[h].on = {s} /\ intake \in [Handler -> HandlerState]
         /\ intake[h] \in HandlerState
         /\ pc \in Work => Works(h, s)
         /\ SignalFits(s)
BY DEF On, IntakeInv, IntakeTypeOK, Works

LEMMA MovedHandler ==
  ASSUME IntakeInv, NEW h \in Handler, NEW s \in Signal, NEW old, On(h, s, old),
         NEW pc \in {"alert", "order", "dispatch", "record", "raised", "requeue"}, MovesTo(h, pc)
  PROVE  \E n \in HandlerState : n.pc = pc /\ n.on = {s} /\ intake' = [intake EXCEPT ![h] = n]
<1> DEFINE n == [intake[h] EXCEPT !.pc = pc]
<1>1. n \in HandlerState /\ n.pc = pc /\ n.on = {s}
  BY HandlerFields DEF HandlerState
<1>2. intake' = [intake EXCEPT ![h] = n]
  BY HandlerFields DEF MovesTo
<1> QED BY <1>1, <1>2

\* Before the order is stored, nothing about it changes.
LEMMA EarlyKeeps ==
  ASSUME IntakeInv, NEW h \in Handler, NEW s \in Signal, NEW n \in HandlerState,
         intake' = [intake EXCEPT ![h] = n], intake[h].pc \notin Work, n.pc \notin Work,
         UNCHANGED <<first, copy, sent, stray, unheard, left>>, alerts' \in [Signal -> Nat]
  PROVE  IntakeInv'
<1>1. intake \in [Handler -> HandlerState]
  BY DEF IntakeInv, IntakeTypeOK
<1>2. \A g \in Handler : /\ Works(g, s)' <=> Works(g, s)
                         /\ Works(g, s) => intake'[g] = intake[g]
  BY <1>1 DEF Works
<1>3. SignalFits(s)'
  BY <1>2 DEF IntakeInv, SignalFits, Queued
<1> QED BY <1>3, HandlerKeeps DEF IntakeInv, IntakeTypeOK

LEMMA EarlyStepsKeep ==
  ASSUME IntakeInv, NEW h \in Handler, NEW s \in Signal,
         Receive(h, s) \/ IgnoreExit(h, s) \/ Lookup(h, s) \/ StoreAlert(h, s)
  PROVE  IntakeInv'
<1>1. UNCHANGED <<first, copy, sent, stray, unheard, left>> /\ intake[h].pc \notin Work
  BY DEF Receive, IgnoreExit, Lookup, StoreAlert, On, Work
<1>2. alerts' \in [Signal -> Nat]
  BY DEF Receive, IgnoreExit, Lookup, StoreAlert, IntakeInv, IntakeTypeOK
<1>3. \E n \in HandlerState : n.pc \notin Work /\ intake' = [intake EXCEPT ![h] = n]
  <2>1. CASE Receive(h, s)
    BY <2>1 DEF Receive, HandlerState, Work
  <2>2. CASE IgnoreExit(h, s)
    BY <2>2, NobodyType DEF IgnoreExit, Answers, Work
  <2>3. CASE Lookup(h, s)
    <3>1. CASE Answers(h)
      BY <3>1, NobodyType DEF Answers, Work
    <3>2. CASE MovesTo(h, "alert")
      BY <2>3, <3>2, MovedHandler DEF Lookup, Work
    <3> QED BY <2>3, <3>1, <3>2 DEF Lookup
  <2>4. CASE StoreAlert(h, s)
    BY <2>4, MovedHandler DEF StoreAlert, Work
  <2> QED BY <2>1, <2>2, <2>3, <2>4
<1> QED BY <1>1, <1>2, <1>3, EarlyKeeps

\* Who works on s after a step of h, which is at n.
LEMMA WorkersAfter ==
  ASSUME IntakeInv, NEW h \in Handler, NEW s \in Signal, NEW n \in HandlerState,
         intake' = [intake EXCEPT ![h] = n]
  PROVE  /\ intake'[h] = n /\ \A g \in Handler : g # h => intake'[g] = intake[g]
         /\ Works(h, s)' <=> n.on = {s} /\ n.pc \in Work
         /\ \A g \in Handler : g # h => (Works(g, s)' <=> Works(g, s))
BY DEF IntakeInv, IntakeTypeOK, Works

\* A worker that stops, with the order where it is kept.
LEMMA StopKeeps ==
  ASSUME IntakeInv, NEW h \in Handler, NEW s \in Signal, Works(h, s), Answers(h),
         first' \in [Signal -> [status : OrderState, mode : OrderMode, linked : BOOLEAN]],
         copy' \in [Signal -> {"none", "WAITING", "SENT", "CANCELLED"}],
         stray' \in [Signal -> Nat], left' \subseteq Signal, left \subseteq left',
         \A r \in Signal \ {s} : first'[r] = first[r] /\ copy'[r] = copy[r],
         UNCHANGED <<sent, unheard, alerts>>,
         first'[s].status # "none",
         Queued(first'[s]) => sent[s] <= unheard[s],
         copy'[s] = "WAITING" => sent[s] <= unheard[s],
         copy'[s] # "none" => first'[s].mode = "AUTO",
         s \in left' \/ first'[s].linked \/ Queued(first'[s]) \/ copy'[s] # "none"
  PROVE  IntakeInv'
<1>1. Nobody \in HandlerState /\ Nobody.pc \notin Work /\ intake' = [intake EXCEPT ![h] = Nobody]
  BY NobodyType DEF Answers, Work
<1>2. SignalFits(s)
  BY DEF IntakeInv
<1>3. \A g \in Handler : ~Works(g, s)'
  BY <1>1, <1>2, WorkersAfter DEF SignalFits
<1>4. SignalFits(s)'
  BY <1>2, <1>3 DEF SignalFits, Queued
<1> QED BY <1>1, <1>4, HandlerKeeps DEF IntakeInv, IntakeTypeOK, Works

\* A worker that goes on, or a handler that becomes one.
LEMMA WorkKeeps ==
  ASSUME IntakeInv, NEW h \in Handler, NEW s \in Signal, NEW n \in HandlerState,
         intake' = [intake EXCEPT ![h] = n], n.on = {s}, n.pc \in Work,
         Works(h, s) \/ (first[s].status = "none" /\ intake[h].pc \notin Work),
         first' \in [Signal -> [status : OrderState, mode : OrderMode, linked : BOOLEAN]],
         sent' \in [Signal -> Nat], stray' \in [Signal -> Nat], unheard' \in [Signal -> Nat],
         \A r \in Signal \ {s} : /\ first'[r] = first[r]
                                 /\ sent'[r] = sent[r] /\ unheard'[r] = unheard[r],
         UNCHANGED <<copy, alerts, left>>,
         first'[s].status # "none", first'[s].mode = "AUTO",
         n.pc # "record" => sent'[s] <= unheard'[s],
         sent'[s] <= 1 + unheard'[s]
  PROVE  IntakeInv'
<1>1. SignalFits(s)
  BY DEF IntakeInv
<1>2. /\ intake'[h] = n /\ \A g \in Handler : g # h => intake'[g] = intake[g]
      /\ Works(h, s)' <=> n.on = {s} /\ n.pc \in Work
      /\ \A g \in Handler : g # h => (Works(g, s)' <=> Works(g, s))
  BY WorkersAfter
<1>3. \A g \in Handler : Works(g, s)' => g = h
  BY <1>1, <1>2 DEF SignalFits
<1>4. copy[s] = "none"
  BY <1>1 DEF SignalFits
<1>5. SignalFits(s)'
  <2>1. ~Queued(first'[s])
    BY DEF Queued
  <2> QED BY <1>2, <1>3, <1>4, <2>1 DEF SignalFits, Queued
<1> QED BY <1>5, HandlerKeeps DEF IntakeInv, IntakeTypeOK, Works

\* The status of an order, and what it leaves of the others.
LEMMA TurnsFields ==
  ASSUME IntakeInv, NEW s \in Signal, NEW st \in OrderState, NEW m \in OrderMode, Turns(s, st, m)
  PROVE  /\ first' \in [Signal -> [status : OrderState, mode : OrderMode, linked : BOOLEAN]]
         /\ first'[s].status = st /\ first'[s].mode = m /\ first'[s].linked = first[s].linked
         /\ \A r \in Signal \ {s} : first'[r] = first[r]
BY DEF Turns, IntakeInv, IntakeTypeOK

LEMMA StoreOrderKeeps ==
  ASSUME IntakeInv, NEW h \in Handler, NEW s \in Signal, StoreOrder(h, s)
  PROVE  IntakeInv'
<1>1. /\ On(h, s, "order") /\ UNCHANGED <<copy, alerts, sent, stray, unheard, left>>
      /\ intake[h].pc \notin Work
  BY DEF StoreOrder, On, Work
<1>2. CASE first[s].status # "none"
  <2>1. first' = first /\ Answers(h)
    BY <1>2 DEF StoreOrder
  <2> QED BY <1>1, <2>1, NobodyType, EarlyKeeps DEF Answers, Work, IntakeInv, IntakeTypeOK
<1>3. CASE first[s].status = "none" /\ intake[h].cfg.auto
  <2>1. Turns(s, "WAITING", "AUTO") /\ MovesTo(h, "dispatch")
    BY <1>3 DEF StoreOrder, ModeOf
  <2>2. PICK n \in HandlerState : n.pc = "dispatch" /\ n.on = {s} /\ intake' = [intake EXCEPT ![h] = n]
    BY <1>1, <2>1, MovedHandler
  <2>3. /\ first' \in [Signal -> [status : OrderState, mode : OrderMode, linked : BOOLEAN]]
        /\ first'[s].status = "WAITING" /\ first'[s].mode = "AUTO"
        /\ \A r \in Signal \ {s} : first'[r] = first[r]
    BY <2>1, TurnsFields DEF OrderState, OrderMode
  <2>4. sent[s] <= unheard[s]
    BY <1>3 DEF IntakeInv, SignalFits
  <2>5. sent \in [Signal -> Nat] /\ unheard \in [Signal -> Nat] /\ stray \in [Signal -> Nat]
    BY DEF IntakeInv, IntakeTypeOK
  <2>6. sent'[s] <= unheard'[s] /\ sent'[s] <= 1 + unheard'[s] /\ n.pc \in Work
    BY <1>1, <2>2, <2>4, <2>5 DEF Work
  <2> QED BY <1>1, <1>3, <2>2, <2>3, <2>5, <2>6, WorkKeeps
<1>4. CASE first[s].status = "none" /\ ~intake[h].cfg.auto
  <2>1. Turns(s, "WAITING", "MANUAL") /\ Answers(h)
    BY <1>4 DEF StoreOrder, ModeOf
  <2>2. /\ first' \in [Signal -> [status : OrderState, mode : OrderMode, linked : BOOLEAN]]
        /\ first'[s].status = "WAITING" /\ first'[s].mode = "MANUAL"
        /\ \A r \in Signal \ {s} : first'[r] = first[r]
    BY <2>1, TurnsFields DEF OrderState, OrderMode
  <2>3. Nobody \in HandlerState /\ Nobody.pc \notin Work /\ intake' = [intake EXCEPT ![h] = Nobody]
    BY <2>1, NobodyType DEF Answers, Work
  <2>4. SignalFits(s)
    BY DEF IntakeInv
  <2>5. \A g \in Handler : ~Works(g, s)'
    BY <1>4, <2>3, <2>4, WorkersAfter DEF SignalFits
  <2>6. SignalFits(s)'
    BY <1>1, <1>4, <2>2, <2>4, <2>5 DEF SignalFits, Queued
  <2> QED BY <1>1, <2>2, <2>3, <2>6, HandlerKeeps DEF IntakeInv, IntakeTypeOK
<1> QED BY <1>2, <1>3, <1>4

LEMMA HoldBackKeeps ==
  ASSUME IntakeInv, NEW h \in Handler, NEW s \in Signal, HoldBack(h, s)
  PROVE  IntakeInv'
<1>1. /\ On(h, s, "dispatch") /\ UNCHANGED <<copy, alerts, sent, stray, unheard, left>>
      /\ Turns(s, "WAITING", "MANUAL") /\ Answers(h)
  BY DEF HoldBack
<1>2. Works(h, s) /\ intake[h].pc = "dispatch" /\ SignalFits(s)
  BY <1>1, HandlerFields DEF Work
<1>3. sent[s] <= unheard[s] /\ copy[s] = "none"
  BY <1>2 DEF SignalFits
<1>4. /\ first' \in [Signal -> [status : OrderState, mode : OrderMode, linked : BOOLEAN]]
      /\ first'[s].status = "WAITING" /\ first'[s].mode = "MANUAL" /\ \A r \in Signal \ {s} : first'[r] = first[r]
  BY <1>1, TurnsFields DEF OrderState, OrderMode
<1> QED BY <1>1, <1>2, <1>3, <1>4, StopKeeps DEF Queued, IntakeInv, IntakeTypeOK

LEMMA DispatchKeeps ==
  ASSUME IntakeInv, NEW h \in Handler, NEW s \in Signal,
         DispatchFails(h, s) \/ DispatchPlaces(h, s) \/ DispatchUnheard(h, s)
  PROVE  IntakeInv'
<1>1. SignalFits(s) /\ sent \in [Signal -> Nat] /\ unheard \in [Signal -> Nat] /\ stray \in [Signal -> Nat]
  BY DEF IntakeInv, IntakeTypeOK
<1>2. CASE DispatchFails(h, s)
  <2>1. PICK st \in {"WAITING", "REJECTED_RISK", "FAILED"} : Turns(s, st, "AUTO")
    BY <1>2 DEF DispatchFails
  <2>2. /\ On(h, s, "dispatch") /\ MovesTo(h, "raised")
        /\ UNCHANGED <<copy, alerts, sent, stray, unheard, left>>
    BY <1>2 DEF DispatchFails
  <2>3. PICK n \in HandlerState : n.pc = "raised" /\ n.on = {s} /\ intake' = [intake EXCEPT ![h] = n]
    BY <2>2, MovedHandler
  <2>4. /\ first' \in [Signal -> [status : OrderState, mode : OrderMode, linked : BOOLEAN]]
        /\ first'[s].status = st /\ first'[s].mode = "AUTO" /\ \A r \in Signal \ {s} : first'[r] = first[r]
    BY <2>1, TurnsFields DEF OrderState, OrderMode
  <2>5. Works(h, s) /\ sent[s] <= unheard[s]
    BY <1>1, <2>2, HandlerFields DEF Work, SignalFits
  <2>6. sent'[s] <= unheard'[s] /\ sent'[s] <= 1 + unheard'[s]
    BY <1>1, <2>2, <2>5
  <2>7. st # "none" /\ n.pc \in Work
    BY <2>3 DEF Work
  <2> QED BY <1>1, <2>2, <2>3, <2>4, <2>5, <2>6, <2>7, WorkKeeps
<1>3. CASE DispatchPlaces(h, s)
  <2>1. /\ On(h, s, "dispatch") /\ MovesTo(h, "record")
        /\ UNCHANGED <<first, copy, alerts, unheard, left>>
        /\ sent' = [sent EXCEPT ![s] = @ + 1] /\ stray' = [stray EXCEPT ![s] = @ + 1]
    BY <1>3 DEF DispatchPlaces
  <2>2. PICK n \in HandlerState : n.pc = "record" /\ n.on = {s} /\ intake' = [intake EXCEPT ![h] = n]
    BY <2>1, MovedHandler
  <2>3. Works(h, s) /\ sent[s] <= unheard[s] /\ first[s].status # "none" /\ first[s].mode = "AUTO"
    BY <1>1, <2>1, HandlerFields DEF Work, SignalFits
  <2>4. sent'[s] <= 1 + unheard[s] /\ sent' \in [Signal -> Nat] /\ stray' \in [Signal -> Nat]
    BY <1>1, <2>1, <2>3
  <2> QED BY <1>1, <2>1, <2>2, <2>3, <2>4, WorkKeeps DEF Work, IntakeInv, IntakeTypeOK
<1>4. CASE DispatchUnheard(h, s)
  <2>1. /\ On(h, s, "record") /\ MovesTo(h, "raised") /\ Turns(s, "FAILED", "AUTO")
        /\ UNCHANGED <<copy, alerts, sent, stray, left>>
        /\ unheard' = [unheard EXCEPT ![s] = @ + 1]
    BY <1>4 DEF DispatchUnheard
  <2>2. PICK n \in HandlerState : n.pc = "raised" /\ n.on = {s} /\ intake' = [intake EXCEPT ![h] = n]
    BY <2>1, MovedHandler
  <2>3. /\ first' \in [Signal -> [status : OrderState, mode : OrderMode, linked : BOOLEAN]]
        /\ first'[s].status = "FAILED" /\ first'[s].mode = "AUTO" /\ \A r \in Signal \ {s} : first'[r] = first[r]
    BY <2>1, TurnsFields DEF OrderState, OrderMode
  <2>4. Works(h, s) /\ sent[s] <= 1 + unheard[s]
    BY <1>1, <2>1, HandlerFields DEF Work, SignalFits
  <2>5. unheard' \in [Signal -> Nat] /\ unheard'[s] = 1 + unheard[s]
    BY <1>1, <2>1
  <2>6. sent'[s] <= unheard'[s] /\ sent'[s] <= 1 + unheard'[s]
    BY <1>1, <2>1, <2>4, <2>5
  <2> QED BY <1>1, <2>1, <2>2, <2>3, <2>4, <2>5, <2>6, WorkKeeps DEF Work
<1> QED BY <1>2, <1>3, <1>4

LEMMA DispatchRecordsKeeps ==
  ASSUME IntakeInv, NEW h \in Handler, NEW s \in Signal, DispatchRecords(h, s)
  PROVE  IntakeInv'
<1>1. /\ On(h, s, "record") /\ UNCHANGED <<copy, alerts, sent, unheard, left>> /\ Answers(h)
      /\ first' = [first EXCEPT ![s] = [status |-> "SENT", mode |-> "AUTO", linked |-> TRUE]]
      /\ stray' = [stray EXCEPT ![s] = IF @ > 0 THEN @ - 1 ELSE 0]
  BY DEF DispatchRecords
<1>2. Works(h, s) /\ SignalFits(s)
  BY <1>1, HandlerFields DEF Work
<1>3. copy[s] = "none"
  BY <1>2 DEF SignalFits
<1>4. /\ first' \in [Signal -> [status : OrderState, mode : OrderMode, linked : BOOLEAN]]
      /\ first'[s].status = "SENT" /\ first'[s].linked /\ \A r \in Signal \ {s} : first'[r] = first[r]
  BY <1>1 DEF IntakeInv, IntakeTypeOK, OrderState, OrderMode
<1>5. stray' \in [Signal -> Nat]
  BY <1>1 DEF IntakeInv, IntakeTypeOK
<1> QED BY <1>1, <1>2, <1>3, <1>4, <1>5, StopKeeps DEF Queued, IntakeInv, IntakeTypeOK

LEMMA RaisedKeeps ==
  ASSUME IntakeInv, NEW h \in Handler, NEW s \in Signal, Raise(h, s) \/ FallBack(h, s)
  PROVE  IntakeInv'
<1>1. On(h, s, "raised") /\ UNCHANGED <<copy, alerts, sent, stray, unheard>>
  BY DEF Raise, FallBack
<1>2. Works(h, s) /\ SignalFits(s) /\ intake[h].pc = "raised"
  BY <1>1, HandlerFields DEF Work
<1>3. copy[s] = "none" /\ sent[s] <= unheard[s] /\ first[s].mode = "AUTO" /\ first[s].status # "none"
  BY <1>2 DEF SignalFits
<1>4. /\ first \in [Signal -> [status : OrderState, mode : OrderMode, linked : BOOLEAN]]
      /\ copy \in [Signal -> {"none", "WAITING", "SENT", "CANCELLED"}] /\ left \subseteq Signal
      /\ sent \in [Signal -> Nat] /\ unheard \in [Signal -> Nat] /\ stray \in [Signal -> Nat]
  BY DEF IntakeInv, IntakeTypeOK
<1>5. ASSUME NEW st \in OrderState, Turns(s, st, "AUTO")
      PROVE  /\ first' \in [Signal -> [status : OrderState, mode : OrderMode, linked : BOOLEAN]]
             /\ first'[s].status = st /\ first'[s].mode = "AUTO" /\ \A r \in Signal \ {s} : first'[r] = first[r]
  BY <1>5, TurnsFields DEF OrderMode
<1>6. CASE Raise(h, s)
  <2>1. Answers(h) /\ left' = left \cup {s}
    BY <1>6 DEF Raise
  <2>2. first' = first \/ Turns(s, "FAILED", "AUTO")
    BY <1>6 DEF Raise
  <2>3. /\ first' \in [Signal -> [status : OrderState, mode : OrderMode, linked : BOOLEAN]]
        /\ first'[s].status # "none" /\ first'[s].mode = "AUTO" /\ \A r \in Signal \ {s} : first'[r] = first[r]
    BY <1>3, <1>4, <1>5, <2>2 DEF OrderState
  <2> QED BY <1>1, <1>2, <1>3, <1>4, <2>1, <2>3, StopKeeps DEF Queued
<1>7. CASE FallBack(h, s) /\ first[s].linked
  <2>1. first' = first /\ Answers(h) /\ left' = left
    BY <1>7 DEF FallBack
  <2> QED BY <1>1, <1>2, <1>3, <1>4, <1>7, <2>1, StopKeeps DEF Queued
<1>8. CASE FallBack(h, s) /\ ~first[s].linked
  <2>1. MovesTo(h, "requeue") /\ (first' = first \/ Turns(s, "FAILED", first[s].mode)) /\ left' = left
    BY <1>8 DEF FallBack
  <2>2. PICK n \in HandlerState : n.pc = "requeue" /\ n.on = {s} /\ intake' = [intake EXCEPT ![h] = n]
    BY <1>1, <2>1, MovedHandler
  <2>3. /\ first' \in [Signal -> [status : OrderState, mode : OrderMode, linked : BOOLEAN]]
        /\ first'[s].status # "none" /\ first'[s].mode = "AUTO" /\ \A r \in Signal \ {s} : first'[r] = first[r]
    BY <1>3, <1>4, <1>5, <2>1 DEF OrderState
  <2>4. sent'[s] <= unheard'[s] /\ sent'[s] <= 1 + unheard'[s] /\ n.pc \in Work
    BY <1>1, <1>3, <1>4, <2>2 DEF Work
  <2> QED BY <1>1, <1>2, <1>4, <2>1, <2>2, <2>3, <2>4, WorkKeeps
<1> QED BY <1>6, <1>7, <1>8

LEMMA QueueKeeps ==
  ASSUME IntakeInv, NEW h \in Handler, NEW s \in Signal, Queue(h, s)
  PROVE  IntakeInv'
<1>1. /\ On(h, s, "requeue") /\ UNCHANGED <<first, alerts, sent, stray, unheard, left>> /\ Answers(h)
      /\ copy' = [copy EXCEPT ![s] = "WAITING"]
  BY DEF Queue
<1>2. Works(h, s) /\ SignalFits(s) /\ intake[h].pc = "requeue"
  BY <1>1, HandlerFields DEF Work
<1>3. sent[s] <= unheard[s] /\ first[s].mode = "AUTO" /\ first[s].status # "none"
  BY <1>2 DEF SignalFits
<1>4. /\ copy' \in [Signal -> {"none", "WAITING", "SENT", "CANCELLED"}] /\ copy'[s] = "WAITING"
      /\ \A r \in Signal \ {s} : copy'[r] = copy[r]
  BY <1>1 DEF IntakeInv, IntakeTypeOK
<1> QED BY <1>1, <1>2, <1>3, <1>4, StopKeeps DEF Queued, IntakeInv, IntakeTypeOK

-----------------------------------------------------------------------------
(* The operator, the order sync, and the process                              *)

\* An order that leaves the queue, as an order of the broker or cancelled.
LEMMA QueueLeaves ==
  ASSUME IntakeInv, NEW s \in Signal,
         first' \in [Signal -> [status : OrderState, mode : OrderMode, linked : BOOLEAN]],
         copy' \in [Signal -> {"none", "WAITING", "SENT", "CANCELLED"}],
         sent' \in [Signal -> Nat], stray' \in [Signal -> Nat],
         UNCHANGED <<intake, alerts, unheard, left>>,
         \A r \in Signal \ {s} : first'[r] = first[r] /\ copy'[r] = copy[r] /\ sent'[r] = sent[r],
         sent'[s] <= 1 + unheard[s],
         \/ /\ copy'[s] = copy[s] /\ first[s].status # "none"
            /\ first'[s].mode = first[s].mode /\ first'[s].linked
            /\ first'[s].status = "SENT"
            /\ sent'[s] = sent[s] \/ Queued(first[s])
         \/ /\ copy'[s] = copy[s] /\ sent'[s] = sent[s] /\ Queued(first[s])
            /\ first'[s].status = "CANCELLED" /\ first'[s].mode = "MANUAL"
         \/ copy[s] = "WAITING" /\ copy'[s] \in {"SENT", "CANCELLED"} /\ first'[s] = first[s]
  PROVE  IntakeInv'
<1>1. SignalFits(s)
  BY DEF IntakeInv
<1>2. \A r \in Signal, g \in Handler : Works(g, r)' <=> Works(g, r)
  BY DEF Works
<1>3. SignalFits(s)'
  <2>1. CASE /\ copy'[s] = copy[s] /\ first[s].status # "none"
             /\ first'[s].mode = first[s].mode /\ first'[s].linked
             /\ first'[s].status = "SENT"
             /\ sent'[s] = sent[s] \/ Queued(first[s])
    <3>1. Queued(first[s]) => copy[s] = "none" /\ \A g \in Handler : ~Works(g, s)
      BY <1>1 DEF SignalFits, Queued
    <3> QED BY <1>1, <1>2, <2>1, <3>1 DEF SignalFits, Queued
  <2>2. CASE /\ copy'[s] = copy[s] /\ sent'[s] = sent[s] /\ Queued(first[s])
             /\ first'[s].status = "CANCELLED" /\ first'[s].mode = "MANUAL"
    BY <1>1, <1>2, <2>2 DEF SignalFits, Queued
  <2>3. CASE copy[s] = "WAITING" /\ copy'[s] \in {"SENT", "CANCELLED"} /\ first'[s] = first[s]
    <3>1. first[s].mode = "AUTO" /\ first[s].status # "none" /\ \A g \in Handler : ~Works(g, s)
      BY <1>1, <2>3 DEF SignalFits
    <3> QED BY <1>1, <1>2, <2>3, <3>1 DEF SignalFits, Queued
  <2> QED BY <2>1, <2>2, <2>3
<1>4. ASSUME NEW r \in Signal, r # s
      PROVE  SignalFits(r)'
  <2>1. first'[r] = first[r] /\ copy'[r] = copy[r] /\ sent'[r] = sent[r]
    BY <1>4
  <2>2. SignalFits(r)
    BY DEF IntakeInv
  <2> QED BY <1>2, <2>1, <2>2 DEF SignalFits, Queued
<1>5. IntakeTypeOK'
  BY DEF IntakeInv, IntakeTypeOK
<1> QED BY <1>3, <1>4, <1>5 DEF IntakeInv

LEMMA OperatorKeeps ==
  ASSUME IntakeInv, NEW s \in Signal, OperatorExecutes(s) \/ OperatorCancels(s) \/ SyncLinks(s)
  PROVE  IntakeInv'
<1>1. /\ first \in [Signal -> [status : OrderState, mode : OrderMode, linked : BOOLEAN]]
      /\ copy \in [Signal -> {"none", "WAITING", "SENT", "CANCELLED"}]
      /\ sent \in [Signal -> Nat] /\ unheard \in [Signal -> Nat] /\ stray \in [Signal -> Nat]
  BY DEF IntakeInv, IntakeTypeOK
<1>2. /\ Queued(first[s]) \/ copy[s] = "WAITING" => sent[s] <= unheard[s]
      /\ sent[s] <= 1 + unheard[s]
  BY DEF IntakeInv, SignalFits
<1>3. CASE OperatorExecutes(s)
  <2>1. /\ sent' = [sent EXCEPT ![s] = @ + 1] /\ UNCHANGED <<intake, alerts, stray, unheard, left>>
        /\ \/ /\ Queued(first[s]) /\ copy' = copy
              /\ first' = [first EXCEPT ![s].status = "SENT", ![s].linked = TRUE]
           \/ copy[s] = "WAITING" /\ copy' = [copy EXCEPT ![s] = "SENT"] /\ first' = first
    BY <1>3 DEF OperatorExecutes
  <2>2. /\ sent' \in [Signal -> Nat] /\ \A r \in Signal \ {s} : sent'[r] = sent[r]
        /\ sent'[s] <= 1 + unheard[s]
    BY <1>1, <1>2, <2>1
  <2>3. CASE Queued(first[s]) /\ copy' = copy /\ first' = [first EXCEPT ![s].status = "SENT", ![s].linked = TRUE]
    <3>1. /\ first' \in [Signal -> [status : OrderState, mode : OrderMode, linked : BOOLEAN]]
          /\ first'[s].status = "SENT" /\ first'[s].linked /\ first'[s].mode = first[s].mode
          /\ \A r \in Signal \ {s} : first'[r] = first[r]
      BY <1>1, <2>3 DEF OrderState
    <3>2. first[s].status # "none"
      BY <2>3 DEF Queued
    <3> QED BY <1>1, <2>1, <2>2, <2>3, <3>1, <3>2, QueueLeaves
  <2>4. CASE copy[s] = "WAITING" /\ copy' = [copy EXCEPT ![s] = "SENT"] /\ first' = first
    BY <1>1, <2>1, <2>2, <2>4, QueueLeaves
  <2> QED BY <2>1, <2>3, <2>4
<1>4. CASE OperatorCancels(s)
  <2>1. /\ UNCHANGED <<intake, alerts, sent, stray, unheard, left>>
        /\ \/ Queued(first[s]) /\ Turns(s, "CANCELLED", "MANUAL") /\ copy' = copy
           \/ copy[s] = "WAITING" /\ copy' = [copy EXCEPT ![s] = "CANCELLED"] /\ first' = first
    BY <1>4 DEF OperatorCancels
  <2>2. CASE Queued(first[s]) /\ Turns(s, "CANCELLED", "MANUAL") /\ copy' = copy
    <3>1. /\ first' \in [Signal -> [status : OrderState, mode : OrderMode, linked : BOOLEAN]]
          /\ first'[s].status = "CANCELLED" /\ first'[s].mode = "MANUAL"
          /\ \A r \in Signal \ {s} : first'[r] = first[r]
      BY <2>2, TurnsFields DEF OrderState, OrderMode
    <3> QED BY <1>1, <1>2, <2>1, <2>2, <3>1, QueueLeaves
  <2>3. CASE copy[s] = "WAITING" /\ copy' = [copy EXCEPT ![s] = "CANCELLED"] /\ first' = first
    BY <1>1, <1>2, <2>1, <2>3, QueueLeaves
  <2> QED BY <2>1, <2>2, <2>3
<1>5. CASE SyncLinks(s)
  <2>1. /\ UNCHANGED <<intake, alerts, sent, unheard, left>>
        /\ stray[s] > 0 /\ stray' = [stray EXCEPT ![s] = @ - 1]
        /\ \/ /\ first[s].status = "WAITING" /\ copy' = copy
              /\ first' = [first EXCEPT ![s].status = "SENT", ![s].linked = TRUE]
           \/ copy[s] = "WAITING" /\ copy' = [copy EXCEPT ![s] = "SENT"] /\ first' = first
    BY <1>5 DEF SyncLinks
  <2>2. stray' \in [Signal -> Nat]
    BY <1>1, <2>1
  <2>3. CASE /\ first[s].status = "WAITING" /\ copy' = copy
             /\ first' = [first EXCEPT ![s].status = "SENT", ![s].linked = TRUE]
    <3>1. /\ first' \in [Signal -> [status : OrderState, mode : OrderMode, linked : BOOLEAN]]
          /\ first'[s].status = "SENT" /\ first'[s].linked /\ first'[s].mode = first[s].mode
          /\ \A r \in Signal \ {s} : first'[r] = first[r]
      BY <1>1, <2>3 DEF OrderState
    <3> QED BY <1>1, <1>2, <2>1, <2>2, <2>3, <3>1, QueueLeaves
  <2>4. CASE copy[s] = "WAITING" /\ copy' = [copy EXCEPT ![s] = "SENT"] /\ first' = first
    BY <1>1, <1>2, <2>1, <2>2, <2>4, QueueLeaves
  <2> QED BY <2>1, <2>3, <2>4
<1> QED BY <1>3, <1>4, <1>5

LEMMA IntakeCrashKeeps ==
  ASSUME IntakeInv, IntakeCrash
  PROVE  IntakeInv'
<1>1. /\ intake' = [h \in Handler |-> Nobody] /\ left' = left \cup UNION {intake[h].on : h \in Handler}
      /\ UNCHANGED <<first, copy, alerts, sent, stray, unheard>>
  BY DEF IntakeCrash
<1>2. left' \subseteq Signal
  BY <1>1 DEF IntakeInv, IntakeTypeOK, HandlerState
<1>3. IntakeTypeOK'
  BY <1>1, <1>2, NobodyType DEF IntakeInv, IntakeTypeOK
<1>4. ASSUME NEW s \in Signal
      PROVE  SignalFits(s)'
  <2>1. \A h \in Handler : ~Works(h, s)'
    BY <1>1, NobodyType DEF Works, Work
  <2>2. (\E h \in Handler : Works(h, s)) => s \in left'
    BY <1>1 DEF Works
  <2>3. SignalFits(s)
    BY DEF IntakeInv
  <2> QED BY <1>1, <2>1, <2>2, <2>3 DEF SignalFits, Queued
<1> QED BY <1>3, <1>4 DEF IntakeInv

LEMMA IntakeNextKeeps ==
  ASSUME IntakeInv, [IntakeNext]_intakeVars
  PROVE  IntakeInv'
<1>1. ASSUME NEW h \in Handler, NEW s \in Signal, Receive(h, s) \/ Handle(h, s)
      PROVE  IntakeInv'
  BY <1>1, EarlyStepsKeep, StoreOrderKeeps, HoldBackKeeps, DispatchKeeps, DispatchRecordsKeeps,
     RaisedKeeps, QueueKeeps DEF Handle
<1>2. CASE \E s \in Signal : OperatorExecutes(s) \/ OperatorCancels(s) \/ SyncLinks(s)
  BY <1>2, OperatorKeeps
<1>3. CASE UNCHANGED intakeVars
  BY <1>3 DEF intakeVars, IntakeInv, IntakeTypeOK, SignalFits, Works, Queued
<1> QED BY <1>1, <1>2, <1>3, IntakeCrashKeeps DEF IntakeNext

LEMMA IntakeInvAlways == IntakeSpec => []IntakeInv
<1>1. IntakeInit => IntakeInv
  BY IntakeInitHolds
<1>2. IntakeInv /\ [IntakeNext]_intakeVars => IntakeInv'
  BY IntakeNextKeeps
<1> QED BY <1>1, <1>2, PTL DEF IntakeSpec

\* The orders of the signals, their copies and the handlers keep their types.
THEOREM SignalsTyped == IntakeSpec => []IntakeTypeOK
<1>1. IntakeInv => IntakeTypeOK
  BY DEF IntakeInv
<1> QED BY <1>1, IntakeInvAlways, PTL

\* tradingview_webhook places one order for a signal, however often and however
\* concurrently it is delivered, and one more only for an answer of the broker that
\* was lost; and a signal whose execution failed is in the waiting queue, unless its
\* handler died or its configuration has no fallback.
THEOREM SignalsHandled == IntakeSpec => []SignalsAreHandled
<1>1. IntakeInv => SignalsAreHandled
  <2>1. IntakeInv => SignalPlacedOnce
    BY DEF IntakeInv, SignalFits, SignalPlacedOnce
  <2>2. IntakeInv => SignalsAreKept
    BY DEF IntakeInv, SignalFits, SignalsAreKept, Works, Work
  <2> QED BY <2>1, <2>2 DEF SignalsAreHandled
<1> QED BY <1>1, IntakeInvAlways, PTL

-----------------------------------------------------------------------------
(* Holdings exits: the invariant                                              *)

\* The orders of subscription s among ts.
Mine(ts, s) == {i \in 1..Len(ts) : ts[i].sub = s}

\* The pass has chosen s as due, and may create its order.
Chosen(s) == pass.pc \in {"groups", "rows"} /\ s \in pass.work

\* A grant of s that no order has used up yet.
Armed(s) == subs[s].status = "ACTIVE" \/ Chosen(s)
Credit(s) == IF Armed(s) THEN 1 ELSE 0

\* Only a row without a pending order is active or chosen, and the pass that is to
\* settle a row has read its order, or one that was let go of since.
RowHolds(s) ==
  /\ subs[s].pending \in 0..Len(tickets)
  /\ subs[s].status \in {"none", "ACTIVE"} => subs[s].pending = 0
  /\ Chosen(s) => pass.view[s].status = "ACTIVE" /\ pass.view[s].pending = 0 /\ subs[s].pending = 0
  /\ pass.pc = "settle" /\ s \in pass.work =>
       pass.view[s].pending \in 1..Len(tickets) /\ subs[s].pending \in {0, pass.view[s].pending}

GrantsCover(s) == Cardinality(Mine(tickets, s)) + Credit(s) <= grants[s]

HexPass == [pc : {"idle", "settle", "groups", "rows"}, work : SUBSET Sub, view : [Sub -> Row],
            user : User \cup {NoUser}, stock : 0..Stock]
HexTyped ==
  /\ subs \in [Sub -> Row] /\ stock \in [User -> 0..Stock] /\ tickets \in Seq(Ticket)
  /\ enabled \in BOOLEAN /\ let_go \subseteq 1..Len(tickets)
  /\ pass \in HexPass /\ grants \in [Sub -> Nat]

HexInv == HexTyped /\ (\A s \in Sub : RowHolds(s) /\ GrantsCover(s)) /\ TicketsAreTracked

LEMMA MineCounts ==
  ASSUME NEW ts \in Seq(Ticket), NEW s
  PROVE  IsFiniteSet(Mine(ts, s)) /\ Cardinality(Mine(ts, s)) \in Nat
<1>1. IsFiniteSet(1..Len(ts))
  BY FS_Interval
<1>2. Mine(ts, s) \subseteq 1..Len(ts)
  BY DEF Mine
<1> QED BY <1>1, <1>2, FS_Subset, FS_CardinalityType

\* A new order counts for its own subscription.
LEMMA MineAppends ==
  ASSUME NEW ts \in Seq(Ticket), NEW t \in Ticket, NEW s
  PROVE  /\ t.sub = s => Cardinality(Mine(Append(ts, t), s)) = Cardinality(Mine(ts, s)) + 1
         /\ t.sub # s => Mine(Append(ts, t), s) = Mine(ts, s)
<1>1. /\ Len(Append(ts, t)) = Len(ts) + 1 /\ Append(ts, t)[Len(ts) + 1] = t
      /\ \A i \in 1..Len(ts) : Append(ts, t)[i] = ts[i]
  OBVIOUS
<1>2. Len(ts) \in Nat
  OBVIOUS
<1>3. CASE t.sub = s
  <2>1. Mine(Append(ts, t), s) = Mine(ts, s) \cup {Len(ts) + 1} /\ Len(ts) + 1 \notin Mine(ts, s)
    BY <1>1, <1>2, <1>3 DEF Mine
  <2> QED BY <1>3, <2>1, MineCounts, FS_AddElement
<1>4. CASE t.sub # s
  BY <1>1, <1>2, <1>4 DEF Mine
<1> QED BY <1>3, <1>4

LEMMA AbsentType == Absent \in Row /\ Absent.status = "none" /\ Absent.pending = 0
<1>1. \E t : t \in Terms
  BY TermsAssumption
<1>2. (CHOOSE t \in Terms : TRUE) \in Terms
  BY <1>1
<1> QED BY <1>2, StockAssumption DEF Absent, Row

\* A row whose order is forgotten, with its new status.
Forgets(r, st) == [r EXCEPT !.status = st, !.pending = 0]

LEMMA ForgetsFields ==
  ASSUME NEW r \in Row, NEW st \in HexStatus
  PROVE  Forgets(r, st) \in Row /\ Forgets(r, st).status = st /\ Forgets(r, st).pending = 0
<1>1. 0 \in 0..MaxTickets
  BY StockAssumption
<1> QED BY <1>1 DEF Forgets, Row

LEMMA TicketFields ==
  ASSUME HexTyped, NEW i \in 1..Len(tickets)
  PROVE  i \in Nat /\ i # 0 /\ tickets[i] \in Ticket /\ tickets[i].sub \in Sub
<1>1. tickets \in Seq(Ticket)
  BY DEF HexTyped
<1>2. tickets[i] \in Ticket /\ i \in Nat /\ i # 0
  BY <1>1
<1> QED BY <1>2 DEF Ticket

LEMMA AsleepType == HexAsleep \in HexPass /\ HexAsleep.pc = "idle" /\ HexAsleep.work = {}
BY AbsentType, StockAssumption DEF HexAsleep, HexPass

\* What a commit leaves of a row, column by column.
LEMMA SavedFields ==
  ASSUME HexTyped, NEW s \in Sub, NEW new \in Row
  PROVE  /\ Saved(s, new) \in Row
         /\ Saved(s, new).status = IF new.status # pass.view[s].status THEN new.status ELSE subs[s].status
         /\ Saved(s, new).pending = IF new.pending # pass.view[s].pending THEN new.pending ELSE subs[s].pending
<1>1. subs[s] \in Row
  BY DEF HexTyped
<1> QED BY <1>1 DEF Saved, Row

LEMMA HexInitHolds == HexInit => HexInv
<1> SUFFICES ASSUME HexInit PROVE HexInv
  OBVIOUS
<1>1. /\ tickets = <<>> /\ Len(tickets) = 0 /\ pass = HexAsleep /\ let_go = {}
      /\ subs = [s \in Sub |-> Absent] /\ grants = [s \in Sub |-> 0]
  BY DEF HexInit
<1>2. HexTyped
  BY <1>1, AbsentType, AsleepType, StockAssumption DEF HexInit, HexTyped
<1>3. ASSUME NEW s \in Sub
      PROVE  RowHolds(s) /\ GrantsCover(s)
  <2>1. Mine(tickets, s) = {}
    BY <1>1 DEF Mine
  <2>2. Cardinality(Mine(tickets, s)) = 0
    BY <2>1, FS_EmptySet
  <2>3. subs[s].status = "none" /\ subs[s].pending = 0 /\ grants[s] = 0 /\ ~Chosen(s)
    BY <1>1, AbsentType, AsleepType DEF Chosen
  <2>4. Credit(s) = 0
    BY <2>3 DEF Credit, Armed
  <2> QED BY <1>1, <2>2, <2>3, <2>4, AsleepType DEF RowHolds, GrantsCover
<1> QED BY <1>1, <1>2, <1>3 DEF HexInv, TicketsAreTracked

-----------------------------------------------------------------------------
(* One row at a time                                                          *)

\* What a step leaves alone of s.
LEMMA RowFrame ==
  ASSUME HexInv, NEW s \in Sub,
         subs'[s] = subs[s], grants'[s] = grants[s],
         Len(tickets') \in Nat, Len(tickets) <= Len(tickets'),
         Cardinality(Mine(tickets', s)) = Cardinality(Mine(tickets, s)),
         Chosen(s)' => Chosen(s) /\ pass'.view[s] = pass.view[s],
         pass'.pc = "settle" /\ s \in pass'.work =>
           pass.pc = "settle" /\ s \in pass.work /\ pass'.view[s] = pass.view[s]
  PROVE  (RowHolds(s) /\ GrantsCover(s))'
<1>1. RowHolds(s) /\ GrantsCover(s) /\ tickets \in Seq(Ticket) /\ grants[s] \in Nat
  BY DEF HexInv, HexTyped
<1>2. RowHolds(s)'
  BY <1>1 DEF RowHolds
<1>3. Credit(s)' <= Credit(s) /\ Credit(s)' \in Nat /\ Credit(s) \in Nat
  BY <1>1 DEF Credit, Armed
<1>4. Cardinality(Mine(tickets, s)) \in Nat
  BY <1>1, MineCounts
<1> QED BY <1>1, <1>2, <1>3, <1>4 DEF GrantsCover

\* A call of the user replaces one row by r.
LEMMA CallKeeps ==
  ASSUME HexInv, NEW s \in Sub, NEW r \in Row,
         subs' = [subs EXCEPT ![s] = r],
         UNCHANGED <<tickets, stock, enabled, pass>>,
         r.pending \in {0, subs[s].pending},
         r.status \in {"none", "ACTIVE"} => r.pending = 0,
         grants' \in [Sub -> Nat],
         \A q \in Sub \ {s} : grants'[q] = grants[q],
         \/ grants'[s] = grants[s] + 1
         \/ grants'[s] = grants[s] /\ (r.status = "ACTIVE" => subs[s].status = "ACTIVE"),
         let_go \subseteq let_go', let_go' \subseteq let_go \cup ({subs[s].pending} \ {0}),
         r.pending # 0 \/ subs[s].pending \in {0} \cup let_go'
  PROVE  HexInv'
<1>1. /\ subs \in [Sub -> Row] /\ tickets \in Seq(Ticket) /\ grants \in [Sub -> Nat]
      /\ RowHolds(s) /\ GrantsCover(s) /\ HexTyped /\ TicketsAreTracked
  BY DEF HexInv, HexTyped
<1>2. subs'[s] = r /\ subs' \in [Sub -> Row] /\ \A q \in Sub \ {s} : subs'[q] = subs[q]
  BY <1>1
<1>3. HexTyped'
  <2>1. let_go' \subseteq 1..Len(tickets)
    BY <1>1 DEF HexTyped, RowHolds
  <2> QED BY <1>1, <1>2, <2>1 DEF HexTyped
<1>4. RowHolds(s)'
  BY <1>1, <1>2 DEF RowHolds, Chosen
<1>5. GrantsCover(s)'
  <2>1. Cardinality(Mine(tickets, s)) \in Nat /\ Credit(s) \in {0, 1} /\ Credit(s)' \in {0, 1}
    BY <1>1, MineCounts DEF Credit
  <2>2. Chosen(s)' <=> Chosen(s)
    BY DEF Chosen
  <2>3. grants'[s] = grants[s] + 1 \/ Credit(s)' <= Credit(s)
    BY <1>2, <2>2 DEF Credit, Armed
  <2> QED BY <1>1, <2>1, <2>3 DEF GrantsCover
<1>6. ASSUME NEW q \in Sub, q # s
      PROVE  (RowHolds(q) /\ GrantsCover(q))'
  <2>1. /\ subs'[q] = subs[q] /\ grants'[q] = grants[q] /\ tickets' = tickets /\ pass' = pass
        /\ Len(tickets) \in Nat
    BY <1>1, <1>2, <1>6
  <2> QED BY <2>1, RowFrame DEF Chosen
<1>7. TicketsAreTracked'
  <2>1. ASSUME NEW i \in 1..Len(tickets), tickets[i].status = "open"
        PROVE  subs'[tickets[i].sub].pending = i \/ i \in let_go'
    <3>1. i \in Nat /\ i # 0 /\ tickets[i].sub \in Sub
      BY <1>1, TicketFields
    <3>2. subs[tickets[i].sub].pending = i \/ i \in let_go
      BY <1>1, <2>1 DEF TicketsAreTracked
    <3>3. tickets[i].sub = s \/ subs'[tickets[i].sub] = subs[tickets[i].sub]
      BY <1>2, <3>1
    <3>4. ASSUME tickets[i].sub = s, i \notin let_go
          PROVE  r.pending = i \/ i \in let_go'
      <4>1. subs[s].pending = i
        BY <3>2, <3>4
      <4> QED BY <3>1, <4>1
    <3> QED BY <1>2, <3>1, <3>2, <3>3, <3>4
  <2> QED BY <2>1 DEF TicketsAreTracked
<1> QED BY <1>3, <1>4, <1>5, <1>6, <1>7 DEF HexInv

LEMMA HexUserKeeps ==
  ASSUME HexInv, NEW s \in Sub, HexUser(s)
  PROVE  HexInv'
<1>1. /\ subs \in [Sub -> Row] /\ subs[s] \in Row /\ grants \in [Sub -> Nat] /\ RowHolds(s)
      /\ UNCHANGED <<tickets, stock, enabled, pass>>
  BY DEF HexInv, HexTyped, HexUser, HexCreate, HexPatch, HexPause, HexResume, HexDelete, Call
<1>2. CASE HexCreate(s)
  <2>1. PICK t \in Terms : subs' = [subs EXCEPT ![s] = [status |-> "ACTIVE", pending |-> 0, terms |-> t]]
    BY <1>2 DEF HexCreate
  <2> DEFINE r == [status |-> "ACTIVE", pending |-> 0, terms |-> t]
  <2>2. r \in Row /\ r.pending = 0
    BY StockAssumption DEF Row, HexStatus
  <2>3. /\ grants' \in [Sub -> Nat] /\ grants'[s] = grants[s] + 1 /\ let_go' = let_go
        /\ \A q \in Sub \ {s} : grants'[q] = grants[q]
    BY <1>1, <1>2 DEF HexCreate
  <2>4. subs[s].pending = 0
    BY <1>1, <1>2 DEF HexCreate, Exists, RowHolds
  <2> HIDE DEF r
  <2> QED BY <1>1, <2>1, <2>2, <2>3, <2>4, CallKeeps DEF r
<1>3. CASE HexPatch(s)
  <2>1. PICK t \in Terms : subs' = [subs EXCEPT ![s].terms = t]
    BY <1>3 DEF HexPatch
  <2> DEFINE r == [subs[s] EXCEPT !.terms = t]
  <2>2. r \in Row /\ r.pending = subs[s].pending /\ r.status = subs[s].status
    BY <1>1 DEF Row
  <2>3. subs' = [subs EXCEPT ![s] = r] /\ UNCHANGED <<let_go, grants>>
    BY <1>1, <1>3, <2>1 DEF HexPatch
  <2>4. r.status \in {"none", "ACTIVE"} => r.pending = 0
    BY <1>1, <1>3, <2>2 DEF HexPatch, RowHolds
  <2> HIDE DEF r
  <2> QED BY <1>1, <2>2, <2>3, <2>4, CallKeeps
<1>4. CASE HexPause(s)
  <2> DEFINE r == [subs[s] EXCEPT !.status = "PAUSED"]
  <2>2. r \in Row /\ r.pending = subs[s].pending /\ r.status = "PAUSED"
    BY <1>1 DEF Row, HexStatus
  <2>3. subs' = [subs EXCEPT ![s] = r] /\ UNCHANGED <<let_go, grants>>
    BY <1>1, <1>4 DEF HexPause
  <2> HIDE DEF r
  <2> QED BY <1>1, <2>2, <2>3, CallKeeps
<1>5. CASE HexResume(s)
  <2> DEFINE r == Forgets(subs[s], "ACTIVE")
  <2>2. r \in Row /\ r.pending = 0 /\ r.status = "ACTIVE"
    BY <1>1, ForgetsFields DEF HexStatus
  <2>3. /\ subs' = [subs EXCEPT ![s] = r] /\ let_go' = let_go \cup ({subs[s].pending} \ {0})
    BY <1>1, <1>5 DEF HexResume, LetGo, Forgets
  <2>5. /\ grants' \in [Sub -> Nat] /\ grants'[s] = grants[s] + 1
        /\ \A q \in Sub \ {s} : grants'[q] = grants[q]
    BY <1>1, <1>5 DEF HexResume
  <2> HIDE DEF r
  <2>4. /\ let_go \subseteq let_go' /\ let_go' \subseteq let_go \cup ({subs[s].pending} \ {0})
        /\ subs[s].pending \in {0} \cup let_go'
    BY <2>3
  <2> QED BY <1>1, <2>2, <2>3, <2>4, <2>5, CallKeeps
<1>6. CASE HexDelete(s)
  <2>1. subs' = [subs EXCEPT ![s] = Absent] /\ let_go' = let_go \cup ({subs[s].pending} \ {0}) /\ grants' = grants
    BY <1>6 DEF HexDelete, LetGo
  <2>2. /\ let_go \subseteq let_go' /\ let_go' \subseteq let_go \cup ({subs[s].pending} \ {0})
        /\ subs[s].pending \in {0} \cup let_go'
    BY <2>1
  <2>3. Absent \in Row /\ Absent.pending = 0 /\ Absent.status # "ACTIVE"
    BY AbsentType
  <2>4. grants' \in [Sub -> Nat] /\ grants'[s] = grants[s] /\ \A q \in Sub \ {s} : grants'[q] = grants[q]
    BY <1>1, <2>1
  <2> QED BY <1>1, <2>1, <2>2, <2>3, <2>4, CallKeeps
<1> QED BY <1>2, <1>3, <1>4, <1>5, <1>6 DEF HexUser

-----------------------------------------------------------------------------
(* The loop                                                                   *)

\* A commit of the loop without a new order: it changes no status to ACTIVE, and
\* forgets a pending order only when that has ended.
LEMMA GivesKeeps ==
  ASSUME HexInv, NEW s \in Sub, NEW new \in Row,
         Gives(s, new), s \in pass.work,
         UNCHANGED <<tickets, stock, enabled, let_go, grants>>,
         new.status \in {"none", "ACTIVE"} => new.status = pass.view[s].status,
         \/ new.pending = pass.view[s].pending
         \/ /\ new.pending = 0 /\ pass.pc = "settle"
            /\ tickets[pass.view[s].pending].status # "open"
  PROVE  HexInv'
<1>1. /\ HexTyped /\ subs \in [Sub -> Row] /\ tickets \in Seq(Ticket) /\ grants \in [Sub -> Nat]
      /\ RowHolds(s) /\ GrantsCover(s) /\ TicketsAreTracked /\ pass \in HexPass
      /\ Len(tickets) \in Nat
  BY DEF HexInv, HexTyped
<1>2. CASE ~Exists(s)
  <2>1. subs' = subs /\ pass' = HexAsleep
    BY <1>2 DEF Gives
  <2>2. HexTyped'
    BY <1>1, <2>1, AsleepType DEF HexTyped
  <2>3. ASSUME NEW q \in Sub
        PROVE  (RowHolds(q) /\ GrantsCover(q))'
    BY <1>1, <2>1, AsleepType, RowFrame DEF Chosen
  <2>4. TicketsAreTracked'
    BY <1>1, <2>1 DEF TicketsAreTracked
  <2> QED BY <2>2, <2>3, <2>4 DEF HexInv
<1>3. CASE Exists(s)
  <2>1. subs' = [subs EXCEPT ![s] = Saved(s, new)] /\ pass' = [pass EXCEPT !.work = @ \ {s}]
    BY <1>3 DEF Gives, Handled
  <2> DEFINE r == Saved(s, new)
  <2>2. /\ r \in Row
        /\ r.status = IF new.status # pass.view[s].status THEN new.status ELSE subs[s].status
        /\ r.pending = IF new.pending # pass.view[s].pending THEN new.pending ELSE subs[s].pending
    BY <1>1, SavedFields
  <2>3. subs' = [subs EXCEPT ![s] = r]
    BY <2>1
  <2> HIDE DEF r
  <2>4. subs'[s] = r /\ subs' \in [Sub -> Row] /\ \A q \in Sub \ {s} : subs'[q] = subs[q]
    BY <1>1, <2>2, <2>3
  <2>5. /\ pass' \in HexPass /\ pass'.pc = pass.pc /\ pass'.view = pass.view
        /\ pass'.work = pass.work \ {s}
    BY <1>1, <2>1 DEF HexPass
  <2>6. HexTyped'
    BY <1>1, <2>4, <2>5 DEF HexTyped
  <2>7. RowHolds(s)'
    <3>1. r.pending \in {0, subs[s].pending} /\ (r.status \in {"none", "ACTIVE"} => r.status = subs[s].status)
      BY <2>2
    <3>2. r.pending \in 0..Len(tickets) /\ (r.status \in {"none", "ACTIVE"} => r.pending = 0)
      BY <1>1, <3>1 DEF RowHolds
    <3> QED BY <2>4, <2>5, <3>2 DEF RowHolds, Chosen
  <2>8. GrantsCover(s)'
    <3>1. Cardinality(Mine(tickets, s)) \in Nat /\ Credit(s) \in {0, 1} /\ Credit(s)' \in {0, 1}
      BY <1>1, MineCounts DEF Credit
    <3>2. Armed(s)' => Armed(s)
      BY <2>2, <2>4, <2>5 DEF Armed, Chosen
    <3>3. Credit(s)' <= Credit(s)
      BY <3>2 DEF Credit
    <3>4. grants'[s] = grants[s] /\ Mine(tickets, s)' = Mine(tickets, s)
      BY DEF Mine
    <3> QED BY <1>1, <3>1, <3>3, <3>4 DEF GrantsCover
  <2>9. ASSUME NEW q \in Sub, q # s
        PROVE  (RowHolds(q) /\ GrantsCover(q))'
    <3>1. /\ subs'[q] = subs[q] /\ q \in pass'.work => q \in pass.work
      BY <2>4, <2>5, <2>9
    <3>2. subs'[q] = subs[q] /\ grants'[q] = grants[q] /\ tickets' = tickets
      BY <2>4, <2>9
    <3> QED BY <1>1, <2>5, <3>1, <3>2, RowFrame DEF Chosen
  <2>10. TicketsAreTracked'
    <3>1. ASSUME NEW i \in 1..Len(tickets), tickets[i].status = "open"
          PROVE  subs'[tickets[i].sub].pending = i \/ i \in let_go'
      <4>1. i \in Nat /\ i # 0 /\ tickets[i].sub \in Sub
        BY <1>1, TicketFields
      <4>2. subs[tickets[i].sub].pending = i \/ i \in let_go
        BY <1>1, <3>1 DEF TicketsAreTracked
      <4>3. tickets[i].sub = s \/ subs'[tickets[i].sub] = subs[tickets[i].sub]
        BY <2>4, <4>1
      <4>4. ASSUME tickets[i].sub = s, i \notin let_go
            PROVE  r.pending = i
        <5>1. subs[s].pending = i
          BY <4>2, <4>4
        <5>2. CASE new.pending = pass.view[s].pending
          BY <2>2, <5>1, <5>2
        <5>3. CASE pass.pc = "settle" /\ tickets[pass.view[s].pending].status # "open"
          <6>1. subs[s].pending \in {0, pass.view[s].pending}
            BY <1>1, <5>3 DEF RowHolds
          <6> QED BY <3>1, <4>1, <5>1, <5>3, <6>1
        <5> QED BY <5>2, <5>3
      <4> QED BY <2>4, <4>1, <4>2, <4>3, <4>4
    <3> QED BY <3>1 DEF TicketsAreTracked
  <2> QED BY <2>6, <2>7, <2>8, <2>9, <2>10 DEF HexInv
<1> QED BY <1>2, <1>3

LEMMA HexSettleKeeps ==
  ASSUME HexInv, NEW s \in Sub, HexSettle(s)
  PROVE  HexInv'
<1> DEFINE old == pass.view[s]
           st == tickets[old.pending].status
           ended == Forgets(old, Ended(st))
<1>1. /\ pass.pc = "settle" /\ s \in pass.work /\ UNCHANGED <<tickets, stock, enabled, let_go, grants>>
      /\ Gives(s, IF st = "open" THEN old ELSE ended)
  BY DEF HexSettle, LoopOnly, Forgets
<1>2. old \in Row
  BY DEF HexInv, HexTyped, HexPass
<1>3. CASE st = "open"
  BY <1>1, <1>2, <1>3, GivesKeeps
<1>4. CASE st # "open"
  <2>1. ended \in Row /\ ended.status \in {"COMPLETED", "ERROR"} /\ ended.pending = 0
    <3>1. Ended(st) \in {"COMPLETED", "ERROR"} /\ Ended(st) \in HexStatus
      BY DEF Ended, HexStatus
    <3> QED BY <1>2, <3>1, ForgetsFields
  <2> HIDE DEF ended
  <2> QED BY <1>1, <1>4, <2>1, GivesKeeps
<1> QED BY <1>3, <1>4

\* A step of the loop that changes no row and chooses none.
LEMMA HexPassKeeps ==
  ASSUME HexInv, pass' \in HexPass, enabled' \in BOOLEAN,
         UNCHANGED <<subs, tickets, stock, let_go, grants>>,
         \A s \in Sub : Chosen(s)' => Chosen(s) /\ pass'.view[s] = pass.view[s],
         pass'.pc = "settle" => pass' = pass
  PROVE  HexInv'
<1>1. HexTyped /\ tickets \in Seq(Ticket) /\ TicketsAreTracked /\ Len(tickets) \in Nat
  BY DEF HexInv, HexTyped
<1>2. HexTyped'
  BY <1>1 DEF HexTyped
<1>3. ASSUME NEW s \in Sub
      PROVE  (RowHolds(s) /\ GrantsCover(s))'
  BY <1>1, RowFrame
<1>4. TicketsAreTracked'
  BY <1>1 DEF TicketsAreTracked
<1> QED BY <1>2, <1>3, <1>4 DEF HexInv

LEMMA HexBeginKeeps ==
  ASSUME HexInv, HexBegin
  PROVE  HexInv'
<1>1. /\ HexTyped /\ TicketsAreTracked /\ pass \in HexPass /\ subs \in [Sub -> Row]
      /\ tickets \in Seq(Ticket) /\ grants \in [Sub -> Nat]
      /\ UNCHANGED <<subs, tickets, stock, enabled, let_go, grants>>
  BY DEF HexInv, HexTyped, HexBegin, LoopOnly
<1>2. /\ pass' \in HexPass /\ pass'.pc = "settle" /\ pass'.view = subs
      /\ pass'.work = {s \in Sub : subs[s].pending # 0} /\ pass.pc = "idle"
  BY <1>1 DEF HexBegin, HexPass
<1>3. HexTyped'
  BY <1>1, <1>2 DEF HexTyped
<1>4. ASSUME NEW s \in Sub
      PROVE  (RowHolds(s) /\ GrantsCover(s))'
  <2>1. RowHolds(s) /\ GrantsCover(s)
    BY DEF HexInv
  <2>2. ~Chosen(s) /\ ~Chosen(s)'
    BY <1>2 DEF Chosen
  <2>3. RowHolds(s)'
    BY <1>1, <1>2, <2>1, <2>2 DEF RowHolds
  <2>4. GrantsCover(s)'
    BY <1>1, <2>1, <2>2 DEF GrantsCover, Credit, Armed, Mine
  <2> QED BY <2>3, <2>4
<1>5. TicketsAreTracked'
  BY <1>1 DEF TicketsAreTracked
<1> QED BY <1>3, <1>4, <1>5 DEF HexInv

LEMMA HexDueKeeps ==
  ASSUME HexInv, HexDue
  PROVE  HexInv'
<1>1. /\ HexTyped /\ TicketsAreTracked /\ pass \in HexPass /\ subs \in [Sub -> Row]
      /\ tickets \in Seq(Ticket) /\ grants \in [Sub -> Nat] /\ enabled \in BOOLEAN
      /\ pass.pc = "settle" /\ UNCHANGED <<tickets, stock, enabled, let_go, grants>>
  BY DEF HexInv, HexTyped, HexDue, LoopOnly
<1>2. CASE ~enabled
  <2>1. pass' = HexAsleep /\ subs' = subs
    BY <1>1, <1>2 DEF HexDue
  <2> QED BY <1>1, <2>1, AsleepType, HexPassKeeps DEF Chosen
<1>3. CASE enabled
  <2>1. /\ pass' = [pass EXCEPT !.pc = "groups", !.view = subs, !.work = {s \in DueSubs : Owner[s] # NoUser}]
        /\ subs' = [s \in Sub |-> IF s \in DueSubs /\ Owner[s] = NoUser
                                 THEN [subs[s] EXCEPT !.status = "ERROR"] ELSE subs[s]]
    BY <1>3 DEF HexDue
  <2>2. DueSubs \subseteq Sub
    BY DEF DueSubs
  <2>3. /\ pass' \in HexPass /\ pass'.pc = "groups" /\ pass'.view = subs
        /\ pass'.work = {s \in DueSubs : Owner[s] # NoUser}
    BY <1>1, <2>1, <2>2 DEF HexPass
  <2>4. ASSUME NEW s \in Sub
        PROVE  /\ subs'[s] \in Row /\ subs'[s].pending = subs[s].pending
               /\ subs'[s].status = subs[s].status \/ (subs'[s].status = "ERROR" /\ s \notin pass'.work)
    <3>1. subs[s] \in Row
      BY <1>1
    <3> QED BY <2>1, <2>3, <3>1 DEF Row, HexStatus
  <2>5. DOMAIN subs' = Sub /\ subs' = [s \in Sub |-> subs'[s]]
    BY <2>1
  <2>6. subs' \in [Sub -> Row]
    BY <2>4, <2>5
  <2>7. HexTyped'
    BY <1>1, <2>3, <2>6 DEF HexTyped
  <2>8. ASSUME NEW s \in Sub
        PROVE  (RowHolds(s) /\ GrantsCover(s))'
    <3>1. RowHolds(s) /\ GrantsCover(s)
      BY DEF HexInv
    <3>2. Chosen(s)' => subs[s].status = "ACTIVE" /\ subs[s].pending = 0
      BY <2>3 DEF Chosen, DueSubs
    <3>3. RowHolds(s)'
      BY <1>1, <2>3, <2>4, <3>1, <3>2 DEF RowHolds
    <3>4. Armed(s)' => Armed(s)
      BY <2>4, <3>2 DEF Armed
    <3>5. Credit(s)' <= Credit(s) /\ Credit(s)' \in {0, 1} /\ Credit(s) \in {0, 1}
      BY <3>4 DEF Credit
    <3>6. grants'[s] = grants[s] /\ Mine(tickets, s)' = Mine(tickets, s) /\ Cardinality(Mine(tickets, s)) \in Nat
      BY <1>1, MineCounts DEF Mine
    <3>7. GrantsCover(s)'
      BY <1>1, <3>1, <3>5, <3>6 DEF GrantsCover
    <3> QED BY <3>3, <3>7
  <2>9. TicketsAreTracked'
    <3>1. ASSUME NEW i \in 1..Len(tickets)
          PROVE  tickets'[i] = tickets[i] /\ subs'[tickets[i].sub].pending = subs[tickets[i].sub].pending
      <4>1. tickets[i].sub \in Sub
        BY <1>1, TicketFields
      <4> QED BY <1>1, <2>4, <4>1
    <3>2. Len(tickets') = Len(tickets) /\ let_go' = let_go
      BY <1>1
    <3>3. ASSUME NEW i \in 1..Len(tickets), tickets'[i].status = "open"
          PROVE  subs'[tickets'[i].sub].pending = i \/ i \in let_go'
      BY <1>1, <3>1, <3>2, <3>3 DEF TicketsAreTracked
    <3> QED BY <3>2, <3>3 DEF TicketsAreTracked
  <2> QED BY <2>7, <2>8, <2>9 DEF HexInv
<1> QED BY <1>1, <1>2, <1>3

LEMMA HexQuietKeeps ==
  ASSUME HexInv, HexNextGroup \/ HexCrash \/ HexSwitch \/ \E u \in User : HexGroup(u)
  PROVE  HexInv'
<1>1. pass \in HexPass /\ enabled \in BOOLEAN /\ stock \in [User -> 0..Stock]
  BY DEF HexInv, HexTyped
<1>2. CASE HexCrash
  BY <1>1, <1>2, AsleepType, HexPassKeeps DEF HexCrash, Chosen
<1>3. CASE HexSwitch
  BY <1>1, <1>3, HexPassKeeps DEF HexSwitch, Chosen
<1>4. CASE HexNextGroup
  <2>1. UNCHANGED <<subs, tickets, stock, enabled, let_go, grants>>
    BY <1>4 DEF HexNextGroup, LoopOnly
  <2>2. CASE pass.pc = "rows" /\ pass' = [pass EXCEPT !.pc = "groups", !.user = NoUser, !.stock = 0]
    <3>1. /\ pass' \in HexPass /\ pass'.pc = "groups" /\ pass'.work = pass.work /\ pass'.view = pass.view
      <4>1. 0 \in 0..Stock
        BY StockAssumption
      <4> QED BY <1>1, <2>2, <4>1 DEF HexPass
    <3> QED BY <1>1, <2>1, <2>2, <3>1, HexPassKeeps DEF Chosen
  <2>3. CASE pass' = HexAsleep
    BY <1>1, <2>1, <2>3, AsleepType, HexPassKeeps DEF Chosen
  <2> QED BY <1>4, <2>2, <2>3 DEF HexNextGroup
<1>5. ASSUME NEW u \in User, HexGroup(u)
      PROVE  HexInv'
  <2>1. UNCHANGED <<subs, tickets, stock, enabled, let_go, grants>> /\ pass.pc = "groups"
    BY <1>5 DEF HexGroup, LoopOnly
  <2>2. CASE pass' = [pass EXCEPT !.work = @ \ GroupOf(u)]
    <3>1. /\ pass' \in HexPass /\ pass'.pc = "groups" /\ pass'.work \subseteq pass.work /\ pass'.view = pass.view
      BY <1>1, <2>1, <2>2 DEF HexPass
    <3> QED BY <1>1, <2>1, <3>1, HexPassKeeps DEF Chosen
  <2>3. CASE pass' = [pass EXCEPT !.pc = "rows", !.user = u, !.stock = stock[u]]
    <3>1. /\ pass' \in HexPass /\ pass'.pc = "rows" /\ pass'.work = pass.work /\ pass'.view = pass.view
      BY <1>1, <2>3 DEF HexPass
    <3> QED BY <1>1, <2>1, <3>1, HexPassKeeps DEF Chosen
  <2>4. CASE pass' = HexAsleep
    BY <1>1, <2>1, <2>4, AsleepType, HexPassKeeps DEF Chosen
  <2> QED BY <1>5, <2>2, <2>3, <2>4 DEF HexGroup
<1> QED BY <1>2, <1>3, <1>4, <1>5

LEMMA TicketEndsKeeps ==
  ASSUME HexInv, NEW i \in 1..Len(tickets), TicketEnds(i)
  PROVE  HexInv'
<1>1. /\ HexTyped /\ TicketsAreTracked /\ stock \in [User -> 0..Stock] /\ tickets \in Seq(Ticket)
      /\ UNCHANGED <<subs, enabled, pass, let_go, grants>> /\ tickets[i] \in Ticket
  BY TicketFields DEF HexInv, HexTyped, TicketEnds
<1>2. PICK st \in {"filled", "failed"} :
        /\ tickets' = [tickets EXCEPT ![i].status = st]
        /\ stock' = IF st = "failed" THEN stock
                    ELSE [stock EXCEPT ![Owner[tickets[i].sub]] =
                            IF tickets[i].qty <= @ THEN @ - tickets[i].qty ELSE 0]
  BY DEF TicketEnds
<1> DEFINE t == [tickets[i] EXCEPT !.status = st]
<1>3. t \in Ticket /\ t.sub = tickets[i].sub /\ t.status # "open"
  BY <1>1 DEF Ticket
<1>4. tickets' = [tickets EXCEPT ![i] = t]
  BY <1>2
<1> HIDE DEF t
<1>5. /\ tickets' \in Seq(Ticket) /\ Len(tickets') = Len(tickets) /\ Len(tickets) \in Nat
      /\ \A j \in 1..Len(tickets) : tickets'[j] = IF j = i THEN t ELSE tickets[j]
  BY <1>1, <1>3, <1>4
<1>6. stock' \in [User -> 0..Stock]
  <2>1. ASSUME NEW u \in User
        PROVE  (IF tickets[i].qty <= stock[u] THEN stock[u] - tickets[i].qty ELSE 0) \in 0..Stock
    <3>1. stock[u] \in 0..Stock /\ tickets[i].qty \in 1..Stock /\ Stock \in Nat
      BY <1>1, StockAssumption DEF Ticket
    <3> QED BY <3>1
  <2> DEFINE o == Owner[tickets[i].sub]
             rest == IF tickets[i].qty <= stock[o] THEN stock[o] - tickets[i].qty ELSE 0
  <2>2. stock' = stock \/ stock' = [stock EXCEPT ![o] = rest]
    BY <1>2
  <2>3. o \in User => rest \in 0..Stock
    BY <2>1
  <2> HIDE DEF rest, o
  <2> QED BY <1>1, <2>2, <2>3
<1>7. HexTyped'
  BY <1>1, <1>5, <1>6 DEF HexTyped
<1>8. ASSUME NEW s \in Sub
      PROVE  (RowHolds(s) /\ GrantsCover(s))'
  <2>1. Mine(tickets', s) = Mine(tickets, s)
    BY <1>3, <1>5 DEF Mine
  <2> QED BY <1>1, <1>5, <2>1, RowFrame DEF Chosen
<1>9. TicketsAreTracked'
  <2>1. ASSUME NEW j \in 1..Len(tickets), tickets'[j].status = "open"
        PROVE  tickets'[j] = tickets[j]
    BY <1>3, <1>5, <2>1
  <2> QED BY <1>1, <1>5, <2>1 DEF TicketsAreTracked
<1> QED BY <1>7, <1>8, <1>9 DEF HexInv

\* _compute_exit_qty does not ask for more than is held.
LEMMA ExitQtyHeld ==
  ASSUME NEW held \in Nat, NEW t \in Terms
  PROVE  ExitQty(held, t) \in Int /\ ExitQty(held, t) <= held
<1>1. t.value \in Nat /\ t.min \in Nat
  BY TermsAssumption
<1> DEFINE selling == IF t.pct THEN (held * t.value) \div 100 ELSE t.value
           least == IF selling > t.min THEN selling ELSE t.min
<1>2. selling \in Int
  <2>1. held * t.value \in Int
    BY <1>1
  <2> QED BY <1>1, <2>1
<1> HIDE DEF selling
<1>3. least \in Int
  BY <1>1, <1>2
<1>4. ExitQty(held, t) = IF least < held THEN least ELSE held
  BY DEF ExitQty, selling
<1> HIDE DEF least
<1> QED BY <1>3, <1>4

\* The row that the loop leaves behind with its new order i.
Ordered(r, i) == [r EXCEPT !.status = "ORDER_CREATED", !.pending = i]

LEMMA HexOrderKeeps ==
  ASSUME HexInv, NEW s \in Sub, s \in GroupOf(pass.user), pass.pc = "rows", Exists(s),
         NEW qty \in 1..Stock, Len(tickets) < MaxTickets,
         Gives(s, Ordered(pass.view[s], Len(tickets) + 1)),
         tickets' = Append(tickets, [sub |-> s, qty |-> qty, status |-> "open"]),
         UNCHANGED <<stock, enabled, let_go, grants>>
  PROVE  HexInv'
<1> DEFINE n == Len(tickets) + 1
           t == [sub |-> s, qty |-> qty, status |-> "open"]
           r == Saved(s, Ordered(pass.view[s], n))
<1>1. /\ HexTyped /\ subs \in [Sub -> Row] /\ tickets \in Seq(Ticket) /\ grants \in [Sub -> Nat]
      /\ RowHolds(s) /\ GrantsCover(s) /\ TicketsAreTracked /\ pass \in HexPass
      /\ Len(tickets) \in Nat /\ MaxTickets \in Nat /\ pass.view[s] \in Row
  BY StockAssumption DEF HexInv, HexTyped, HexPass
<1>2. Chosen(s) /\ pass.view[s].status = "ACTIVE" /\ pass.view[s].pending = 0 /\ subs[s].pending = 0
  BY <1>1 DEF GroupOf, Chosen, RowHolds
<1>3. t \in Ticket /\ t.sub = s
  BY DEF Ticket
<1>4. n \in 1..MaxTickets
  BY <1>1
<1>5. /\ subs' = [subs EXCEPT ![s] = r] /\ pass' = [pass EXCEPT !.work = @ \ {s}]
      /\ tickets' = Append(tickets, t)
  BY DEF Gives, Handled
<1> HIDE DEF n
<1>6. /\ Ordered(pass.view[s], n) \in Row /\ Ordered(pass.view[s], n).status = "ORDER_CREATED"
      /\ Ordered(pass.view[s], n).pending = n
  <2>1. n \in 0..MaxTickets
    BY <1>4
  <2> QED BY <1>1, <2>1 DEF Ordered, Row, HexStatus
<1>7. r \in Row /\ r.status = "ORDER_CREATED" /\ r.pending = n
  BY <1>1, <1>2, <1>4, <1>6, SavedFields
<1> HIDE DEF r, t
<1>8. /\ tickets' \in Seq(Ticket) /\ Len(tickets') = n /\ tickets'[n] = t /\ n = Len(tickets) + 1
      /\ \A i \in 1..Len(tickets) : tickets'[i] = tickets[i]
  BY <1>1, <1>3, <1>5 DEF n
<1>9. subs'[s] = r /\ subs' \in [Sub -> Row] /\ \A q \in Sub \ {s} : subs'[q] = subs[q]
  BY <1>1, <1>5, <1>7
<1>10. /\ pass' \in HexPass /\ pass'.pc = "rows" /\ pass'.view = pass.view /\ pass'.work = pass.work \ {s}
  BY <1>1, <1>5 DEF HexPass
<1>11. HexTyped'
  BY <1>1, <1>8, <1>9, <1>10 DEF HexTyped
<1>12. RowHolds(s)'
  BY <1>4, <1>7, <1>8, <1>9, <1>10 DEF RowHolds, Chosen
<1>13. GrantsCover(s)'
  <2>1. ~Armed(s)'
    BY <1>7, <1>9, <1>10 DEF Armed, Chosen
  <2>2. Credit(s)' = 0 /\ Credit(s) = 1
    BY <1>2, <2>1 DEF Credit, Armed
  <2>3. Cardinality(Mine(tickets', s)) = Cardinality(Mine(tickets, s)) + 1
    BY <1>1, <1>3, <1>5, MineAppends
  <2>4. Cardinality(Mine(tickets, s)) \in Nat
    BY <1>1, MineCounts
  <2> QED BY <1>1, <2>2, <2>3, <2>4 DEF GrantsCover
<1>14. ASSUME NEW q \in Sub, q # s
       PROVE  (RowHolds(q) /\ GrantsCover(q))'
  <2>1. Mine(tickets', q) = Mine(tickets, q)
    BY <1>1, <1>3, <1>5, <1>14, MineAppends
  <2>2. subs'[q] = subs[q] /\ grants'[q] = grants[q] /\ Len(tickets') \in Nat /\ Len(tickets) <= Len(tickets')
    BY <1>1, <1>8, <1>9, <1>14
  <2>3. Chosen(q)' => Chosen(q) /\ pass'.view[q] = pass.view[q]
    BY <1>10, <1>2 DEF Chosen
  <2> QED BY <1>10, <2>1, <2>2, <2>3, RowFrame
<1>15. TicketsAreTracked'
  <2>1. ASSUME NEW i \in 1..Len(tickets'), tickets'[i].status = "open"
        PROVE  subs'[tickets'[i].sub].pending = i \/ i \in let_go'
    <3>1. CASE i = n
      BY <1>3, <1>7, <1>8, <1>9, <3>1
    <3>2. CASE i \in 1..Len(tickets)
      <4>1. i \in Nat /\ i # 0 /\ tickets[i].sub \in Sub
        BY <1>1, <3>2, TicketFields
      <4>2. subs[tickets[i].sub].pending = i \/ i \in let_go
        BY <1>1, <1>8, <2>1, <3>2 DEF TicketsAreTracked
      <4>3. tickets[i].sub # s \/ i \in let_go
        BY <1>2, <4>1, <4>2
      <4> QED BY <1>8, <1>9, <3>2, <4>1, <4>2, <4>3
    <3> QED BY <1>1, <1>8, <3>1, <3>2
  <2> QED BY <2>1 DEF TicketsAreTracked
<1> QED BY <1>11, <1>12, <1>13, <1>14, <1>15 DEF HexInv

LEMMA HexEvaluateKeeps ==
  ASSUME HexInv, NEW s \in Sub, HexEvaluate(s)
  PROVE  HexInv'
<1> DEFINE old == pass.view[s]
           qty == ExitQty(pass.stock, old.terms)
<1>1. /\ pass \in HexPass /\ old \in Row /\ RowHolds(s) /\ Chosen(s) /\ s \in pass.work
      /\ pass.pc = "rows" /\ s \in GroupOf(pass.user) /\ UNCHANGED <<stock, enabled, let_go, grants>>
      /\ old.status = "ACTIVE" /\ old.pending = 0
  BY DEF HexInv, HexTyped, HexPass, HexEvaluate, LoopOnly, RowHolds, Chosen, GroupOf
<1>2. ASSUME NEW st \in {"COMPLETED", "ERROR"}, Gives(s, [old EXCEPT !.status = st]), tickets' = tickets
      PROVE  HexInv'
  <2> DEFINE new == [old EXCEPT !.status = st]
  <2>1. new \in Row /\ new.status = st /\ new.pending = old.pending
    BY <1>1 DEF Row, HexStatus
  <2> HIDE DEF new
  <2> QED BY <1>1, <1>2, <2>1, GivesKeeps DEF new
<1>3. CASE Gives(s, old) /\ tickets' = tickets
  BY <1>1, <1>3, GivesKeeps
<1>4. CASE /\ qty > 0 /\ Len(tickets) < MaxTickets
           /\ Gives(s, Ordered(old, Len(tickets) + 1))
           /\ tickets' = IF Exists(s)
                         THEN Append(tickets, [sub |-> s, qty |-> qty, status |-> "open"])
                         ELSE tickets
  <2>1. CASE Exists(s)
    <3>1. qty \in 1..Stock
      <4>1. pass.stock \in 0..Stock /\ Stock \in Nat /\ old.terms \in Terms
        BY <1>1, StockAssumption DEF HexPass, Row
      <4>2. qty \in Int /\ qty <= pass.stock
        BY <4>1, ExitQtyHeld
      <4> QED BY <1>4, <4>1, <4>2
    <3> HIDE DEF qty
    <3> QED BY <1>1, <1>4, <2>1, <3>1, HexOrderKeeps
  <2>2. CASE ~Exists(s)
    <3>1. subs' = subs /\ pass' = HexAsleep /\ tickets' = tickets /\ enabled \in BOOLEAN
      BY <1>4, <2>2 DEF Gives, HexInv, HexTyped
    <3> QED BY <1>1, <3>1, AsleepType, HexPassKeeps DEF Chosen
  <2> QED BY <2>1, <2>2
<1>5. \/ \E st \in {"COMPLETED", "ERROR"} : Gives(s, [old EXCEPT !.status = st]) /\ tickets' = tickets
      \/ Gives(s, old) /\ tickets' = tickets
      \/ /\ qty > 0 /\ Len(tickets) < MaxTickets
         /\ Gives(s, Ordered(old, Len(tickets) + 1))
         /\ tickets' = IF Exists(s)
                       THEN Append(tickets, [sub |-> s, qty |-> qty, status |-> "open"])
                       ELSE tickets
  BY DEF HexEvaluate, Ordered
<1> QED BY <1>2, <1>3, <1>4, <1>5

LEMMA HexNextKeeps ==
  ASSUME HexInv, [HexNext]_hexVars
  PROVE  HexInv'
<1>1. CASE UNCHANGED hexVars
  <2>1. /\ pass \in HexPass /\ enabled \in BOOLEAN
        /\ UNCHANGED <<subs, tickets, stock, let_go, grants, pass, enabled>>
    BY <1>1 DEF hexVars, HexInv, HexTyped
  <2> QED BY <2>1, HexPassKeeps DEF Chosen
<1>2. CASE HexLoop
  BY <1>2, HexBeginKeeps, HexDueKeeps, HexQuietKeeps, HexSettleKeeps, HexEvaluateKeeps DEF HexLoop
<1> QED BY <1>1, <1>2, HexUserKeeps, HexQuietKeeps, TicketEndsKeeps DEF HexNext

\* Whatever the fairness of the loop.
LEMMA HexInvHolds == HexInit /\ [][HexNext]_hexVars => []HexInv
<1>1. HexInit => HexInv
  BY HexInitHolds
<1>2. HexInv /\ [HexNext]_hexVars => HexInv'
  BY HexNextKeeps
<1> QED BY <1>1, <1>2, PTL

LEMMA HexInvAlways == HexSpec => []HexInv
BY HexInvHolds, PTL DEF HexSpec

LEMMA HexInvTypes == HexInv => HexTypeOK
BY DEF HexInv, HexTyped, HexTypeOK, HexPass

\* The subscriptions, their orders and the pass of the loop keep their types.
THEOREM HexTypes == HexSpec => []HexTypeOK
BY HexInvTypes, HexInvAlways, PTL

\* However process_holdings_exit_once, its crashes and the calls of the users
\* interleave, a subscription sells once per creation or Resume, and an order that
\* has not ended is the one its subscription waits for, or one the user let go of.
THEOREM GrantsAreCovered == HexSpec => []GrantsGiveTickets
<1>1. HexInv => OneTicketPerGrant
  <2>1. ASSUME HexInv, NEW s \in Sub
        PROVE  Cardinality({i \in 1..Len(tickets) : tickets[i].sub = s}) <= grants[s]
    <3>1. GrantsCover(s) /\ tickets \in Seq(Ticket) /\ grants[s] \in Nat
      BY <2>1 DEF HexInv, HexTyped
    <3>2. Cardinality(Mine(tickets, s)) \in Nat /\ Credit(s) \in {0, 1}
      BY <3>1, MineCounts DEF Credit
    <3> QED BY <3>1, <3>2 DEF GrantsCover, Mine
  <2> QED BY <2>1 DEF OneTicketPerGrant
<1>2. HexInv => GrantsGiveTickets
  BY <1>1 DEF HexInv, GrantsGiveTickets
<1> QED BY <1>2, HexInvAlways, PTL

-----------------------------------------------------------------------------
(* The inductive invariant                                                    *)

\* What a task of each kind may hold: a sync the orders it has staged, of which it
\* adds those that are filled; a postback handler one order; a paper task nothing.
SyncShape(k) ==
  /\ k.pc \in {"idle", "fetched", "visiting"}
  /\ k.todo \subseteq Live /\ k.staged \subseteq Live /\ k.todo \cap k.staged = {}
  /\ k.adds = {o \in k.staged : MapStatus(k.snap[o]) = "EXECUTED"}
  /\ k.pc # "visiting" => k.staged = {}
PostShape(k) ==
  /\ k.pc \in {"idle", "set", "book", "end"} /\ k.staged = {}
  /\ k.todo \subseteq Live /\ k.adds \subseteq Live
  /\ k.pc = "end" => k.todo = {}
  /\ k.pc # "end" => k.adds = {}
PollShape(k) ==
  /\ k.pc \in {"idle", "visiting", "book", "end"} /\ k.staged = {} /\ k.adds = {}
  /\ k.todo \subseteq Paper
  /\ k.pc = "visiting" => \A o \in k.todo : k.read[o] = "SENT"
Shape(t, k) == /\ t \in Sync => SyncShape(k)
               /\ t \in Post => PostShape(k)
               /\ t \in Poll => PollShape(k)

\* The task has turned o EXECUTED and has not booked it yet.
Turned(k, o) == \/ k.pc = "book" /\ o \in k.todo
                \/ k.pc = "end" /\ o \in k.adds

\* The task may turn o EXECUTED, and book it.
WillTurn(k, o) ==
  \/ k.pc = "visiting" /\ (o \in k.adds \/ (o \in k.todo /\ k.read[o] # "EXECUTED"))
  \/ k.pc = "set" /\ o \in k.todo /\ MapStatus(k.snap[o]) = "EXECUTED"

\* A task that may turn o is in time, unless it has been noted as late.
InTime(k, ord) == \A o \in Order : WillTurn(k, o) /\ o \notin k.late => ord[o] # "EXECUTED"

\* What a task knows or holds of a fill is a fill at the broker.
Genuine(k, br) ==
  \A o \in Live : k.snap[o] = "COMPLETE" \/ o \in k.adds \/ (k.pc = "book" /\ o \in k.todo)
                  => br[o] = "COMPLETE"

\* A paper task is past the submission of the orders it works on.
Submitted(t, k, ord, bk) ==
  t \in Poll => /\ k.pc = "visiting" => \A o \in k.todo : ord[o] # "WAITING"
                /\ k.pc = "end" => \A o \in k.todo : bk[o] > 0

Holds(t, k, ord, br, bk) ==
  Shape(t, k) /\ InTime(k, ord) /\ Genuine(k, br) /\ Submitted(t, k, ord, bk)

\* Each turn to EXECUTED gives one booking, made or to come; and another turn needs
\* that the order is not EXECUTED, or a task that comes late.
Booking(o) == {t \in Task : Turned(task[t], o)}
Turnable(status) == IF status = "EXECUTED" THEN 0 ELSE 1
Once(o) == booked[o] + Cardinality(Booking(o)) + Turnable(order[o]) <= 1 + reopened[o] + raced[o]

\* Without an overlap one task holds bookings, and it has read the quantity as it is.
MemberFits ==
  /\ IsFiniteSet(Bookings)
  /\ ~overlap => /\ member = Cardinality(Bookings)
                 /\ \A t, u \in Task : task[t].adds # {} /\ task[u].adds # {} => t = u
                 /\ \A t \in Task : task[t].adds # {} => task[t].base = member

BrokerFits ==
  \A o \in Live : booked[o] > 0 \/ <<o, "COMPLETE">> \in mail => broker[o] = "COMPLETE"

\* The task is at work on the effects of a report that o is filled.
Explains(t, k, o) ==
  t \in Post \cup Poll /\ k.pc \in {"book", "end"} /\ o \in k.todo \cup k.adds

FillInv ==
  /\ FillTypeOK /\ (\A t \in Task : Holds(t, task[t], order, broker, booked))
  /\ (\A o \in Order : Once(o))
  /\ BrokerFits /\ LossesExplained /\ MemberFits

-----------------------------------------------------------------------------
(* Counting                                                                   *)

\* Whether t belongs to a set is all that the set's size depends on when the
\* rest of it stays.
LEMMA OneApart ==
  ASSUME NEW S, NEW R, NEW t, IsFiniteSet(S), IsFiniteSet(R), S \ {t} = R \ {t}
  PROVE  /\ Cardinality(S) \in Nat /\ Cardinality(R) \in Nat
         /\ t \in S /\ t \in R => Cardinality(R) = Cardinality(S)
         /\ t \notin S /\ t \notin R => Cardinality(R) = Cardinality(S)
         /\ t \in S /\ t \notin R => Cardinality(R) = Cardinality(S) - 1
         /\ t \notin S /\ t \in R => Cardinality(R) = Cardinality(S) + 1
<1>1. /\ Cardinality(S \ {t}) = IF t \in S THEN Cardinality(S) - 1 ELSE Cardinality(S)
      /\ Cardinality(R \ {t}) = IF t \in R THEN Cardinality(R) - 1 ELSE Cardinality(R)
  BY FS_RemoveElement
<1>2. Cardinality(S) \in Nat /\ Cardinality(R) \in Nat
  BY FS_CardinalityType
<1> QED BY <1>1, <1>2

LEMMA BookingFinite ==
  ASSUME NEW o
  PROVE  IsFiniteSet(Booking(o)) /\ Cardinality(Booking(o)) \in Nat
<1>1. Booking(o) \in SUBSET Task
  BY DEF Booking
<1>2. IsFiniteSet(Task)
  BY TaskAssumption
<1> QED BY <1>1, <1>2, FS_Subset, FS_CardinalityType

LEMMA BookingFinitePrime ==
  ASSUME NEW o
  PROVE  IsFiniteSet(Booking(o)') /\ Cardinality(Booking(o)') \in Nat
<1>1. Booking(o)' \in SUBSET Task
  BY DEF Booking
<1>2. IsFiniteSet(Task)
  BY TaskAssumption
<1> QED BY <1>1, <1>2, FS_Subset, FS_CardinalityType

LEMMA BumpType ==
  ASSUME NEW f \in [Order -> Nat], NEW S
  PROVE  /\ Bump(f, S) \in [Order -> Nat]
         /\ \A o \in Order : Bump(f, S)[o] = IF o \in S THEN f[o] + 1 ELSE f[o]
BY DEF Bump

\* A commit of S adds as many bookings as S has orders.
LEMMA BookingsGrow ==
  ASSUME NEW S \in SUBSET Order, booked \in [Order -> Nat], booked' = Bump(booked, S),
         IsFiniteSet(Bookings)
  PROVE  /\ IsFiniteSet(Bookings') /\ Cardinality(S) \in Nat /\ Cardinality(Bookings) \in Nat
         /\ Cardinality(Bookings') = Cardinality(Bookings) + Cardinality(S)
<1> DEFINE new == {<<o, booked[o] + 1>> : o \in S}
<1>1. IsFiniteSet(S)
  BY FS_Subset, OrderAssumption
<1>2. IsFiniteSet(new) /\ Cardinality(new) = Cardinality(S)
  <2> DEFINE f == [o \in S |-> <<o, booked[o] + 1>>]
  <2>1. f \in [S -> new]
    OBVIOUS
  <2>2. \A o, p \in S : f[o] = f[p] => o = p
    OBVIOUS
  <2>3. \A x \in new : \E o \in S : f[o] = x
    OBVIOUS
  <2> HIDE DEF f, new
  <2>4. f \in Bijection(S, new)
    BY <2>1, <2>2, <2>3 DEF Bijection, Injection, Surjection, IsInjective
  <2>5. ExistsBijection(S, new)
    BY <2>4 DEF ExistsBijection
  <2> QED BY <1>1, <2>5, FS_Bijection
<1>3. \A x : x \in Bookings <=> \E o \in Order, i \in Nat : x = <<o, i>> /\ 1 <= i /\ i <= booked[o]
  BY DEF Bookings
<1>4. \A x : x \in Bookings' <=> \E o \in Order, i \in Nat : x = <<o, i>> /\ 1 <= i /\ i <= booked'[o]
  <2>1. booked' \in [Order -> Nat]
    BY BumpType
  <2> QED BY <2>1 DEF Bookings
<1>5. \A o \in Order : booked'[o] = IF o \in S THEN booked[o] + 1 ELSE booked[o]
  BY BumpType
<1>6. Bookings' = Bookings \cup new
  BY <1>3, <1>4, <1>5
<1>7. Bookings \cap new = {}
  BY <1>3
<1> HIDE DEF new
<1>8. /\ IsFiniteSet(Bookings \cup new)
      /\ Cardinality(Bookings \cup new) = Cardinality(Bookings) + Cardinality(new)
                                            - Cardinality(Bookings \cap new)
  BY <1>2, FS_Union
<1>9. /\ Cardinality(Bookings \cap new) = 0
      /\ Cardinality(S) \in Nat /\ Cardinality(Bookings) \in Nat
  BY <1>1, <1>7, FS_EmptySet, FS_CardinalityType
<1>10. Cardinality(Bookings \cup new) = Cardinality(Bookings) + Cardinality(S)
  BY <1>2, <1>8, <1>9
<1> QED BY <1>6, <1>8, <1>9, <1>10

-----------------------------------------------------------------------------
(* The records of tasks                                                       *)

LEMMA TaskFields ==
  ASSUME NEW k \in TaskState
  PROVE  /\ k.pc \in Pc /\ k.snap \in [Live -> BrokerState] /\ k.read \in [Order -> Status]
         /\ k.todo \subseteq Order /\ k.staged \subseteq Order /\ k.adds \subseteq Order
         /\ k.late \subseteq Order /\ k.base \in Nat /\ k.flushed \in BOOLEAN
BY DEF TaskState

LEMMA MapStatusFits ==
  ASSUME NEW state \in BrokerState
  PROVE  /\ MapStatus(state) \in Status /\ MapStatus(state) # "WAITING"
         /\ MapStatus(state) = "EXECUTED" <=> state = "COMPLETE"
BY DEF BrokerState, MapStatus, Status

LEMMA IdleFields ==
  /\ Idle \in TaskState
  /\ Idle.pc = "idle" /\ Idle.todo = {} /\ Idle.staged = {} /\ Idle.adds = {} /\ Idle.late = {}
  /\ Idle.base = 0 /\ \A o \in Live : Idle.snap[o] = "OPEN"
<1>1. Fresh \in [Order -> Status]
  BY DEF Fresh, Status
<1>2. [o \in Live |-> "OPEN"] \in [Live -> BrokerState]
  BY DEF BrokerState
<1> DEFINE sn == [o \in Live |-> "OPEN"]
<1>3. 0 \in Nat /\ "idle" \in Pc
  BY DEF Pc
<1>4. Idle = [pc |-> "idle", snap |-> sn, read |-> Fresh, todo |-> {},
              staged |-> {}, adds |-> {}, late |-> {}, base |-> 0, flushed |-> FALSE]
  BY DEF Idle
<1>5. \A o \in Live : sn[o] = "OPEN"
  OBVIOUS
<1>6. sn \in [Live -> BrokerState]
  BY <1>2
<1> HIDE DEF sn
<1> QED BY <1>1, <1>3, <1>4, <1>5, <1>6 DEF TaskState

LEMMA IdleHolds ==
  ASSUME NEW t \in Task, NEW ord, NEW br, NEW bk
  PROVE  /\ Holds(t, Idle, ord, br, bk)
         /\ \A o : ~Turned(Idle, o)
<1>1. Shape(t, Idle)
  BY IdleFields DEF Shape, SyncShape, PostShape, PollShape
<1>2. InTime(Idle, ord)
  BY IdleFields DEF InTime, WillTurn
<1>3. Genuine(Idle, br)
  BY IdleFields DEF Genuine
<1>4. Submitted(t, Idle, ord, bk)
  BY IdleFields DEF Submitted
<1>5. \A o : ~Turned(Idle, o)
  BY IdleFields DEF Turned
<1> QED BY <1>1, <1>2, <1>3, <1>4, <1>5 DEF Holds

\* m is k, but that the orders X have made it late.
Overtaken(k, m, X) ==
  /\ m.pc = k.pc /\ m.snap = k.snap /\ m.read = k.read /\ m.todo = k.todo
  /\ m.staged = k.staged /\ m.adds = k.adds /\ m.base = k.base
  /\ m.late = k.late \cup (X \cap (k.todo \cup k.staged))

LEMMA OvertakesFields ==
  ASSUME NEW X \in SUBSET Order, NEW u \in Task, task \in [Task -> TaskState]
  PROVE  Overtakes(X, u) \in TaskState /\ Overtaken(task[u], Overtakes(X, u), X)
<1>1. task[u] \in TaskState
  OBVIOUS
<1> QED BY <1>1 DEF Overtakes, Overtaken, TaskState

-----------------------------------------------------------------------------
(* What a step has to show                                                    *)

LEMMA LossesAre ==
  LossesExplained <=> \A o \in Order : order[o] = "EXECUTED" /\ booked[o] = 0 =>
                        o \in dropped \/ \E t \in Task : Explains(t, task[t], o)
BY DEF LossesExplained, Explains, Task

LEMMA LossesArePrime ==
  LossesExplained' <=> \A o \in Order : order'[o] = "EXECUTED" /\ booked'[o] = 0 =>
                         o \in dropped' \/ \E t \in Task : Explains(t, task'[t], o)
BY DEF LossesExplained, Explains, Task

\* What the books may do under a task k: orders that k may turn become EXECUTED only
\* if they are in X, none becomes WAITING, bookings stay.
BooksMove(X, k, ord, ord2, bk, bk2) ==
  \A o \in Order : /\ ord2[o] = "EXECUTED" /\ ord[o] # "EXECUTED" /\ WillTurn(k, o) => o \in X
                   /\ ord2[o] = "WAITING" => ord[o] = "WAITING"
                   /\ bk[o] > 0 => bk2[o] > 0

\* A task other than the moving one holds what it held: only the orders X that
\* turn EXECUTED make it late.
LEMMA OthersHold ==
  ASSUME NEW X \in SUBSET Order, NEW u \in Task, NEW k \in TaskState, NEW m \in TaskState,
         Overtaken(k, m, X),
         NEW ord, NEW ord2, NEW br, NEW bk, NEW bk2, Holds(u, k, ord, br, bk),
         BooksMove(X, k, ord, ord2, bk, bk2)
  PROVE  /\ Holds(u, m, ord2, br, bk2)
         /\ \A o : Turned(m, o) <=> Turned(k, o)
         /\ \A o : Explains(u, m, o) <=> Explains(u, k, o)
<1>0. /\ m.pc = k.pc /\ m.snap = k.snap /\ m.read = k.read /\ m.todo = k.todo
      /\ m.staged = k.staged /\ m.adds = k.adds
      /\ m.late = k.late \cup (X \cap (k.todo \cup k.staged))
  BY DEF Overtaken
<1>1. Shape(u, m)
  <2>1. Shape(u, k)
    BY DEF Holds
  <2> QED BY <1>0, <2>1 DEF Shape, SyncShape, PostShape, PollShape
<1>2. \A o : Turned(m, o) <=> Turned(k, o)
  BY <1>0 DEF Turned
<1>3. \A o : Explains(u, m, o) <=> Explains(u, k, o)
  BY <1>0 DEF Explains
<1>4. \A o : WillTurn(m, o) <=> WillTurn(k, o)
  BY <1>0 DEF WillTurn
<1>5. InTime(m, ord2)
  <2> SUFFICES ASSUME NEW o \in Order, WillTurn(m, o), o \notin m.late, ord2[o] = "EXECUTED"
               PROVE  FALSE
    BY DEF InTime
  <2>1. WillTurn(k, o) /\ o \notin k.late
    BY <1>0, <1>4
  <2>2. ord[o] # "EXECUTED"
    BY <2>1 DEF Holds, InTime
  <2>3. o \in X
    BY <2>1, <2>2 DEF BooksMove
  <2>4. o \in k.todo \cup k.staged
    <3>1. u \in Sync \/ u \in Post \/ u \in Poll
      BY DEF Task
    <3>2. k.pc = "visiting" => k.adds \subseteq k.staged
      BY <3>1 DEF Holds, Shape, SyncShape, PostShape, PollShape
    <3> QED BY <2>1, <3>2 DEF WillTurn
  <2> QED BY <1>0, <2>1, <2>3, <2>4
<1>6. Genuine(m, br)
  <2>1. Genuine(k, br)
    BY DEF Holds
  <2> QED BY <1>0, <2>1 DEF Genuine
<1>7. Submitted(u, m, ord2, bk2)
  <2>1. Submitted(u, k, ord, bk) /\ Shape(u, k)
    BY DEF Holds
  <2>2. u \in Poll => k.todo \subseteq Order
    BY TaskFields
  <2> QED BY <1>0, <2>1, <2>2 DEF Submitted, BooksMove
<1> QED BY <1>1, <1>2, <1>3, <1>5, <1>6, <1>7 DEF Holds

\* A task moves, and orders X turn EXECUTED under the eyes of others: each turn has
\* its booking, each loss its explanation.
LEMMA StepKeeps ==
  ASSUME FillInv, FillTypeOK', NEW t \in Task, NEW X \in SUBSET Order,
         broker' = broker, BrokerFits', MemberFits', dropped \subseteq dropped',
         \A u \in Task \ {t} : Overtaken(task[u], task'[u], X),
         Holds(t, task'[t], order', broker', booked'),
         \A o \in Order : \A u \in Task \ {t} :
           order'[o] = "EXECUTED" /\ order[o] # "EXECUTED" /\ WillTurn(task[u], o) => o \in X,
         \A o \in Order : order'[o] = "WAITING" => order[o] = "WAITING",
         \A o \in Order : booked'[o] >= booked[o],
         \A o \in Order :
           booked'[o] + (IF Turned(task'[t], o) THEN 1 ELSE 0) + Turnable(order'[o])
                      + reopened[o] + raced[o]
             <= booked[o] + (IF Turned(task[t], o) THEN 1 ELSE 0) + Turnable(order[o])
                      + reopened'[o] + raced'[o],
         \A o \in Order : order'[o] = "EXECUTED" /\ booked'[o] = 0 =>
           \/ o \in dropped'
           \/ Explains(t, task'[t], o)
           \/ order[o] = "EXECUTED" /\ ~Explains(t, task[t], o)
  PROVE  FillInv'
<1>1. ASSUME NEW u \in Task \ {t}
      PROVE  /\ Holds(u, task'[u], order', broker', booked')
             /\ \A o : Turned(task'[u], o) <=> Turned(task[u], o)
             /\ \A o : Explains(u, task'[u], o) <=> Explains(u, task[u], o)
  <2>1. task \in [Task -> TaskState]
    BY DEF FillInv, FillTypeOK
  <2>2. task[u] \in TaskState /\ Holds(u, task[u], order, broker, booked)
    BY <2>1 DEF FillInv
  <2>3. task'[u] \in TaskState /\ Overtaken(task[u], task'[u], X)
    BY DEF FillTypeOK
  <2>4. \A o \in Order : booked[o] > 0 => booked'[o] > 0
    BY DEF FillInv, FillTypeOK
  <2>5. Holds(u, task[u], order, broker', booked)
    BY <2>2
  <2>6. BooksMove(X, task[u], order, order', booked, booked')
    BY <2>4 DEF BooksMove
  <2> QED BY <2>2, <2>3, <2>4, <2>5, <2>6, OthersHold
<1>2. \A u \in Task : Holds(u, task'[u], order', broker', booked')
  BY <1>1
<1>3. ASSUME NEW o \in Order PROVE Once(o)'
  <2>1. Booking(o) \ {t} = Booking(o)' \ {t}
    BY <1>1 DEF Booking
  <2>2. /\ IsFiniteSet(Booking(o)) /\ IsFiniteSet(Booking(o)')
        /\ t \in Booking(o) <=> Turned(task[t], o)
        /\ t \in Booking(o)' <=> Turned(task'[t], o)
    BY BookingFinite, BookingFinitePrime DEF Booking
  <2> DEFINE a == Cardinality(Booking(o))
             b == Cardinality(Booking(o)')
             ta == Turned(task[t], o)
             tb == Turned(task'[t], o)
             ea == Turnable(order[o])
             eb == Turnable(order'[o])
  <2>3. /\ a \in Nat /\ b \in Nat
        /\ ta /\ tb => b = a
        /\ ~ta /\ ~tb => b = a
        /\ ta /\ ~tb => b = a - 1
        /\ ~ta /\ tb => b = a + 1
    BY <2>1, <2>2, OneApart
  <2>4. /\ booked[o] \in Nat /\ reopened[o] \in Nat /\ raced[o] \in Nat
        /\ booked'[o] \in Nat /\ reopened'[o] \in Nat /\ raced'[o] \in Nat
    BY DEF FillInv, FillTypeOK
  <2>5. ea \in Nat /\ eb \in Nat
    BY DEF Turnable
  <2>6. booked[o] + a + ea <= 1 + reopened[o] + raced[o]
    BY DEF FillInv, Once
  <2>7. booked'[o] + (IF tb THEN 1 ELSE 0) + eb + reopened[o] + raced[o]
          <= booked[o] + (IF ta THEN 1 ELSE 0) + ea + reopened'[o] + raced'[o]
    OBVIOUS
  <2> HIDE DEF a, b, ta, tb, ea, eb
  <2>8. booked'[o] + b + eb <= 1 + reopened'[o] + raced'[o]
    BY <2>3, <2>4, <2>5, <2>6, <2>7
  <2> QED BY <2>8 DEF Once, a, b, ta, tb, ea, eb
<1>4. LossesExplained'
  <2> SUFFICES ASSUME NEW o \in Order, order'[o] = "EXECUTED", booked'[o] = 0, o \notin dropped',
                      ~Explains(t, task'[t], o)
               PROVE  \E u \in Task : Explains(u, task'[u], o)
    BY LossesArePrime
  <2>1. order[o] = "EXECUTED" /\ ~Explains(t, task[t], o)
    OBVIOUS
  <2>2. booked[o] = 0
    BY DEF FillInv, FillTypeOK
  <2>3. PICK u \in Task : Explains(u, task[u], o)
    BY <2>1, <2>2, LossesAre DEF FillInv
  <2>4. u # t
    BY <2>1, <2>3
  <2> QED BY <1>1, <2>3, <2>4
<1>5. (\A u \in Task : Holds(u, task[u], order, broker, booked))'
  BY <1>2
<1>6. (\A o \in Order : Once(o))'
  BY <1>3
<1> QED BY <1>4, <1>5, <1>6 DEF FillInv

-----------------------------------------------------------------------------
(* Steps that book nothing, and commits                                       *)

\* Without an overlap a task that holds bookings is alone, with the right quantity.
LEMMA AloneBooks ==
  ASSUME FillInv, NEW t \in Task, ~overlap, task[t].adds # {}
  PROVE  task[t].base = member /\ \A u \in Task \ {t} : task[u].adds = {}
BY DEF FillInv, MemberFits

\* A task moves on to k, and the books stay.
LEMMA TaskMoves ==
  ASSUME FillInv, NEW t \in Task, NEW k \in TaskState, task' = [task EXCEPT ![t] = k],
         UNCHANGED <<broker, mail, books, booked, reopened, raced>>,
         dropped \subseteq dropped', dropped' \subseteq Order,
         overlap' \in BOOLEAN, overlap => overlap',
         reports' \in 0..MaxReports, faults' \in 0..MaxFaults,
         Holds(t, k, order, broker, booked),
         \A o \in Order : Turned(k, o) => Turned(task[t], o),
         \A o \in Order : Explains(t, task[t], o) /\ booked[o] = 0 => Explains(t, k, o) \/ o \in dropped',
         ~overlap' /\ k.adds # {} => k.base = member /\ \A u \in Task \ {t} : task[u].adds = {}
  PROVE  FillInv'
<1>1. task \in [Task -> TaskState] /\ task'[t] = k /\ \A u \in Task \ {t} : task'[u] = task[u]
  BY DEF FillInv, FillTypeOK
<1>2. FillTypeOK'
  BY DEF FillInv, FillTypeOK, books
<1>3. BrokerFits'
  BY DEF FillInv, BrokerFits
<1>4. MemberFits'
  <2>1. Bookings' = Bookings
    BY DEF Bookings
  <2>2. SUFFICES ASSUME ~overlap'
                 PROVE  /\ member = Cardinality(Bookings)
                        /\ \A u, v \in Task : task'[u].adds # {} /\ task'[v].adds # {} => u = v
                        /\ \A u \in Task : task'[u].adds # {} => task'[u].base = member
    BY <2>1 DEF FillInv, MemberFits, books
  <2>3. /\ member = Cardinality(Bookings)
        /\ \A u, v \in Task : task[u].adds # {} /\ task[v].adds # {} => u = v
        /\ \A u \in Task : task[u].adds # {} => task[u].base = member
    BY <2>2 DEF FillInv, MemberFits
  <2> QED BY <1>1, <2>2, <2>3
<1>5. \A u \in Task \ {t} : Overtaken(task[u], task'[u], {})
  BY <1>1 DEF Overtaken
<1>6. Holds(t, task'[t], order', broker', booked')
  BY <1>1 DEF books
<1>7. \A o \in Order : booked[o] \in Nat /\ reopened[o] \in Nat /\ raced[o] \in Nat
  BY DEF FillInv, FillTypeOK
<1>8. ASSUME NEW o \in Order
      PROVE  booked'[o] + (IF Turned(task'[t], o) THEN 1 ELSE 0) + Turnable(order'[o])
                      + reopened[o] + raced[o]
             <= booked[o] + (IF Turned(task[t], o) THEN 1 ELSE 0) + Turnable(order[o])
                      + reopened'[o] + raced'[o]
  BY <1>1, <1>7 DEF Turnable, books
<1>9. ASSUME NEW o \in Order, order'[o] = "EXECUTED", booked'[o] = 0
      PROVE  \/ o \in dropped'
             \/ Explains(t, task'[t], o)
             \/ order[o] = "EXECUTED" /\ ~Explains(t, task[t], o)
  BY <1>1, <1>9 DEF books
<1>10. \A o \in Order : order'[o] = order[o] /\ booked'[o] >= booked[o]
  BY <1>7 DEF books
<1> QED BY <1>2, <1>3, <1>4, <1>5, <1>6, <1>8, <1>9, <1>10, StepKeeps

\* The orders whose fill a task with record s commits.
Filled(s, t) == {o \in s.staged : NewStatus(s, o, t) = "EXECUTED"}

LEMMA CommitMoves ==
  ASSUME FillInv, NEW t \in Task, NEW s \in TaskState, NEW opened \in SUBSET Order,
         NEW after \in TaskState, Commit(s, t, opened, after), t \in Sync => s.staged \subseteq Live
  PROVE  /\ order' \in [Order -> Status] /\ member' \in Nat
         /\ row' \in [Order -> {"none", "ACTIVE", "EXITED"}]
         /\ task' \in [Task -> TaskState] /\ task'[t] = after
         /\ \A u \in Task \ {t} : Overtaken(task[u], task'[u], Filled(s, t))
         /\ booked' \in [Order -> Nat] /\ reopened' \in [Order -> Nat] /\ raced' \in [Order -> Nat]
         /\ \A o \in Order :
              /\ order'[o] = IF o \in s.staged THEN NewStatus(s, o, t) ELSE order[o]
              /\ order'[o] = "WAITING" => order[o] = "WAITING"
              /\ booked'[o] = IF o \in s.adds THEN booked[o] + 1 ELSE booked[o]
              /\ reopened'[o] = IF o \in s.staged /\ o \notin Filled(s, t) /\ order[o] = "EXECUTED"
                                THEN reopened[o] + 1 ELSE reopened[o]
              /\ raced'[o] = IF o \in s.adds /\ o \in s.late THEN raced[o] + 1 ELSE raced[o]
<1>0. /\ order \in [Order -> Status] /\ member \in Nat
      /\ row \in [Order -> {"none", "ACTIVE", "EXITED"}] /\ task \in [Task -> TaskState]
      /\ booked \in [Order -> Nat] /\ reopened \in [Order -> Nat] /\ raced \in [Order -> Nat]
  BY DEF FillInv, FillTypeOK
<1>1. \A o \in s.staged : NewStatus(s, o, t) \in Status /\ NewStatus(s, o, t) # "WAITING"
  <2> SUFFICES ASSUME NEW o \in s.staged
               PROVE  NewStatus(s, o, t) \in Status /\ NewStatus(s, o, t) # "WAITING"
    OBVIOUS
  <2>1. CASE t \in Sync
    <3>1. s.snap[o] \in BrokerState
      BY <2>1, TaskFields
    <3> QED BY <2>1, <3>1, MapStatusFits DEF NewStatus
  <2>2. CASE t \notin Sync
    BY <2>2 DEF NewStatus, Status
  <2> QED BY <2>1, <2>2
<1>2. s.staged \subseteq Order /\ s.adds \subseteq Order /\ s.base \in Nat
  BY TaskFields
<1>3. order' = [o \in Order |-> IF o \in s.staged THEN NewStatus(s, o, t) ELSE order[o]]
  BY DEF Commit
<1>4. member' \in Nat
  <2>1. Cardinality(s.adds) \in Nat
    BY <1>2, OrderAssumption, FS_Subset, FS_CardinalityType
  <2>2. member' = IF s.adds = {} THEN member ELSE s.base + Cardinality(s.adds)
    BY DEF Commit
  <2> QED BY <1>0, <1>2, <2>1, <2>2
<1>5. row' \in [Order -> {"none", "ACTIVE", "EXITED"}]
  <2>1. row' = [o \in Order |-> IF o \in opened THEN "ACTIVE" ELSE row[o]]
    BY DEF Commit
  <2> QED BY <1>0, <2>1
<1>6. Filled(s, t) \subseteq Order
  BY <1>2 DEF Filled
<1>7. /\ task' \in [Task -> TaskState] /\ task'[t] = after
      /\ \A u \in Task \ {t} : Overtaken(task[u], task'[u], Filled(s, t))
  <2>1. task' = [u \in Task |-> IF u = t THEN after ELSE Overtakes(Filled(s, t), u)]
    BY DEF Commit, Filled
  <2>2. \A u \in Task : /\ Overtakes(Filled(s, t), u) \in TaskState
                        /\ Overtaken(task[u], Overtakes(Filled(s, t), u), Filled(s, t))
    BY <1>0, <1>6, OvertakesFields
  <2> QED BY <2>1, <2>2
<1>8. /\ booked' \in [Order -> Nat]
      /\ \A o \in Order : booked'[o] = IF o \in s.adds THEN booked[o] + 1 ELSE booked[o]
  <2>1. booked' = Bump(booked, s.adds)
    BY DEF Commit
  <2> QED BY <1>0, <2>1, BumpType
<1>9. /\ reopened' \in [Order -> Nat]
      /\ \A o \in Order :
           reopened'[o] = IF o \in s.staged /\ o \notin Filled(s, t) /\ order[o] = "EXECUTED"
                          THEN reopened[o] + 1 ELSE reopened[o]
  <2> DEFINE lost == {o \in s.staged \ Filled(s, t) : order[o] = "EXECUTED"}
  <2>1. reopened' = Bump(reopened, lost)
    BY DEF Commit, Filled
  <2> QED BY <1>0, <2>1, BumpType
<1>10. /\ raced' \in [Order -> Nat]
       /\ \A o \in Order : raced'[o] = IF o \in s.adds /\ o \in s.late THEN raced[o] + 1 ELSE raced[o]
  <2>1. raced' = Bump(raced, s.adds \cap s.late)
    BY DEF Commit
  <2> QED BY <1>0, <2>1, BumpType
<1>11. /\ order' \in [Order -> Status]
       /\ \A o \in Order : /\ order'[o] = IF o \in s.staged THEN NewStatus(s, o, t) ELSE order[o]
                           /\ order'[o] = "WAITING" => order[o] = "WAITING"
  BY <1>0, <1>1, <1>3
<1> QED BY <1>4, <1>5, <1>7, <1>8, <1>9, <1>10, <1>11

\* A commit keeps the invariant when each booking was turned by the task before, or is
\* turned with it, in time or noted as late.
LEMMA CommitKeeps ==
  ASSUME FillInv, NEW t \in Task, NEW s \in TaskState, NEW opened \in SUBSET Order,
         NEW after \in TaskState, Commit(s, t, opened, after), t \in Sync => s.staged \subseteq Live,
         UNCHANGED <<broker, mail, dropped, reports, faults>>,
         overlap' \in BOOLEAN, overlap => overlap',
         ~overlap' /\ s.adds # {} => s.base = member /\ \A u \in Task \ {t} : task[u].adds = {},
         Filled(s, t) \subseteq s.adds, after.adds = {},
         Holds(t, after, order', broker', booked'),
         \A o \in s.adds : /\ ~Turned(after, o)
                           /\ \/ Turned(task[t], o) /\ o \notin s.staged
                              \/ o \in Filled(s, t) /\ (o \in s.late \/ order[o] # "EXECUTED"),
         \A o \in Order : Turned(after, o) => Turned(task[t], o),
         \A o \in Order : Explains(t, task[t], o) => o \in s.adds,
         \A o \in s.adds : o \in Live => broker[o] = "COMPLETE"
  PROVE  FillInv'
<1> DEFINE X == Filled(s, t)
<1>0. /\ s.staged \subseteq Order /\ s.adds \subseteq Order /\ X \in SUBSET Order
      /\ booked \in [Order -> Nat] /\ reopened \in [Order -> Nat] /\ raced \in [Order -> Nat]
  BY TaskFields DEF FillInv, FillTypeOK, Filled
<1>1. /\ order' \in [Order -> Status] /\ member' \in Nat
      /\ row' \in [Order -> {"none", "ACTIVE", "EXITED"}]
      /\ task' \in [Task -> TaskState] /\ task'[t] = after
      /\ booked' \in [Order -> Nat] /\ reopened' \in [Order -> Nat] /\ raced' \in [Order -> Nat]
      /\ \A u \in Task \ {t} : Overtaken(task[u], task'[u], X)
  <2>1. /\ order' \in [Order -> Status] /\ member' \in Nat
        /\ row' \in [Order -> {"none", "ACTIVE", "EXITED"}]
    BY CommitMoves
  <2>3. task' \in [Task -> TaskState]
    BY CommitMoves
  <2>5. task'[t] = after
    BY DEF Commit
  <2>4. booked' \in [Order -> Nat] /\ reopened' \in [Order -> Nat] /\ raced' \in [Order -> Nat]
    BY CommitMoves
  <2>2. \A u \in Task \ {t} : Overtaken(task[u], task'[u], Filled(s, t))
    BY CommitMoves
  <2> QED BY <2>1, <2>2, <2>3, <2>4, <2>5
<1>2. ASSUME NEW o \in Order
      PROVE  /\ order'[o] = IF o \in s.staged THEN NewStatus(s, o, t) ELSE order[o]
             /\ order'[o] = "WAITING" => order[o] = "WAITING"
             /\ booked'[o] = IF o \in s.adds THEN booked[o] + 1 ELSE booked[o]
             /\ reopened'[o] = IF o \in s.staged /\ o \notin X /\ order[o] = "EXECUTED"
                               THEN reopened[o] + 1 ELSE reopened[o]
             /\ raced'[o] = IF o \in s.adds /\ o \in s.late THEN raced[o] + 1 ELSE raced[o]
  BY CommitMoves
<1>3. \A o \in s.staged : o \in X <=> NewStatus(s, o, t) = "EXECUTED"
  BY DEF Filled
<1>4. X \subseteq s.adds
  OBVIOUS
<1> HIDE DEF X
<1>5. FillTypeOK'
  BY <1>1 DEF FillInv, FillTypeOK
<1>6. BrokerFits'
  <2> SUFFICES ASSUME NEW o \in Live, booked'[o] > 0 \/ <<o, "COMPLETE">> \in mail
               PROVE  broker[o] = "COMPLETE"
    BY DEF BrokerFits
  <2>1. booked[o] > 0 \/ o \in s.adds \/ <<o, "COMPLETE">> \in mail
    BY <1>0, <1>2 DEF Order
  <2> QED BY <2>1 DEF FillInv, BrokerFits
<1>7. MemberFits'
  <2>1. IsFiniteSet(Bookings)
    BY DEF FillInv, MemberFits
  <2>2. booked' = Bump(booked, s.adds)
    BY DEF Commit
  <2>3. /\ IsFiniteSet(Bookings') /\ Cardinality(s.adds) \in Nat /\ Cardinality(Bookings) \in Nat
        /\ Cardinality(Bookings') = Cardinality(Bookings) + Cardinality(s.adds)
    BY <1>0, <2>1, <2>2, BookingsGrow
  <2>4. SUFFICES ASSUME ~overlap'
                 PROVE  /\ member' = Cardinality(Bookings')
                        /\ \A u, v \in Task : task'[u].adds # {} /\ task'[v].adds # {} => u = v
                        /\ \A u \in Task : task'[u].adds # {} => task'[u].base = member'
    BY <2>3 DEF MemberFits
  <2>5. /\ member = Cardinality(Bookings)
        /\ \A u, v \in Task : task[u].adds # {} /\ task[v].adds # {} => u = v
        /\ \A u \in Task : task[u].adds # {} => task[u].base = member
    BY <2>4 DEF FillInv, MemberFits
  <2>6. /\ task'[t].adds = {}
        /\ \A u \in Task \ {t} : task'[u].adds = task[u].adds /\ task'[u].base = task[u].base
    BY <1>1 DEF Overtaken
  <2>7. member' = IF s.adds = {} THEN member ELSE s.base + Cardinality(s.adds)
    BY DEF Commit
  <2>8. CASE s.adds = {}
    <3>1. Cardinality(s.adds) = 0
      BY <2>8, FS_EmptySet
    <3>2. member' = member /\ member' = Cardinality(Bookings')
      BY <2>3, <2>5, <2>7, <2>8, <3>1
    <3> QED BY <2>5, <2>6, <3>2
  <2>9. CASE s.adds # {}
    <3>1. s.base = member /\ \A u \in Task \ {t} : task[u].adds = {}
      BY <2>4, <2>9
    <3>2. member' = Cardinality(Bookings')
      BY <2>3, <2>5, <2>7, <2>9, <3>1
    <3> QED BY <2>6, <3>1, <3>2
  <2> QED BY <2>8, <2>9
<1>8. \A o \in Order : \A u \in Task \ {t} :
        order'[o] = "EXECUTED" /\ order[o] # "EXECUTED" /\ WillTurn(task[u], o) => o \in X
  BY <1>2, <1>3
<1>9. \A o \in Order : booked'[o] >= booked[o]
  BY <1>0, <1>2
<1>10. ASSUME NEW o \in Order
       PROVE  booked'[o] + (IF Turned(task'[t], o) THEN 1 ELSE 0) + Turnable(order'[o])
                      + reopened[o] + raced[o]
                <= booked[o] + (IF Turned(task[t], o) THEN 1 ELSE 0) + Turnable(order[o])
                      + reopened'[o] + raced'[o]
  <2>1. booked[o] \in Nat /\ reopened[o] \in Nat /\ raced[o] \in Nat
    BY <1>0
  <2>2. Turned(task'[t], o) => Turned(task[t], o) /\ o \notin s.adds
    BY <1>1
  <2>3. /\ o \in s.adds /\ o \notin X => Turned(task[t], o) /\ o \notin s.staged
        /\ o \in X => o \in s.staged /\ o \in s.adds
        /\ o \in X => o \in s.late \/ order[o] # "EXECUTED" \/ (Turned(task[t], o) /\ o \notin s.staged)
    BY <1>4 DEF X, Filled
  <2>4. /\ o \in s.staged => (order'[o] = "EXECUTED" <=> o \in X)
        /\ o \notin s.staged => order'[o] = order[o]
    BY <1>2, <1>3
  <2> QED BY <1>2, <2>1, <2>2, <2>3, <2>4 DEF Turnable
<1>11. ASSUME NEW o \in Order, order'[o] = "EXECUTED", booked'[o] = 0
       PROVE  order[o] = "EXECUTED" /\ ~Explains(t, task[t], o)
  <2>1. o \notin s.adds
    BY <1>0, <1>2, <1>11
  <2>2. o \notin s.staged
    BY <1>2, <1>3, <1>4, <1>11, <2>1
  <2> QED BY <1>2, <1>11, <2>1, <2>2
<1>12. Holds(t, task'[t], order', broker', booked')
  BY <1>1
<1>13. \A o \in Order : order'[o] = "WAITING" => order[o] = "WAITING"
  BY <1>2
<1>14. X \in SUBSET Order /\ dropped \subseteq dropped' /\ broker' = broker
  BY <1>0
<1>15. \A u \in Task \ {t} : Overtaken(task[u], task'[u], X)
  BY <1>1
<1> QED BY <1>5, <1>6, <1>7, <1>8, <1>9, <1>10, <1>11, <1>12, <1>13, <1>14, <1>15, StepKeeps

\* The books and what is remembered of them stay.
LEMMA QuietMoves ==
  ASSUME FillInv, NEW t \in Task, NEW k \in TaskState, task' = [task EXCEPT ![t] = k],
         UNCHANGED <<broker, mail, books, history>>,
         reports' \in 0..MaxReports, faults' \in 0..MaxFaults,
         Holds(t, k, order, broker, booked),
         \A o \in Order : Turned(k, o) => Turned(task[t], o),
         \A o \in Order : Explains(t, task[t], o) /\ booked[o] = 0 => Explains(t, k, o),
         k.adds = {} \/ (k.adds = task[t].adds /\ k.base = task[t].base)
  PROVE  FillInv'
<1>1. UNCHANGED <<broker, mail, books, booked, reopened, raced>>
  BY DEF history
<1>2. dropped' = dropped /\ overlap' = overlap /\ dropped \subseteq Order /\ overlap \in BOOLEAN
  BY DEF history, FillInv, FillTypeOK
<1>3. ASSUME ~overlap', k.adds # {}
      PROVE  k.base = member /\ \A u \in Task \ {t} : task[u].adds = {}
  BY <1>2, <1>3, AloneBooks
<1>4. dropped \subseteq dropped' /\ dropped' \subseteq Order /\ overlap' \in BOOLEAN
      /\ (overlap => overlap')
  BY <1>2
<1>5. \A o \in Order : Explains(t, task[t], o) /\ booked[o] = 0 => Explains(t, k, o) \/ o \in dropped'
  OBVIOUS
<1> QED BY <1>1, <1>3, <1>4, <1>5, TaskMoves

LEMMA SyncHolds ==
  ASSUME NEW t \in Sync, NEW k, NEW ord, NEW br, NEW bk
  PROVE  /\ t \in Task /\ t \notin Post /\ t \notin Poll
         /\ Holds(t, k, ord, br, bk) <=> SyncShape(k) /\ InTime(k, ord) /\ Genuine(k, br)
         /\ \A o : ~Explains(t, k, o)
BY TaskAssumption DEF Task, Holds, Shape, Submitted, Explains

LEMMA PostHolds ==
  ASSUME NEW t \in Post, NEW k, NEW ord, NEW br, NEW bk
  PROVE  /\ t \in Task /\ t \notin Sync /\ t \notin Poll
         /\ Holds(t, k, ord, br, bk) <=> PostShape(k) /\ InTime(k, ord) /\ Genuine(k, br)
         /\ \A o : Explains(t, k, o) <=> k.pc \in {"book", "end"} /\ o \in k.todo \cup k.adds
BY TaskAssumption DEF Task, Holds, Shape, Submitted, Explains

LEMMA PollHolds ==
  ASSUME NEW t \in Poll, NEW k, NEW ord, NEW br, NEW bk
  PROVE  /\ t \in Task /\ t \notin Sync /\ t \notin Post
         /\ Holds(t, k, ord, br, bk)
              <=> PollShape(k) /\ InTime(k, ord) /\ Genuine(k, br) /\ Submitted(t, k, ord, bk)
         /\ \A o : Explains(t, k, o) <=> k.pc \in {"book", "end"} /\ o \in k.todo \cup k.adds
BY TaskAssumption DEF Task, Holds, Shape, Explains

LEMMA HereNow ==
  ASSUME FillInv, NEW t \in Task
  PROVE  /\ task \in [Task -> TaskState] /\ task[t] \in TaskState
         /\ Holds(t, task[t], order, broker, booked)
         /\ order \in [Order -> Status] /\ broker \in [Live -> BrokerState]
         /\ reports \in 0..MaxReports /\ faults \in 0..MaxFaults
BY DEF FillInv, FillTypeOK

-----------------------------------------------------------------------------
(* Order-book syncs                                                           *)

LEMMA SyncFetchKeeps ==
  ASSUME FillInv, NEW t \in Sync, SyncFetch(t)
  PROVE  FillInv'
<1> DEFINE k == [Idle EXCEPT !.pc = "fetched", !.snap = broker]
<1>1. t \in Task /\ broker \in [Live -> BrokerState]
  BY SyncHolds, HereNow
<1>2. /\ k \in TaskState /\ k.pc = "fetched" /\ k.snap = broker /\ k.todo = {} /\ k.staged = {}
      /\ k.adds = {}
  BY <1>1, IdleFields DEF TaskState, Pc
<1>3. task' = [task EXCEPT ![t] = k] /\ UNCHANGED <<broker, mail, books, history, reports, faults>>
  BY DEF SyncFetch
<1> HIDE DEF k
<1>4. SyncShape(k) /\ InTime(k, order) /\ Genuine(k, broker)
  BY <1>2 DEF SyncShape, InTime, WillTurn, Genuine
<1>5. Holds(t, k, order, broker, booked) /\ \A o : ~Explains(t, task[t], o)
  BY <1>4, SyncHolds
<1>6. \A o \in Order : ~Turned(k, o)
  BY <1>2 DEF Turned
<1>7. reports' \in 0..MaxReports /\ faults' \in 0..MaxFaults
  BY <1>1, <1>3, HereNow
<1> QED BY <1>1, <1>2, <1>3, <1>5, <1>6, <1>7, QuietMoves

LEMMA SyncReadKeeps ==
  ASSUME FillInv, NEW t \in Sync, SyncRead(t)
  PROVE  FillInv'
<1> DEFINE k == [task[t] EXCEPT !.pc = "visiting", !.read = order, !.todo = Live]
<1>1. t \in Task /\ task[t] \in TaskState /\ order \in [Order -> Status]
      /\ task \in [Task -> TaskState] /\ Live \subseteq Order
  BY SyncHolds, HereNow DEF Order
<1>2. /\ k \in TaskState /\ k.pc = "visiting" /\ k.read = order /\ k.snap = task[t].snap
      /\ k.todo = Live /\ k.staged = task[t].staged /\ k.adds = task[t].adds
  BY <1>1 DEF TaskState, Pc
<1>3. task' = [task EXCEPT ![t] = k] /\ UNCHANGED <<broker, mail, books, history, reports, faults>>
  BY <1>1 DEF SyncRead
<1> HIDE DEF k
<1>4. SyncShape(task[t]) /\ Genuine(task[t], broker) /\ task[t].pc = "fetched"
  BY <1>1, HereNow, SyncHolds DEF SyncRead
<1>5. task[t].staged = {} /\ task[t].adds = {}
  BY <1>4 DEF SyncShape
<1>6. SyncShape(k) /\ InTime(k, order) /\ Genuine(k, broker)
  BY <1>2, <1>4, <1>5 DEF SyncShape, InTime, WillTurn, Genuine
<1>7. Holds(t, k, order, broker, booked) /\ \A o : ~Explains(t, task[t], o)
  BY <1>6, SyncHolds
<1>8. \A o \in Order : ~Turned(k, o)
  BY <1>2 DEF Turned
<1>9. reports' \in 0..MaxReports /\ faults' \in 0..MaxFaults
  BY <1>1, <1>3, HereNow
<1>10. k.adds = {}
  BY <1>2, <1>5
<1> QED BY <1>1, <1>2, <1>3, <1>7, <1>8, <1>9, <1>10, QuietMoves

LEMMA DoneFields ==
  ASSUME NEW k \in TaskState, NEW o
  PROVE  LET m == Done(k, o)
         IN  /\ m \in TaskState /\ m.pc = k.pc /\ m.snap = k.snap /\ m.read = k.read
             /\ m.todo = k.todo \ {o} /\ m.staged = k.staged /\ m.adds = k.adds
             /\ m.late = k.late /\ m.base = k.base /\ m.flushed = k.flushed
BY DEF Done, TaskState

LEMMA SyncPassKeeps ==
  ASSUME FillInv, NEW t \in Sync, NEW o \in Live, SyncPass(t, o)
  PROVE  FillInv'
<1> DEFINE k == Done(task[t], o)
<1>1. t \in Task /\ task[t] \in TaskState /\ task \in [Task -> TaskState]
  BY SyncHolds, HereNow
<1>2. /\ k \in TaskState /\ k.pc = task[t].pc /\ k.read = task[t].read /\ k.snap = task[t].snap
      /\ k.todo = task[t].todo \ {o} /\ k.staged = task[t].staged /\ k.adds = task[t].adds
      /\ k.late = task[t].late /\ k.base = task[t].base
  BY <1>1, DoneFields
<1>3. task' = [task EXCEPT ![t] = k] /\ UNCHANGED <<broker, mail, books, history, reports, faults>>
  BY <1>1 DEF SyncPass
<1> HIDE DEF k
<1>4. SyncShape(task[t]) /\ InTime(task[t], order) /\ Genuine(task[t], broker)
  BY <1>1, HereNow, SyncHolds
<1>5. SyncShape(k)
  BY <1>2, <1>4 DEF SyncShape
<1>6. InTime(k, order) /\ Genuine(k, broker)
  BY <1>2, <1>4 DEF InTime, WillTurn, Genuine
<1>7. Holds(t, k, order, broker, booked) /\ \A p : ~Explains(t, task[t], p)
  BY <1>5, <1>6, SyncHolds
<1>8. \A p \in Order : Turned(k, p) => Turned(task[t], p)
  BY <1>2 DEF Turned
<1>9. reports' \in 0..MaxReports /\ faults' \in 0..MaxFaults
  BY <1>1, <1>3, HereNow
<1> QED BY <1>1, <1>2, <1>3, <1>7, <1>8, <1>9, QuietMoves


\* A record with order o staged.
Staged(k, o) == [Done(k, o) EXCEPT !.staged = @ \cup {o}]

LEMMA StagedFields ==
  ASSUME NEW k \in TaskState, NEW o \in Order
  PROVE  LET m == Staged(k, o)
         IN  /\ m \in TaskState /\ m.pc = k.pc /\ m.snap = k.snap /\ m.read = k.read
             /\ m.todo = k.todo \ {o} /\ m.staged = k.staged \cup {o} /\ m.adds = k.adds
             /\ m.late = k.late /\ m.base = k.base /\ m.flushed = k.flushed
BY DEF Staged, Done, TaskState

LEMMA SyncStageKeeps ==
  ASSUME FillInv, NEW t \in Sync, NEW o \in Live, SyncStage(t, o)
  PROVE  FillInv'
<1> DEFINE k == Staged(task[t], o)
<1>1. t \in Task /\ task[t] \in TaskState /\ task \in [Task -> TaskState] /\ o \in Order
  BY SyncHolds, HereNow DEF Order
<1>2. /\ k \in TaskState /\ k.pc = task[t].pc /\ k.read = task[t].read /\ k.snap = task[t].snap
      /\ k.todo = task[t].todo \ {o} /\ k.staged = task[t].staged \cup {o} /\ k.adds = task[t].adds
      /\ k.late = task[t].late /\ k.base = task[t].base
  BY <1>1, StagedFields
<1>3. task' = [task EXCEPT ![t] = k] /\ UNCHANGED <<broker, mail, books, history, reports, faults>>
  BY <1>1 DEF SyncStage, Staged
<1> HIDE DEF k
<1>4. SyncShape(task[t]) /\ InTime(task[t], order) /\ Genuine(task[t], broker)
  BY <1>1, HereNow, SyncHolds
<1>5. task[t].pc = "visiting" /\ MapStatus(task[t].snap[o]) # "EXECUTED"
  BY DEF SyncStage, Visits
<1>6. SyncShape(k)
  BY <1>2, <1>4, <1>5 DEF SyncShape
<1>7. InTime(k, order) /\ Genuine(k, broker)
  BY <1>2, <1>4 DEF InTime, WillTurn, Genuine
<1>8. Holds(t, k, order, broker, booked) /\ \A p : ~Explains(t, task[t], p)
  BY <1>6, <1>7, SyncHolds
<1>9. \A p \in Order : Turned(k, p) => Turned(task[t], p)
  BY <1>2 DEF Turned
<1>10. reports' \in 0..MaxReports /\ faults' \in 0..MaxFaults
  BY <1>1, <1>3, HereNow
<1> QED BY <1>1, <1>2, <1>3, <1>8, <1>9, <1>10, QuietMoves

LEMMA IdleKeeps ==
  ASSUME FillInv, NEW t \in Task, task' = [task EXCEPT ![t] = Idle],
         UNCHANGED <<broker, mail, books, booked, reopened, raced, overlap, reports, faults>>,
         dropped \subseteq dropped', dropped' \subseteq Order,
         \A o \in Order : Explains(t, task[t], o) /\ booked[o] = 0 => o \in dropped'
  PROVE  FillInv'
<1>1. Idle \in TaskState /\ Idle.adds = {}
  BY IdleFields
<1>2. Holds(t, Idle, order, broker, booked) /\ \A o : ~Turned(Idle, o)
  BY IdleHolds
<1>3. overlap' \in BOOLEAN /\ (overlap => overlap')
      /\ reports' \in 0..MaxReports /\ faults' \in 0..MaxFaults
  BY DEF FillInv, FillTypeOK
<1>4. UNCHANGED <<broker, mail, books, booked, reopened, raced>>
  OBVIOUS
<1>5. \A o \in Order : Explains(t, task[t], o) /\ booked[o] = 0
                         => Explains(t, Idle, o) \/ o \in dropped'
  OBVIOUS
<1> QED BY <1>1, <1>2, <1>3, <1>4, <1>5, TaskMoves

LEMMA SyncAbortKeeps ==
  ASSUME FillInv, NEW t \in Sync, NEW o \in Live, SyncAbort(t, o)
  PROVE  FillInv'
<1>1. t \in Task /\ \A p : ~Explains(t, task[t], p)
  BY SyncHolds
<1>2. task' = [task EXCEPT ![t] = Idle] /\ UNCHANGED <<broker, mail, books, history, reports, faults>>
  BY DEF SyncAbort
<1>3. dropped' = dropped /\ dropped \subseteq Order
      /\ UNCHANGED <<broker, mail, books, booked, reopened, raced, overlap, reports, faults>>
  BY <1>2 DEF history, FillInv, FillTypeOK
<1> QED BY <1>1, <1>2, <1>3, IdleKeeps

\* The record of a task that books o.
LEMMA WithFillFields ==
  ASSUME NEW s \in TaskState, NEW o \in Order, member \in Nat
  PROVE  LET m == WithFill(s, o)
         IN  /\ m \in TaskState /\ m.pc = s.pc /\ m.snap = s.snap /\ m.read = s.read
             /\ m.todo = s.todo /\ m.staged = s.staged /\ m.adds = s.adds \cup {o}
             /\ m.late = s.late /\ m.base = (IF s.adds = {} THEN member ELSE s.base)
             /\ m.flushed = s.flushed
BY DEF WithFill, TaskState

LEMMA CommittedFields ==
  ASSUME NEW s \in TaskState
  PROVE  LET m == Committed(s)
         IN  /\ m \in TaskState /\ m.pc = s.pc /\ m.snap = s.snap /\ m.read = s.read
             /\ m.todo = s.todo /\ m.staged = {} /\ m.adds = {} /\ m.late = s.late \ s.staged
BY DEF Committed, TaskState

\* A task that books without an overlap is alone, and reads the quantity as it is.
LEMMA BookIsAlone ==
  ASSUME FillInv, NEW t \in Task, NEW s \in TaskState, NEW o \in Order,
         s.adds = task[t].adds, s.base = task[t].base, NoteOverlap(t)
  PROVE  /\ overlap' \in BOOLEAN /\ (overlap => overlap')
         /\ ~overlap' => /\ WithFill(s, o).base = member
                         /\ \A u \in Task \ {t} : task[u].adds = {}
<1>1. overlap \in BOOLEAN /\ member \in Nat
  BY DEF FillInv, FillTypeOK
<1>2. overlap' \in BOOLEAN /\ (overlap => overlap')
  BY <1>1 DEF NoteOverlap
<1>3. ASSUME ~overlap'
      PROVE  /\ WithFill(s, o).base = member
             /\ \A u \in Task \ {t} : task[u].adds = {}
  <2>1. ~overlap /\ \A u \in Task \ {t} : task[u].adds = {}
    BY <1>3 DEF NoteOverlap
  <2>2. WithFill(s, o).base = IF s.adds = {} THEN member ELSE s.base
    BY <1>1, WithFillFields
  <2> QED BY <2>1, <2>2, AloneBooks
<1> QED BY <1>2, <1>3


\* The orders a sync has filled are those it adds; each was turned by it in time, or
\* it has been noted as late.
LEMMA SyncFills ==
  ASSUME FillInv, NEW t \in Sync
  PROVE  /\ Filled(task[t], t) = task[t].adds
         /\ \A o \in task[t].adds : /\ task[t].pc = "visiting" /\ o \in Live /\ broker[o] = "COMPLETE"
                                    /\ o \in task[t].late \/ order[o] # "EXECUTED"
<1>1. t \in Task /\ Live \subseteq Order
  BY SyncHolds DEF Order
<1>2. SyncShape(task[t]) /\ InTime(task[t], order) /\ Genuine(task[t], broker)
  BY <1>1, HereNow, SyncHolds
<1>3. Filled(task[t], t) = task[t].adds
  BY <1>2 DEF SyncShape, Filled, NewStatus
<1>4. ASSUME NEW o \in task[t].adds
      PROVE  /\ task[t].pc = "visiting" /\ o \in Live /\ broker[o] = "COMPLETE"
             /\ o \in task[t].late \/ order[o] # "EXECUTED"
  <2>1. task[t].pc = "visiting" /\ o \in Live
    BY <1>2 DEF SyncShape
  <2>2. WillTurn(task[t], o)
    BY <2>1 DEF WillTurn
  <2> QED BY <1>1, <1>2, <2>1, <2>2 DEF InTime, Genuine
<1> QED BY <1>3, <1>4

LEMMA SyncBookKeeps ==
  ASSUME FillInv, NEW t \in Sync, NEW o \in Live, SyncBook(t, o)
  PROVE  FillInv'
<1> DEFINE s == Staged(task[t], o)
           held == WithFill(s, o)
<1>1. /\ t \in Task /\ task[t] \in TaskState /\ task \in [Task -> TaskState] /\ o \in Order
      /\ Live \subseteq Order /\ member \in Nat /\ order \in [Order -> Status]
  BY SyncHolds, HereNow DEF Order, FillInv, FillTypeOK
<1>2. /\ s \in TaskState /\ s.pc = task[t].pc /\ s.read = task[t].read /\ s.snap = task[t].snap
      /\ s.todo = task[t].todo \ {o} /\ s.staged = task[t].staged \cup {o} /\ s.adds = task[t].adds
      /\ s.late = task[t].late /\ s.base = task[t].base
  BY <1>1, StagedFields
<1>3. /\ Book(t, o, s) /\ UNCHANGED <<broker, mail, dropped, reports, faults>>
      /\ task[t].pc = "visiting" /\ o \in task[t].todo
      /\ MapStatus(task[t].snap[o]) = "EXECUTED" /\ task[t].read[o] # "EXECUTED"
  BY DEF SyncBook, Staged, Visits, Changed
<1> HIDE DEF s
<1>4. /\ held \in TaskState /\ held.pc = "visiting" /\ held.read = task[t].read
      /\ held.snap = task[t].snap /\ held.todo = task[t].todo \ {o}
      /\ held.staged = task[t].staged \cup {o} /\ held.adds = task[t].adds \cup {o}
      /\ held.late = task[t].late
  BY <1>1, <1>2, <1>3, WithFillFields
<1>5. NoteOverlap(t)
  BY <1>3 DEF Book
<1>6. /\ overlap' \in BOOLEAN /\ (overlap => overlap')
      /\ ~overlap' => held.base = member /\ \A u \in Task \ {t} : task[u].adds = {}
  BY <1>1, <1>2, <1>5, BookIsAlone
<1>7. SyncShape(task[t]) /\ InTime(task[t], order) /\ Genuine(task[t], broker)
  BY <1>1, HereNow, SyncHolds
<1>8. o \in task[t].late \/ order[o] # "EXECUTED"
  BY <1>1, <1>3, <1>7 DEF InTime, WillTurn
<1>9. broker[o] = "COMPLETE"
  <2>1. task[t].snap[o] \in BrokerState
    BY <1>1, TaskFields
  <2>2. task[t].snap[o] = "COMPLETE"
    BY <1>3, <2>1, MapStatusFits
  <2> QED BY <1>7, <2>2 DEF Genuine
<1>10. \A p \in Order : ~Explains(t, task[t], p)
  BY SyncHolds
<1>11. CASE Inserts(o) /\ Commit(held, t, {o}, Committed(held))
  <2> DEFINE after == Committed(held)
  <2>1. /\ after \in TaskState /\ after.pc = "visiting" /\ after.snap = task[t].snap
        /\ after.read = task[t].read /\ after.todo = task[t].todo \ {o} /\ after.staged = {}
        /\ after.adds = {} /\ after.late = task[t].late \ (task[t].staged \cup {o})
    BY <1>4, CommittedFields
  <2>2. Commit(held, t, {o}, after) /\ {o} \in SUBSET Order
    BY <1>1, <1>11
  <2> HIDE DEF after, held
  <2>3. held.staged \subseteq Live /\ after.todo \subseteq Live
        /\ after.todo \cap held.staged = {}
    BY <1>4, <1>7, <2>1 DEF SyncShape
  <2>4. Filled(held, t) = held.adds
    <3>1. \A p : NewStatus(held, p, t) = MapStatus(task[t].snap[p])
      BY <1>4 DEF NewStatus
    <3> QED BY <1>3, <1>4, <1>7, <3>1 DEF Filled, SyncShape
  <2>5. \A p \in Order \ held.staged : order'[p] = order[p]
    BY <1>1, <1>4, <2>1, <2>2, <2>3, CommitMoves
  <2>6. SyncShape(after)
    BY <2>1, <2>3 DEF SyncShape
  <2>7. InTime(after, order')
    <3> SUFFICES ASSUME NEW p \in Order, WillTurn(after, p), p \notin after.late
                 PROVE  order'[p] # "EXECUTED"
      BY DEF InTime
    <3>1. p \in after.todo /\ p \in task[t].todo /\ task[t].read[p] # "EXECUTED"
      BY <2>1 DEF WillTurn
    <3>2. p \notin held.staged
      BY <2>3, <3>1
    <3>3. p \notin task[t].late
      BY <1>4, <2>1, <3>2
    <3>4. WillTurn(task[t], p)
      BY <1>3, <3>1 DEF WillTurn
    <3> QED BY <1>7, <2>5, <3>2, <3>3, <3>4 DEF InTime
  <2>8. Genuine(after, broker')
    BY <1>3, <1>7, <2>1 DEF Genuine
  <2>9. Holds(t, after, order', broker', booked')
    BY <2>6, <2>7, <2>8, SyncHolds
  <2>10. \A p : ~Turned(after, p)
    BY <2>1 DEF Turned
  <2>11. \A p \in held.adds : /\ ~Turned(after, p)
                              /\ \/ Turned(task[t], p) /\ p \notin held.staged
                                 \/ p \in Filled(held, t) /\ (p \in held.late \/ order[p] # "EXECUTED")
    BY <1>4, <1>8, <2>4, <2>10, SyncFills
  <2>12. \A p \in held.adds : p \in Live => broker[p] = "COMPLETE"
    BY <1>4, <1>9, SyncFills
  <2>13. Filled(held, t) \subseteq held.adds /\ after.adds = {}
    BY <2>1, <2>4
  <2>14. ~overlap' /\ held.adds # {} => held.base = member /\ \A u \in Task \ {t} : task[u].adds = {}
    BY <1>6
  <2> QED BY <1>1, <1>3, <1>4, <1>6, <1>10, <2>1, <2>2, <2>3, <2>9, <2>10, <2>11, <2>12, <2>13,
             <2>14, CommitKeeps
<1>12. CASE ~(Inserts(o) /\ Commit(held, t, {o}, Committed(held)))
  <2> DEFINE k == [held EXCEPT !.flushed = @ \/ Grows(o)]
  <2>1. /\ task' = [task EXCEPT ![t] = k]
        /\ UNCHANGED <<broker, mail, dropped, reports, faults>>
        /\ UNCHANGED <<books, booked, reopened, raced>>
    BY <1>3, <1>12 DEF Book
  <2> HIDE DEF held
  <2>2. /\ k \in TaskState /\ k.pc = "visiting" /\ k.snap = task[t].snap
        /\ k.read = task[t].read /\ k.todo = task[t].todo \ {o}
        /\ k.staged = task[t].staged \cup {o} /\ k.adds = task[t].adds \cup {o}
        /\ k.late = task[t].late /\ k.base = held.base
    <3>1. Grows(o) \in BOOLEAN
      BY DEF Grows
    <3> QED BY <1>4, <3>1 DEF TaskState
  <2> HIDE DEF k
  <2>3. SyncShape(k)
    BY <1>3, <1>7, <2>2 DEF SyncShape
  <2>4. InTime(k, order) /\ Genuine(k, broker)
    BY <1>3, <1>7, <1>8, <1>9, <2>2 DEF InTime, Genuine, WillTurn
  <2>5. Holds(t, k, order, broker, booked)
    BY <2>3, <2>4, SyncHolds
  <2>6. \A p \in Order : ~Turned(k, p)
    BY <2>2 DEF Turned
  <2>7. /\ UNCHANGED <<broker, mail, books, booked, reopened, raced>>
        /\ dropped \subseteq dropped' /\ dropped' \subseteq Order
        /\ reports' \in 0..MaxReports /\ faults' \in 0..MaxFaults
    BY <2>1 DEF FillInv, FillTypeOK
  <2>8. ~overlap' /\ k.adds # {} => k.base = member /\ \A u \in Task \ {t} : task[u].adds = {}
    BY <1>6, <2>2
  <2> QED BY <1>1, <1>6, <1>10, <2>1, <2>2, <2>5, <2>6, <2>7, <2>8, TaskMoves
<1> QED BY <1>11, <1>12

LEMMA SyncEndKeeps ==
  ASSUME FillInv, NEW t \in Sync, SyncEnd(t)
  PROVE  FillInv'
<1> DEFINE s == task[t]
<1>1. t \in Task /\ s \in TaskState /\ Live \subseteq Order
  BY SyncHolds, HereNow DEF Order
<1>2. SyncShape(s)
  BY <1>1, HereNow, SyncHolds
<1>3. /\ Commit(s, t, {}, Idle) /\ UNCHANGED <<broker, mail, dropped, reports, faults>>
      /\ overlap' = overlap /\ overlap \in BOOLEAN
  BY DEF SyncEnd, FillInv, FillTypeOK
<1>4. Idle \in TaskState /\ Idle.adds = {} /\ {} \in SUBSET Order
  BY IdleFields
<1>5. Holds(t, Idle, order', broker', booked') /\ \A p : ~Turned(Idle, p)
  BY <1>1, IdleHolds
<1>6. ~overlap' /\ s.adds # {} => s.base = member /\ \A u \in Task \ {t} : task[u].adds = {}
  BY <1>1, <1>3, AloneBooks
<1>7. Filled(s, t) \subseteq s.adds /\ s.staged \subseteq Live
  BY <1>2, SyncFills DEF SyncShape
<1>8. \A p \in s.adds : /\ ~Turned(Idle, p)
                        /\ \/ Turned(task[t], p) /\ p \notin s.staged
                           \/ p \in Filled(s, t) /\ (p \in s.late \/ order[p] # "EXECUTED")
  BY <1>5, SyncFills
<1>9. \A p \in s.adds : p \in Live => broker[p] = "COMPLETE"
  BY SyncFills
<1>10. \A p \in Order : ~Explains(t, task[t], p)
  BY SyncHolds
<1> HIDE DEF s
<1> QED BY <1>1, <1>3, <1>4, <1>5, <1>6, <1>7, <1>8, <1>9, <1>10, CommitKeeps


-----------------------------------------------------------------------------
(* Postbacks                                                                  *)

LEMMA DeliverKeeps ==
  ASSUME FillInv, NEW t \in Post, NEW o \in Live, NEW state \in BrokerState, Deliver(t, o, state)
  PROVE  FillInv'
<1> DEFINE sn == [Idle.snap EXCEPT ![o] = state]
           k == [Idle EXCEPT !.pc = "set", !.todo = {o}, !.read = order, !.snap = sn]
<1>1. /\ t \in Task /\ task \in [Task -> TaskState] /\ task[t] \in TaskState /\ o \in Order
      /\ order \in [Order -> Status] /\ faults \in 0..MaxFaults /\ reports \in 0..MaxReports
  BY PostHolds, HereNow DEF Order
<1>2. sn \in [Live -> BrokerState] /\ sn[o] = state /\ \A p \in Live \ {o} : sn[p] = "OPEN"
  BY IdleFields, TaskFields
<1>3. task' = [task EXCEPT ![t] = k] /\ UNCHANGED <<broker, mail, books, history>>
      /\ task[t].pc = "idle" /\ faults' = faults
  BY <1>1 DEF Deliver
<1>4. reports' \in 0..MaxReports
  BY <1>1, BoundAssumption DEF Deliver
<1> HIDE DEF sn
<1>5. /\ k \in TaskState /\ k.pc = "set" /\ k.todo = {o} /\ k.read = order /\ k.snap = sn
      /\ k.staged = {} /\ k.adds = {}
  BY <1>1, <1>2, IdleFields DEF TaskState, Pc
<1> HIDE DEF k
<1>6. PostShape(k)
  BY <1>5 DEF PostShape
<1>7. InTime(k, order)
  BY <1>2, <1>5 DEF InTime, WillTurn, Deliver
<1>8. Genuine(k, broker)
  <2>1. state = "COMPLETE" => broker[o] = "COMPLETE"
    BY DEF Deliver, FillInv, BrokerFits
  <2> QED BY <1>2, <1>5, <2>1 DEF Genuine
<1>9. Holds(t, k, order, broker, booked) /\ \A p \in Order : ~Explains(t, task[t], p)
  BY <1>3, <1>6, <1>7, <1>8, PostHolds
<1>10. \A p \in Order : ~Turned(k, p)
  BY <1>5 DEF Turned
<1> QED BY <1>1, <1>3, <1>4, <1>5, <1>9, <1>10, QuietMoves

LEMMA PostSetKeeps ==
  ASSUME FillInv, NEW t \in Post, NEW o \in Live, PostSet(t, o)
  PROVE  FillInv'
<1> DEFINE new == MapStatus(task[t].snap[o])
           held == [task[t] EXCEPT !.pc = "book", !.late = {}]
           X == {o} \cap {x \in Order : new = "EXECUTED"}
           after == IF new = "EXECUTED" THEN held ELSE Idle
<1>1. /\ t \in Task /\ task \in [Task -> TaskState] /\ task[t] \in TaskState /\ o \in Order
      /\ order \in [Order -> Status] /\ booked \in [Order -> Nat] /\ reopened \in [Order -> Nat]
      /\ raced \in [Order -> Nat] /\ X \in SUBSET Order
  BY PostHolds, HereNow DEF Order, FillInv, FillTypeOK
<1>2. /\ new \in Status /\ new # "WAITING"
      /\ new = "EXECUTED" <=> task[t].snap[o] = "COMPLETE"
  <2>1. task[t].snap[o] \in BrokerState
    BY <1>1, TaskFields
  <2> QED BY <2>1, MapStatusFits
<1>3. /\ PostShape(task[t]) /\ InTime(task[t], order) /\ Genuine(task[t], broker)
      /\ task[t].pc = "set" /\ task[t].todo = {o}
  BY <1>1, HereNow, PostHolds DEF PostSet
<1>4. /\ order' = [order EXCEPT ![o] = new]
      /\ reopened' = Bump(reopened, {o} \cap {x \in Order : order[x] = "EXECUTED" /\ new # order[x]})
      /\ raced' = Bump(raced, {o} \cap {x \in task[t].late : new = "EXECUTED"})
      /\ task' = [u \in Task |-> IF u # t THEN Overtakes(X, u) ELSE after]
      /\ UNCHANGED <<broker, mail, member, row, booked, dropped, overlap, reports, faults>>
  BY DEF PostSet
<1>5. /\ held \in TaskState /\ held.pc = "book" /\ held.todo = {o} /\ held.snap = task[t].snap
      /\ held.staged = {} /\ held.adds = {}
  <2>1. task[t].staged = {} /\ task[t].adds = {}
    BY <1>3 DEF PostShape
  <2> QED BY <1>1, <1>3, <2>1 DEF TaskState, Pc
<1>6. /\ after \in TaskState /\ after.adds = {}
      /\ new = "EXECUTED" => after = held
      /\ new # "EXECUTED" => after = Idle
  BY <1>5, IdleFields
<1>7. /\ \A p \in Order : p \in X <=> p = o /\ new = "EXECUTED"
      /\ \A p \in Order : order'[p] = IF p = o THEN new ELSE order[p]
      /\ order' \in [Order -> Status]
  BY <1>1, <1>2, <1>4
<1> HIDE DEF new, held, X, after
<1>8. /\ reopened' \in [Order -> Nat] /\ raced' \in [Order -> Nat]
      /\ \A p \in Order : reopened'[p] = IF p = o /\ order[p] = "EXECUTED" /\ new # order[p]
                                         THEN reopened[p] + 1 ELSE reopened[p]
      /\ \A p \in Order : raced'[p] = IF p = o /\ p \in task[t].late /\ new = "EXECUTED"
                                      THEN raced[p] + 1 ELSE raced[p]
  BY <1>1, <1>4, BumpType
<1>9. /\ task' \in [Task -> TaskState] /\ task'[t] = after
      /\ \A u \in Task \ {t} : Overtaken(task[u], task'[u], X)
  <2>1. \A u \in Task : Overtakes(X, u) \in TaskState /\ Overtaken(task[u], Overtakes(X, u), X)
    BY <1>1, OvertakesFields
  <2> QED BY <1>1, <1>4, <1>6, <2>1
<1>10. FillTypeOK'
  BY <1>4, <1>7, <1>8, <1>9 DEF FillInv, FillTypeOK
<1>11. BrokerFits'
  BY <1>4 DEF FillInv, BrokerFits
<1>12. MemberFits'
  <2>1. Bookings' = Bookings
    BY <1>4 DEF Bookings
  <2>2. \A u \in Task : /\ task'[u].adds # {} => task[u].adds # {}
                        /\ task'[u].adds # {} => task'[u].base = task[u].base
    BY <1>6, <1>9 DEF Overtaken
  <2> QED BY <1>4, <2>1, <2>2 DEF FillInv, MemberFits
<1>13. Holds(t, task'[t], order', broker', booked')
  <2>1. CASE new = "EXECUTED"
    <3>1. broker[o] = "COMPLETE"
      BY <1>2, <1>3, <2>1 DEF Genuine
    <3>2. PostShape(held)
      BY <1>5 DEF PostShape
    <3>3. InTime(held, order')
      BY <1>5 DEF InTime, WillTurn
    <3>4. Genuine(held, broker')
      BY <1>3, <1>4, <1>5, <3>1 DEF Genuine
    <3> QED BY <1>6, <1>9, <2>1, <3>2, <3>3, <3>4, PostHolds
  <2>2. CASE new # "EXECUTED"
    BY <1>1, <1>6, <1>9, <2>2, IdleHolds
  <2> QED BY <2>1, <2>2
<1>14. \A p \in Order : \A u \in Task \ {t} :
         order'[p] = "EXECUTED" /\ order[p] # "EXECUTED" /\ WillTurn(task[u], p) => p \in X
  BY <1>7
<1>15. \A p \in Order : order'[p] = "WAITING" => order[p] = "WAITING"
  BY <1>2, <1>7
<1>16. ASSUME NEW p \in Order
       PROVE  booked'[p] + (IF Turned(task'[t], p) THEN 1 ELSE 0) + Turnable(order'[p])
                      + reopened[p] + raced[p]
                <= booked[p] + (IF Turned(task[t], p) THEN 1 ELSE 0) + Turnable(order[p])
                      + reopened'[p] + raced'[p]
  <2>1. booked[p] \in Nat /\ reopened[p] \in Nat /\ raced[p] \in Nat /\ booked'[p] = booked[p]
    BY <1>1, <1>4
  <2>2. ~Turned(task[t], p) /\ (Turned(task'[t], p) => p = o /\ new = "EXECUTED")
    BY <1>3, <1>5, <1>6, <1>9, IdleFields DEF Turned
  <2>3. new = "EXECUTED" => o \in task[t].late \/ order[o] # "EXECUTED"
    BY <1>1, <1>3 DEF InTime, WillTurn, new
  <2> QED BY <1>7, <1>8, <2>1, <2>2, <2>3 DEF Turnable
<1>17. ASSUME NEW p \in Order, order'[p] = "EXECUTED"
       PROVE  \/ p \in dropped'
              \/ Explains(t, task'[t], p)
              \/ order[p] = "EXECUTED" /\ ~Explains(t, task[t], p)
  <2>1. \A q : ~Explains(t, task[t], q)
    BY <1>3 DEF Explains
  <2>2. CASE p = o
    <3>1. new = "EXECUTED"
      BY <1>7, <1>17, <2>2
    <3> QED BY <1>5, <1>6, <1>9, <2>2, <3>1 DEF Explains
  <2>3. CASE p # o
    BY <1>7, <1>17, <2>1, <2>3
  <2> QED BY <2>2, <2>3
<1>18. broker' = broker /\ dropped \subseteq dropped' /\ \A p \in Order : booked'[p] >= booked[p]
  BY <1>1, <1>4
<1> QED BY <1>1, <1>9, <1>10, <1>11, <1>12, <1>13, <1>14, <1>15, <1>16, <1>17, <1>18, StepKeeps


LEMMA PostBookKeeps ==
  ASSUME FillInv, NEW t \in Post, NEW o \in Live, PostBook(t, o)
  PROVE  FillInv'
<1> DEFINE s == [task[t] EXCEPT !.pc = "end", !.todo = {}, !.late = {}]
           held == WithFill(s, o)
<1>1. /\ t \in Task /\ t \notin Sync /\ task[t] \in TaskState /\ task \in [Task -> TaskState]
      /\ o \in Order /\ member \in Nat
  BY PostHolds, HereNow DEF Order, FillInv, FillTypeOK
<1>2. /\ PostShape(task[t]) /\ Genuine(task[t], broker)
      /\ task[t].pc = "book" /\ task[t].todo = {o} /\ task[t].adds = {} /\ task[t].staged = {}
  BY <1>1, HereNow, PostHolds DEF PostBook, PostShape
<1>3. Book(t, o, s) /\ UNCHANGED <<broker, mail, dropped, reports, faults>>
  BY DEF PostBook
<1>4. /\ s \in TaskState /\ s.pc = "end" /\ s.todo = {} /\ s.staged = {} /\ s.adds = {}
      /\ s.snap = task[t].snap /\ s.base = task[t].base /\ s.adds = task[t].adds
  BY <1>1, <1>2 DEF TaskState, Pc
<1> HIDE DEF s
<1>5. /\ held \in TaskState /\ held.pc = "end" /\ held.snap = task[t].snap /\ held.todo = {}
      /\ held.staged = {} /\ held.adds = {o}
  BY <1>1, <1>4, WithFillFields
<1>6. NoteOverlap(t)
  BY <1>3 DEF Book
<1>7. /\ overlap' \in BOOLEAN /\ (overlap => overlap')
      /\ ~overlap' => held.base = member /\ \A u \in Task \ {t} : task[u].adds = {}
  BY <1>1, <1>4, <1>6, BookIsAlone
<1>8. broker[o] = "COMPLETE" /\ Turned(task[t], o)
  BY <1>2 DEF Genuine, Turned
<1>9. \A p \in Order : Explains(t, task[t], p) => p = o
  BY <1>2 DEF Explains
<1>10. CASE Inserts(o) /\ Commit(held, t, {o}, Committed(held))
  <2> DEFINE after == Committed(held)
  <2>1. /\ after \in TaskState /\ after.pc = "end" /\ after.snap = task[t].snap
        /\ after.todo = {} /\ after.staged = {} /\ after.adds = {}
    BY <1>5, CommittedFields
  <2>2. Commit(held, t, {o}, after) /\ {o} \in SUBSET Order
    BY <1>1, <1>10
  <2> HIDE DEF after, held
  <2>3. PostShape(after) /\ InTime(after, order')
    BY <2>1 DEF PostShape, InTime, WillTurn
  <2>4. Genuine(after, broker')
    BY <1>2, <1>3, <2>1 DEF Genuine
  <2>5. Holds(t, after, order', broker', booked')
    BY <2>3, <2>4, PostHolds
  <2>6. \A p : ~Turned(after, p)
    BY <2>1 DEF Turned
  <2>7. \A p \in held.adds : /\ ~Turned(after, p)
                             /\ \/ Turned(task[t], p) /\ p \notin held.staged
                                \/ p \in Filled(held, t) /\ (p \in held.late \/ order[p] # "EXECUTED")
    BY <1>5, <1>8, <2>6
  <2>8. \A p \in held.adds : p \in Live => broker[p] = "COMPLETE"
    BY <1>5, <1>8
  <2>9. Filled(held, t) \subseteq held.adds /\ after.adds = {}
    BY <1>5, <2>1 DEF Filled
  <2>10. ~overlap' /\ held.adds # {} => held.base = member /\ \A u \in Task \ {t} : task[u].adds = {}
    BY <1>7
  <2>11. \A p \in Order : Explains(t, task[t], p) => p \in held.adds
    BY <1>5, <1>9
  <2> QED BY <1>1, <1>3, <1>5, <1>7, <2>1, <2>2, <2>5, <2>6, <2>7, <2>8, <2>9, <2>10, <2>11, CommitKeeps
<1>11. CASE ~(Inserts(o) /\ Commit(held, t, {o}, Committed(held)))
  <2> DEFINE k == [held EXCEPT !.flushed = @ \/ Grows(o)]
  <2>1. /\ task' = [task EXCEPT ![t] = k]
        /\ UNCHANGED <<broker, mail, dropped, reports, faults>>
        /\ UNCHANGED <<books, booked, reopened, raced>>
    BY <1>3, <1>11 DEF Book
  <2> HIDE DEF held
  <2>2. /\ k \in TaskState /\ k.pc = "end" /\ k.snap = task[t].snap /\ k.todo = {}
        /\ k.staged = {} /\ k.adds = {o} /\ k.base = held.base
    <3>1. Grows(o) \in BOOLEAN
      BY DEF Grows
    <3> QED BY <1>5, <3>1 DEF TaskState
  <2> HIDE DEF k
  <2>3. PostShape(k) /\ InTime(k, order)
    BY <2>2 DEF PostShape, InTime, WillTurn
  <2>4. Genuine(k, broker)
    BY <1>2, <1>8, <2>2 DEF Genuine
  <2>5. Holds(t, k, order, broker, booked)
    BY <2>3, <2>4, PostHolds
  <2>6. \A p \in Order : Turned(k, p) => Turned(task[t], p)
    BY <1>8, <2>2 DEF Turned
  <2>7. /\ UNCHANGED <<broker, mail, books, booked, reopened, raced>>
        /\ dropped \subseteq dropped' /\ dropped' \subseteq Order
        /\ reports' \in 0..MaxReports /\ faults' \in 0..MaxFaults
    BY <2>1 DEF FillInv, FillTypeOK
  <2>8. ~overlap' /\ k.adds # {} => k.base = member /\ \A u \in Task \ {t} : task[u].adds = {}
    BY <1>7, <2>2
  <2>9. \A p \in Order : Explains(t, task[t], p) => Explains(t, k, p)
    BY <1>9, <2>2, PostHolds
  <2> QED BY <1>1, <1>7, <2>1, <2>2, <2>5, <2>6, <2>7, <2>8, <2>9, TaskMoves
<1> QED BY <1>10, <1>11

LEMMA PostLoseKeeps ==
  ASSUME FillInv, NEW t \in Post, NEW o \in Live, PostLose(t, o)
  PROVE  FillInv'
<1>1. t \in Task /\ o \in Order /\ PostShape(task[t]) /\ task[t].pc = "book" /\ task[t].todo = {o}
  BY HereNow, PostHolds DEF PostLose, Order
<1>2. \A p \in Order : Explains(t, task[t], p) => p = o
  BY <1>1 DEF PostShape, Explains
<1>3. /\ task' = [task EXCEPT ![t] = Idle] /\ dropped' = dropped \cup {o}
      /\ UNCHANGED <<broker, mail, books, booked, reopened, raced, overlap, reports, faults>>
  BY DEF PostLose
<1>4. dropped \subseteq dropped' /\ dropped' \subseteq Order
  BY <1>1, <1>3 DEF FillInv, FillTypeOK
<1> QED BY <1>1, <1>2, <1>3, <1>4, IdleKeeps

LEMMA PostEndKeeps ==
  ASSUME FillInv, NEW t \in Post, PostEnd(t)
  PROVE  FillInv'
<1> DEFINE s == task[t]
<1>1. t \in Task /\ t \notin Sync /\ s \in TaskState
  BY PostHolds, HereNow
<1>2. /\ PostShape(s) /\ Genuine(s, broker) /\ s.pc = "end" /\ s.todo = {} /\ s.staged = {}
      /\ s.adds \subseteq Live
  BY <1>1, HereNow, PostHolds DEF PostEnd, PostShape
<1>3. /\ Commit(s, t, {}, Idle) /\ UNCHANGED <<broker, mail, dropped, reports, faults>>
      /\ overlap' = overlap /\ overlap \in BOOLEAN
  BY DEF PostEnd, FillInv, FillTypeOK
<1>4. Idle \in TaskState /\ Idle.adds = {} /\ {} \in SUBSET Order
  BY IdleFields
<1>5. Holds(t, Idle, order', broker', booked') /\ \A p : ~Turned(Idle, p)
  BY <1>1, IdleHolds
<1>6. ~overlap' /\ s.adds # {} => s.base = member /\ \A u \in Task \ {t} : task[u].adds = {}
  BY <1>1, <1>3, AloneBooks
<1>7. Filled(s, t) \subseteq s.adds
  BY <1>2 DEF Filled
<1>8. \A p \in s.adds : /\ ~Turned(Idle, p)
                        /\ \/ Turned(task[t], p) /\ p \notin s.staged
                           \/ p \in Filled(s, t) /\ (p \in s.late \/ order[p] # "EXECUTED")
  BY <1>2, <1>5 DEF Turned
<1>9. \A p \in s.adds : p \in Live => broker[p] = "COMPLETE"
  BY <1>2 DEF Genuine
<1>10. \A p \in Order : Explains(t, task[t], p) => p \in s.adds
  BY <1>2 DEF Explains
<1> HIDE DEF s
<1> QED BY <1>1, <1>3, <1>4, <1>5, <1>6, <1>7, <1>8, <1>9, <1>10, CommitKeeps


-----------------------------------------------------------------------------
(* Paper trading                                                              *)

\* Nobody may turn an order that has not been submitted.
LEMMA WaitingIsLeft ==
  ASSUME FillInv, NEW u \in Task, NEW o \in Paper, order[o] = "WAITING"
  PROVE  ~WillTurn(task[u], o)
<1>1. Shape(u, task[u]) /\ Submitted(u, task[u], order, booked) /\ o \notin Live
  BY HereNow, OrderAssumption DEF Holds
<1>2. u \in Sync \/ u \in Post \/ u \in Poll
  BY DEF Task
<1>3. CASE u \in Sync
  BY <1>1, <1>3 DEF Shape, SyncShape, WillTurn
<1>4. CASE u \in Post
  BY <1>1, <1>4 DEF Shape, PostShape, WillTurn
<1>5. CASE u \in Poll
  BY <1>1, <1>5 DEF Shape, PollShape, Submitted, WillTurn
<1> QED BY <1>2, <1>3, <1>4, <1>5

\* A paper task moves on to k, and an order without a booking changes its status.
LEMMA PaperMoves ==
  ASSUME FillInv, NEW t \in Poll, NEW o \in Paper, NEW k \in TaskState, NEW status \in Status,
         task' = [task EXCEPT ![t] = k], order' = [order EXCEPT ![o] = status],
         UNCHANGED <<broker, mail, member, row, booked, raced, dropped, overlap>>,
         reports' \in 0..MaxReports, faults' \in 0..MaxFaults, reopened' \in [Order -> Nat],
         status = "EXECUTED" => order[o] = "WAITING", status # "WAITING",
         Holds(t, k, order', broker, booked), k.adds = {}, task[t].pc \in {"idle", "end"},
         \A p \in Order : Turned(k, p) => p = o /\ status = "EXECUTED",
         status = "EXECUTED" => Explains(t, k, o),
         \A p \in Order : reopened'[p] = IF p = o /\ order[p] = "EXECUTED" THEN reopened[p] + 1
                                         ELSE reopened[p]
  PROVE  FillInv'
<1>1. /\ t \in Task /\ task \in [Task -> TaskState] /\ task[t] \in TaskState /\ o \in Order
      /\ order \in [Order -> Status] /\ booked \in [Order -> Nat] /\ reopened \in [Order -> Nat]
      /\ raced \in [Order -> Nat] /\ PollShape(task[t]) /\ Submitted(t, task[t], order, booked)
  BY PollHolds, HereNow DEF Order, FillInv, FillTypeOK
<1>2. /\ task'[t] = k /\ task' \in [Task -> TaskState]
      /\ \A u \in Task \ {t} : task'[u] = task[u]
  BY <1>1
<1>3. /\ order' \in [Order -> Status]
      /\ \A p \in Order : order'[p] = IF p = o THEN status ELSE order[p]
  BY <1>1
<1>4. FillTypeOK'
  BY <1>2, <1>3 DEF FillInv, FillTypeOK
<1>5. BrokerFits'
  BY DEF FillInv, BrokerFits
<1>6. MemberFits'
  <2>1. Bookings' = Bookings
    BY DEF Bookings
  <2>2. \A u \in Task : /\ task'[u].adds # {} => task[u].adds # {}
                        /\ task'[u].adds # {} => task'[u].base = task[u].base
    BY <1>2
  <2> QED BY <2>1, <2>2 DEF FillInv, MemberFits
<1>7. \A u \in Task \ {t} : Overtaken(task[u], task'[u], {})
  BY <1>2 DEF Overtaken
<1>8. Holds(t, task'[t], order', broker', booked')
  BY <1>2
<1>9. \A p \in Order : \A u \in Task \ {t} :
        order'[p] = "EXECUTED" /\ order[p] # "EXECUTED" /\ WillTurn(task[u], p) => p \in {}
  BY <1>3, WaitingIsLeft
<1>10. \A p \in Order : order'[p] = "WAITING" => order[p] = "WAITING"
  BY <1>3
<1>11. \A p \in Order : booked'[p] >= booked[p]
  BY <1>1
<1>12. ASSUME NEW p \in Order
       PROVE  booked'[p] + (IF Turned(task'[t], p) THEN 1 ELSE 0) + Turnable(order'[p])
                      + reopened[p] + raced[p]
                <= booked[p] + (IF Turned(task[t], p) THEN 1 ELSE 0) + Turnable(order[p])
                      + reopened'[p] + raced'[p]
  <2>1. booked[p] \in Nat /\ reopened[p] \in Nat /\ raced[p] \in Nat
    BY <1>1
  <2> QED BY <1>2, <1>3, <2>1 DEF Turnable
<1>13. ASSUME NEW p \in Order, order'[p] = "EXECUTED", booked'[p] = 0
       PROVE  \/ p \in dropped'
              \/ Explains(t, task'[t], p)
              \/ order[p] = "EXECUTED" /\ ~Explains(t, task[t], p)
  <2>1. CASE p = o
    BY <1>2, <1>3, <1>13, <2>1
  <2>2. CASE p # o
    <3>1. booked[p] = 0 /\ order[p] = "EXECUTED"
      BY <1>3, <1>13, <2>2
    <3>2. p \notin task[t].adds /\ (task[t].pc = "end" => p \notin task[t].todo)
      BY <1>1, <3>1 DEF PollShape, Submitted
    <3> QED BY <3>1, <3>2 DEF Explains
  <2> QED BY <2>1, <2>2
<1>14. {} \in SUBSET Order /\ dropped \subseteq dropped' /\ broker' = broker
  OBVIOUS
<1> QED BY <1>1, <1>4, <1>5, <1>6, <1>7, <1>8, <1>9, <1>10, <1>11, <1>12, <1>13, <1>14, StepKeeps

LEMMA PaperSubmitKeeps ==
  ASSUME FillInv, NEW t \in Poll, NEW o \in Paper, PaperSubmit(t, o)
  PROVE  FillInv'
<1>1. /\ t \in Task /\ task \in [Task -> TaskState] /\ task[t] \in TaskState /\ o \in Order
      /\ order \in [Order -> Status] /\ Holds(t, task[t], order, broker, booked)
      /\ reopened \in [Order -> Nat]
  BY PollHolds, HereNow DEF Order, FillInv, FillTypeOK
<1>2. /\ UNCHANGED <<broker, mail, member, row, booked, raced, dropped, overlap>>
      /\ reopened' = reopened /\ task[t].pc = "idle" /\ order[o] = "WAITING"
      /\ reports' \in 0..MaxReports /\ faults' \in 0..MaxFaults
  BY HereNow, <1>1 DEF PaperSubmit, history
<1>3. /\ reopened' \in [Order -> Nat]
      /\ \A p \in Order : reopened'[p] = IF p = o /\ order[p] = "EXECUTED" THEN reopened[p] + 1
                                         ELSE reopened[p]
  BY <1>1, <1>2
<1>4. PollShape(task[t]) /\ Genuine(task[t], broker)
  BY <1>1, PollHolds
<1>5. CASE order' = [order EXCEPT ![o] = "SENT"] /\ task' = task
  <2>1. task' = [task EXCEPT ![t] = task[t]] /\ "SENT" \in Status
    BY <1>1, <1>5 DEF Status
  <2>2. InTime(task[t], order') /\ Submitted(t, task[t], order', booked)
    BY <1>2 DEF InTime, WillTurn, Submitted
  <2>3. Holds(t, task[t], order', broker, booked)
    BY <1>4, <2>2, PollHolds
  <2>4. task[t].adds = {} /\ \A p \in Order : ~Turned(task[t], p)
    BY <1>2, <1>4 DEF PollShape, Turned
  <2> QED BY <1>1, <1>2, <1>3, <1>5, <2>1, <2>3, <2>4, PaperMoves
<1>6. CASE /\ order' = [order EXCEPT ![o] = "EXECUTED"]
           /\ task' = [task EXCEPT ![t] = [Idle EXCEPT !.pc = "book", !.todo = {o}]]
  <2> DEFINE k == [Idle EXCEPT !.pc = "book", !.todo = {o}]
  <2>1. /\ k \in TaskState /\ k.pc = "book" /\ k.todo = {o} /\ k.staged = {} /\ k.adds = {}
        /\ k.snap = Idle.snap
    BY <1>1, IdleFields DEF TaskState, Pc
  <2>2. task' = [task EXCEPT ![t] = k]
    BY <1>6
  <2> HIDE DEF k
  <2>3. PollShape(k) /\ InTime(k, order') /\ Submitted(t, k, order', booked)
    BY <2>1 DEF PollShape, InTime, WillTurn, Submitted
  <2>4. Genuine(k, broker)
    BY <2>1, IdleFields, OrderAssumption DEF Genuine
  <2>5. Holds(t, k, order', broker, booked)
    BY <2>3, <2>4, PollHolds
  <2>6. \A p \in Order : Turned(k, p) => p = o
    BY <2>1 DEF Turned
  <2>7. Explains(t, k, o) /\ "EXECUTED" \in Status
    BY <2>1 DEF Explains, Status
  <2> QED BY <1>1, <1>2, <1>3, <1>6, <2>1, <2>2, <2>5, <2>6, <2>7, PaperMoves
<1> QED BY <1>5, <1>6 DEF PaperSubmit

LEMMA PaperFallBackKeeps ==
  ASSUME FillInv, NEW t \in Poll, NEW o \in Paper, PaperFallBack(t, o)
  PROVE  FillInv'
<1>1. /\ t \in Task /\ o \in Order /\ order \in [Order -> Status] /\ reopened \in [Order -> Nat]
      /\ faults \in 0..MaxFaults /\ reports \in 0..MaxReports
  BY PollHolds, HereNow DEF Order, FillInv, FillTypeOK
<1>2. /\ UNCHANGED <<broker, mail, member, row, booked, raced, dropped, overlap>>
      /\ reopened' = Bump(reopened, IF order[o] = "EXECUTED" THEN {o} ELSE {})
      /\ task[t].pc = "end" /\ task' = [task EXCEPT ![t] = Idle]
      /\ order' = [order EXCEPT ![o] = "SENT"] /\ reports' = reports
  BY DEF PaperFallBack
<1>3. faults' \in 0..MaxFaults
  BY <1>1, BoundAssumption DEF PaperFallBack, Fault
<1>4. /\ reopened' \in [Order -> Nat]
      /\ \A p \in Order : reopened'[p] = IF p = o /\ order[p] = "EXECUTED" THEN reopened[p] + 1
                                         ELSE reopened[p]
  BY <1>1, <1>2, BumpType
<1>5. Idle \in TaskState /\ Idle.adds = {} /\ "SENT" \in Status
  BY IdleFields DEF Status
<1>6. Holds(t, Idle, order', broker, booked) /\ \A p : ~Turned(Idle, p)
  BY <1>1, IdleHolds
<1> QED BY <1>1, <1>2, <1>3, <1>4, <1>5, <1>6, PaperMoves

LEMMA PaperDoneKeeps ==
  ASSUME FillInv, NEW t \in Poll, PaperDone(t)
  PROVE  FillInv'
<1>1. t \in Task /\ PollShape(task[t]) /\ Submitted(t, task[t], order, booked)
  BY PollHolds, HereNow
<1>2. \A p \in Order : ~(Explains(t, task[t], p) /\ booked[p] = 0)
  BY <1>1 DEF PaperDone, PollShape, Submitted, Explains
<1>3. /\ task' = [task EXCEPT ![t] = Idle] /\ dropped' = dropped /\ dropped \subseteq Order
      /\ UNCHANGED <<broker, mail, books, booked, reopened, raced, overlap, reports, faults>>
  BY DEF PaperDone, history, FillInv, FillTypeOK
<1> QED BY <1>1, <1>2, <1>3, IdleKeeps

LEMMA PollEndKeeps ==
  ASSUME FillInv, NEW t \in Poll, PollEnd(t)
  PROVE  FillInv'
<1>1. t \in Task /\ \A p \in Order : ~Explains(t, task[t], p)
  BY PollHolds DEF PollEnd
<1>2. /\ task' = [task EXCEPT ![t] = Idle] /\ dropped' = dropped /\ dropped \subseteq Order
      /\ UNCHANGED <<broker, mail, books, booked, reopened, raced, overlap, reports, faults>>
  BY DEF PollEnd, history, FillInv, FillTypeOK
<1> QED BY <1>1, <1>2, IdleKeeps


LEMMA PollReadKeeps ==
  ASSUME FillInv, NEW t \in Poll, PollRead(t)
  PROVE  FillInv'
<1> DEFINE td == {o \in Paper : order[o] = "SENT"}
           k == [Idle EXCEPT !.pc = "visiting", !.read = order, !.todo = td]
<1>1. /\ t \in Task /\ order \in [Order -> Status] /\ td \subseteq Order
      /\ reports \in 0..MaxReports /\ faults \in 0..MaxFaults
  BY PollHolds, HereNow DEF Order
<1>2. td \subseteq Paper /\ \A o \in td : order[o] = "SENT"
  OBVIOUS
<1>3. task' = [task EXCEPT ![t] = k] /\ UNCHANGED <<broker, mail, books, history, reports, faults>>
      /\ task[t].pc = "idle"
  BY DEF PollRead
<1> HIDE DEF td
<1>4. /\ k \in TaskState /\ k.pc = "visiting" /\ k.read = order /\ k.todo = td /\ k.staged = {}
      /\ k.adds = {} /\ k.snap = Idle.snap
  BY <1>1, IdleFields DEF TaskState, Pc
<1> HIDE DEF k
<1>5. PollShape(k) /\ InTime(k, order) /\ Submitted(t, k, order, booked)
  BY <1>2, <1>4 DEF PollShape, InTime, WillTurn, Submitted
<1>6. Genuine(k, broker)
  BY <1>4, IdleFields DEF Genuine
<1>7. Holds(t, k, order, broker, booked) /\ \A p \in Order : ~Explains(t, task[t], p)
  BY <1>3, <1>5, <1>6, PollHolds
<1>8. \A p \in Order : ~Turned(k, p)
  BY <1>4 DEF Turned
<1>9. reports' \in 0..MaxReports /\ faults' \in 0..MaxFaults
  BY <1>1, <1>3
<1> QED BY <1>1, <1>3, <1>4, <1>7, <1>8, <1>9, QuietMoves

LEMMA PollPassKeeps ==
  ASSUME FillInv, NEW t \in Poll, NEW o \in Paper, PollPass(t, o)
  PROVE  FillInv'
<1> DEFINE k == Done(task[t], o)
<1>1. t \in Task /\ task[t] \in TaskState /\ task \in [Task -> TaskState]
  BY PollHolds, HereNow
<1>2. /\ k \in TaskState /\ k.pc = task[t].pc /\ k.read = task[t].read /\ k.snap = task[t].snap
      /\ k.todo = task[t].todo \ {o} /\ k.staged = task[t].staged /\ k.adds = task[t].adds
      /\ k.late = task[t].late /\ k.base = task[t].base
  BY <1>1, DoneFields
<1>3. task' = [task EXCEPT ![t] = k] /\ UNCHANGED <<broker, mail, books, history, reports, faults>>
      /\ task[t].pc = "visiting"
  BY <1>1 DEF PollPass, Visits
<1> HIDE DEF k
<1>4. PollShape(task[t]) /\ InTime(task[t], order) /\ Genuine(task[t], broker)
      /\ Submitted(t, task[t], order, booked)
  BY <1>1, HereNow, PollHolds
<1>5. PollShape(k) /\ InTime(k, order)
  BY <1>2, <1>4 DEF PollShape, InTime, WillTurn
<1>6. Genuine(k, broker) /\ Submitted(t, k, order, booked)
  BY <1>2, <1>3, <1>4 DEF Genuine, Submitted
<1>7. Holds(t, k, order, broker, booked) /\ \A p : ~Explains(t, task[t], p)
  BY <1>3, <1>5, <1>6, PollHolds
<1>8. \A p \in Order : Turned(k, p) => Turned(task[t], p)
  BY <1>2 DEF Turned
<1>9. reports' \in 0..MaxReports /\ faults' \in 0..MaxFaults
  BY <1>1, <1>3, HereNow
<1> QED BY <1>1, <1>2, <1>3, <1>7, <1>8, <1>9, QuietMoves

LEMMA PaperBookKeeps ==
  ASSUME FillInv, NEW t \in Poll, NEW o \in Paper, PaperBook(t, o)
  PROVE  FillInv'
<1> DEFINE s == WithFill(task[t], o)
           after == [Idle EXCEPT !.pc = "end", !.todo = {o}]
<1>1. /\ t \in Task /\ t \notin Sync /\ task[t] \in TaskState /\ task \in [Task -> TaskState]
      /\ o \in Order /\ member \in Nat /\ booked \in [Order -> Nat]
  BY PollHolds, HereNow DEF Order, FillInv, FillTypeOK
<1>2. /\ PollShape(task[t]) /\ task[t].pc = "book" /\ task[t].todo = {o}
      /\ task[t].adds = {} /\ task[t].staged = {}
  BY <1>1, HereNow, PollHolds DEF PaperBook, PollShape
<1>3. /\ NoteOverlap(t) /\ Commit(s, t, {}, after)
      /\ UNCHANGED <<broker, mail, dropped, reports, faults>>
  BY DEF PaperBook
<1>4. s \in TaskState /\ s.staged = {} /\ s.adds = {o}
  BY SMTT(30), <1>1, <1>2, WithFillFields
<1>5. /\ after \in TaskState /\ after.pc = "end" /\ after.todo = {o} /\ after.staged = {}
      /\ after.adds = {} /\ after.snap = Idle.snap
  BY <1>1, IdleFields DEF TaskState, Pc
<1>6. /\ overlap' \in BOOLEAN /\ (overlap => overlap')
      /\ ~overlap' => s.base = member /\ \A u \in Task \ {t} : task[u].adds = {}
  BY <1>1, <1>3, BookIsAlone
<1> HIDE DEF s, after
<1>7. booked'[o] > 0
  <2>1. booked' = Bump(booked, s.adds)
    BY <1>3 DEF Commit
  <2>2. booked'[o] = booked[o] + 1
    BY <1>1, <1>4, <2>1, BumpType
  <2> QED BY <1>1, <2>2
<1>8. PollShape(after) /\ InTime(after, order') /\ Submitted(t, after, order', booked')
  BY <1>5, <1>7 DEF PollShape, InTime, WillTurn, Submitted
<1>9. Genuine(after, broker')
  BY <1>5, IdleFields DEF Genuine
<1>10. Holds(t, after, order', broker', booked') /\ \A p : ~Turned(after, p)
  BY <1>5, <1>8, <1>9, PollHolds DEF Turned
<1>11. Filled(s, t) \subseteq s.adds /\ {} \in SUBSET Order
  BY <1>4 DEF Filled
<1>12. \A p \in s.adds : /\ ~Turned(after, p)
                         /\ \/ Turned(task[t], p) /\ p \notin s.staged
                            \/ p \in Filled(s, t) /\ (p \in s.late \/ order[p] # "EXECUTED")
  BY <1>2, <1>4, <1>10 DEF Turned
<1>13. \A p \in s.adds : p \in Live => broker[p] = "COMPLETE"
  BY <1>4, OrderAssumption
<1>14. \A p \in Order : Explains(t, task[t], p) => p \in s.adds
  BY <1>2, <1>4 DEF Explains
<1>15. ~overlap' /\ s.adds # {} => s.base = member /\ \A u \in Task \ {t} : task[u].adds = {}
  BY <1>6
<1> QED BY <1>1, <1>3, <1>4, <1>5, <1>6, <1>10, <1>11, <1>12, <1>13, <1>14, <1>15, CommitKeeps

LEMMA PollFillKeeps ==
  ASSUME FillInv, NEW t \in Poll, NEW o \in Paper, PollFill(t, o)
  PROVE  FillInv'
<1> DEFINE s == [Done(task[t], o) EXCEPT !.staged = {o}]
           held == WithFill(s, o)
           after == Committed(held)
           opened == {o} \cap {x \in Order : Inserts(x)}
<1>1. /\ t \in Task /\ t \notin Sync /\ task[t] \in TaskState /\ task \in [Task -> TaskState]
      /\ o \in Order /\ member \in Nat /\ order \in [Order -> Status]
  BY PollHolds, HereNow DEF Order, FillInv, FillTypeOK
<1>2. /\ PollShape(task[t]) /\ InTime(task[t], order) /\ Submitted(t, task[t], order, booked)
      /\ Genuine(task[t], broker)
      /\ task[t].pc = "visiting" /\ o \in task[t].todo /\ task[t].read[o] = "SENT"
      /\ task[t].adds = {} /\ task[t].staged = {}
  BY <1>1, HereNow, PollHolds DEF PollFill, Visits, PollShape
<1>3. /\ NoteOverlap(t) /\ Commit(held, t, opened, after)
      /\ UNCHANGED <<broker, mail, dropped, reports, faults>>
  BY DEF PollFill
<1>4. /\ s \in TaskState /\ s.pc = "visiting" /\ s.read = task[t].read /\ s.snap = task[t].snap
      /\ s.todo = task[t].todo \ {o} /\ s.staged = {o} /\ s.adds = {} /\ s.late = task[t].late
      /\ s.base = task[t].base
  <2> DEFINE d == Done(task[t], o)
  <2>1. /\ d \in TaskState /\ d.pc = "visiting" /\ d.read = task[t].read /\ d.snap = task[t].snap
        /\ d.todo = task[t].todo \ {o} /\ d.adds = {} /\ d.late = task[t].late
        /\ d.base = task[t].base
    BY <1>1, <1>2, DoneFields
  <2>2. s = [d EXCEPT !.staged = {o}]
    OBVIOUS
  <2> HIDE DEF d, s
  <2> QED BY <1>1, <2>1, <2>2 DEF TaskState
<1> HIDE DEF s
<1>5. /\ held \in TaskState /\ held.pc = "visiting" /\ held.read = task[t].read
      /\ held.snap = task[t].snap /\ held.todo = task[t].todo \ {o} /\ held.staged = {o}
      /\ held.adds = {o} /\ held.late = task[t].late
  <2>1. /\ held \in TaskState /\ held.pc = s.pc /\ held.read = s.read /\ held.snap = s.snap
        /\ held.todo = s.todo /\ held.staged = s.staged /\ held.adds = s.adds \cup {o}
        /\ held.late = s.late
    BY <1>1, <1>4, WithFillFields
  <2> HIDE DEF held
  <2> QED BY <1>4, <2>1
<1>6. /\ overlap' \in BOOLEAN /\ (overlap => overlap')
      /\ ~overlap' => held.base = member /\ \A u \in Task \ {t} : task[u].adds = {}
  BY ZenonT(60), <1>1, <1>2, <1>3, <1>4, BookIsAlone
<1> HIDE DEF held
<1>7. /\ after \in TaskState /\ after.pc = "visiting" /\ after.read = task[t].read
      /\ after.snap = task[t].snap /\ after.todo = task[t].todo \ {o} /\ after.staged = {}
      /\ after.adds = {} /\ after.late = task[t].late \ {o}
  BY <1>5, CommittedFields
<1>8. opened \in SUBSET Order
  BY <1>1
<1> HIDE DEF after, opened
<1>9. /\ \A p \in Order : order'[p] = "WAITING" => order[p] = "WAITING"
      /\ \A p \in Order \ {o} : order'[p] = order[p]
  <2>1. \A p \in Order : order'[p] = "WAITING" => order[p] = "WAITING"
    BY <1>1, <1>3, <1>5, <1>7, <1>8, CommitMoves
  <2>2. order' = [p \in Order |-> IF p \in held.staged THEN NewStatus(held, p, t) ELSE order[p]]
    BY <1>3 DEF Commit
  <2> QED BY <1>5, <2>1, <2>2
<1>10. PollShape(after)
  BY <1>2, <1>7 DEF PollShape
<1>11. InTime(after, order')
  <2> SUFFICES ASSUME NEW p \in Order, WillTurn(after, p), p \notin after.late
               PROVE  order'[p] # "EXECUTED"
    BY DEF InTime
  <2>1. p # o /\ WillTurn(task[t], p) /\ p \notin task[t].late
    BY <1>2, <1>7 DEF WillTurn
  <2> QED BY <1>2, <1>9, <2>1 DEF InTime
<1>12. Submitted(t, after, order', booked')
  <2>1. task[t].todo \subseteq Order
    BY <1>1, TaskFields
  <2> QED BY <1>2, <1>7, <1>9, <2>1 DEF Submitted
<1>13. Genuine(after, broker')
  BY <1>2, <1>3, <1>7 DEF Genuine
<1>14. Holds(t, after, order', broker', booked') /\ \A p : ~Turned(after, p)
  BY <1>7, <1>10, <1>11, <1>12, <1>13, PollHolds DEF Turned
<1>15. Filled(held, t) = {o}
  BY <1>1, <1>5 DEF Filled, NewStatus
<1>16. o \in held.late \/ order[o] # "EXECUTED"
  BY <1>1, <1>2, <1>5 DEF InTime, WillTurn
<1>17. \A p \in held.adds : /\ ~Turned(after, p)
                            /\ \/ Turned(task[t], p) /\ p \notin held.staged
                               \/ p \in Filled(held, t) /\ (p \in held.late \/ order[p] # "EXECUTED")
  BY <1>5, <1>14, <1>15, <1>16
<1>18. \A p \in held.adds : p \in Live => broker[p] = "COMPLETE"
  BY <1>5, OrderAssumption
<1>19. \A p \in Order : ~Explains(t, task[t], p)
  BY <1>2 DEF Explains
<1>20. ~overlap' /\ held.adds # {} => held.base = member /\ \A u \in Task \ {t} : task[u].adds = {}
  BY <1>6
<1>21. Filled(held, t) \subseteq held.adds
  BY <1>5, <1>15
<1> QED BY <1>1, <1>3, <1>5, <1>6, <1>7, <1>8, <1>14, <1>17, <1>18, <1>19, <1>20, <1>21, CommitKeeps

-----------------------------------------------------------------------------
(* The world around, and the theorems                                         *)

LEMMA BrokerEndsKeeps ==
  ASSUME FillInv, NEW o \in Live, NEW state \in {"COMPLETE", "CANCELLED"}, BrokerEnds(o, state)
  PROVE  FillInv'
<1>1. /\ broker \in [Live -> BrokerState] /\ broker[o] = "OPEN"
      /\ broker' = [broker EXCEPT ![o] = state] /\ mail' = mail \cup {<<o, state>>}
      /\ UNCHANGED <<books, task, history, reports, faults>>
  BY DEF BrokerEnds, FillInv, FillTypeOK
<1>2. \A p \in Live : broker[p] = "COMPLETE" => broker'[p] = "COMPLETE"
  BY <1>1
<1>3. FillTypeOK'
  BY <1>1 DEF FillInv, FillTypeOK, books, history, BrokerState
<1>4. ASSUME NEW t \in Task PROVE Holds(t, task[t], order, broker', booked)
  <2>1. Genuine(task[t], broker')
    BY <1>2, HereNow DEF Holds, Genuine
  <2> QED BY <2>1, HereNow DEF Holds
<1>5. (\A t \in Task : Holds(t, task[t], order, broker, booked))'
  BY <1>1, <1>4 DEF books, history
<1>6. (\A p \in Order : Once(p))'
  BY <1>1 DEF FillInv, Once, Booking, books, history
<1>7. BrokerFits'
  BY <1>1, <1>2 DEF FillInv, BrokerFits, history
<1>8. LossesExplained' /\ MemberFits'
  BY <1>1 DEF FillInv, LossesExplained, MemberFits, Bookings, books, history
<1> QED BY <1>3, <1>5, <1>6, <1>7, <1>8 DEF FillInv

LEMMA CloseRowKeeps ==
  ASSUME FillInv, NEW o \in Order, CloseRow(o)
  PROVE  FillInv'
<1>1. /\ row \in [Order -> {"none", "ACTIVE", "EXITED"}] /\ row' = [row EXCEPT ![o] = "EXITED"]
      /\ UNCHANGED <<broker, mail, order, member, task, history, reports, faults>>
  BY DEF CloseRow, FillInv, FillTypeOK
<1>2. FillTypeOK'
  BY <1>1 DEF FillInv, FillTypeOK, history
<1>3. (\A t \in Task : Holds(t, task[t], order, broker, booked))'
  BY <1>1, HereNow DEF history
<1>4. (\A p \in Order : Once(p))'
  BY <1>1 DEF FillInv, Once, Booking, history
<1>5. BrokerFits' /\ LossesExplained' /\ MemberFits'
  BY <1>1 DEF FillInv, BrokerFits, LossesExplained, MemberFits, Bookings, history
<1> QED BY <1>2, <1>3, <1>4, <1>5 DEF FillInv

LEMMA FillCrashKeeps ==
  ASSUME FillInv, FillCrash
  PROVE  FillInv'
<1>1. /\ task' = [t \in Task |-> Idle]
      /\ dropped' = dropped \cup {o \in Order : \E t \in Task : Explains(t, task[t], o)}
      /\ UNCHANGED <<broker, mail, books, booked, reopened, raced, overlap, reports>>
  BY DEF FillCrash, Explains, Task
<1>2. faults' \in 0..MaxFaults
  BY BoundAssumption DEF FillInv, FillTypeOK, FillCrash, Fault
<1>3. FillTypeOK'
  BY <1>1, <1>2, IdleFields DEF FillInv, FillTypeOK, books
<1>4. \A t \in Task : Holds(t, task'[t], order', broker', booked')
  BY <1>1, IdleHolds
<1>5. (\A t \in Task : Holds(t, task[t], order, broker, booked))'
  BY <1>4
<1>6. ASSUME NEW o \in Order PROVE Once(o)'
  <2>1. Booking(o)' = {}
    BY <1>1, IdleHolds DEF Booking
  <2>2. Cardinality(Booking(o)') = 0
    BY <2>1, FS_EmptySet
  <2>3. /\ booked[o] \in Nat /\ reopened[o] \in Nat /\ raced[o] \in Nat
        /\ Cardinality(Booking(o)) \in Nat /\ Turnable(order[o]) \in Nat
    BY BookingFinite DEF FillInv, FillTypeOK, Turnable
  <2>4. booked[o] + Turnable(order[o]) <= 1 + reopened[o] + raced[o]
    BY <2>3 DEF FillInv, Once
  <2>5. booked'[o] = booked[o] /\ order'[o] = order[o] /\ reopened'[o] = reopened[o]
        /\ raced'[o] = raced[o]
    BY <1>1 DEF books
  <2> QED BY <2>2, <2>3, <2>4, <2>5 DEF Once
<1>7. (\A o \in Order : Once(o))'
  BY <1>6
<1>8. BrokerFits'
  BY <1>1 DEF FillInv, BrokerFits
<1>9. LossesExplained'
  BY <1>1, LossesAre, LossesArePrime DEF FillInv, books
<1>10. MemberFits'
  <2>1. \A t \in Task : task'[t].adds = {}
    BY <1>1, IdleFields
  <2> QED BY <1>1, <2>1 DEF FillInv, MemberFits, Bookings, books
<1> QED BY <1>3, <1>5, <1>7, <1>8, <1>9, <1>10 DEF FillInv

LEMMA FillInitHolds == FillInit => FillInv
<1> SUFFICES ASSUME FillInit PROVE FillInv
  OBVIOUS
<1>1. PICK gone \in Over :
        /\ broker = [o \in Live |-> IF o \in gone THEN "CANCELLED" ELSE "OPEN"]
        /\ order = [o \in Order |-> IF o \in gone THEN "CANCELLED" ELSE Fresh[o]]
  BY DEF FillInit
<1>2. /\ mail = {<<o, broker[o]>> : o \in Live} /\ member = 0 /\ row = [o \in Order |-> "none"]
      /\ task = [t \in Task |-> Idle]
      /\ booked = [o \in Order |-> 0] /\ reopened = [o \in Order |-> 0]
      /\ raced = [o \in Order |-> 0] /\ dropped = {} /\ overlap = FALSE
      /\ reports = 0 /\ faults = 0
  BY DEF FillInit
<1>3. Fresh \in [Order -> Status] /\ \A o \in Order : Fresh[o] # "EXECUTED"
  BY DEF Fresh, Status
<1>4. order \in [Order -> Status] /\ \A o \in Order : order[o] # "EXECUTED"
  BY <1>1, <1>3 DEF Status
<1>5. broker \in [Live -> BrokerState] /\ \A o \in Live : broker[o] # "COMPLETE"
  BY <1>1 DEF BrokerState
<1>6. mail \subseteq Live \X BrokerState /\ \A o \in Live : <<o, "COMPLETE">> \notin mail
  BY <1>2, <1>5
<1>7. 0 \in 0..MaxReports /\ 0 \in 0..MaxFaults
  BY BoundAssumption
<1>8. FillTypeOK
  BY <1>2, <1>4, <1>5, <1>6, <1>7, IdleFields DEF FillTypeOK
<1>9. \A t \in Task : Holds(t, task[t], order, broker, booked)
  BY <1>2, IdleHolds
<1>10. ASSUME NEW o \in Order PROVE Once(o)
  <2>1. Booking(o) = {}
    BY <1>2, IdleHolds DEF Booking
  <2> QED BY <1>2, <1>4, <2>1, FS_EmptySet DEF Once, Turnable
<1>11. BrokerFits
  BY <1>2, <1>6 DEF BrokerFits, Order
<1>12. LossesExplained
  BY <1>4 DEF LossesExplained
<1>13. MemberFits
  <2>1. Bookings = {}
    BY <1>2 DEF Bookings
  <2> QED BY <1>2, <2>1, FS_EmptySet, IdleFields DEF MemberFits
<1> QED BY <1>8, <1>9, <1>10, <1>11, <1>12, <1>13 DEF FillInv

LEMMA FillStep == FillInv /\ [FillNext]_fillVars => FillInv'
<1> SUFFICES ASSUME FillInv, [FillNext]_fillVars PROVE FillInv'
  OBVIOUS
<1>1. ASSUME NEW t \in Sync, SyncStep(t) PROVE FillInv'
  BY <1>1, SyncFetchKeeps, SyncReadKeeps, SyncEndKeeps, SyncPassKeeps, SyncStageKeeps, SyncBookKeeps,
     SyncAbortKeeps DEF SyncStep
<1>2. ASSUME NEW t \in Post, NEW o \in Live, NEW state \in BrokerState, Deliver(t, o, state)
      PROVE  FillInv'
  BY <1>2, DeliverKeeps
<1>3. ASSUME NEW t \in Post, PostStep(t) PROVE FillInv'
  BY <1>3, PostSetKeeps, PostBookKeeps, PostLoseKeeps, PostEndKeeps DEF PostStep
<1>4. ASSUME NEW t \in Poll, PollStep(t) PROVE FillInv'
  BY <1>4, PaperDoneKeeps, PollReadKeeps, PollEndKeeps, PaperSubmitKeeps, PaperBookKeeps,
     PollPassKeeps, PollFillKeeps DEF PollStep
<1>5. ASSUME NEW t \in Poll, NEW o \in Paper, PaperFallBack(t, o) PROVE FillInv'
  BY <1>5, PaperFallBackKeeps
<1>6. ASSUME NEW o \in Live, NEW state \in {"COMPLETE", "CANCELLED"}, BrokerEnds(o, state)
      PROVE  FillInv'
  BY <1>6, BrokerEndsKeeps
<1>7. ASSUME NEW o \in Order, CloseRow(o) PROVE FillInv'
  BY <1>7, CloseRowKeeps
<1>8. CASE FillCrash
  BY <1>8, FillCrashKeeps
<1>9. CASE UNCHANGED fillVars
  <2>1. UNCHANGED <<broker, mail, books, task, history, reports, faults>>
    BY <1>9 DEF fillVars
  <2>2. FillTypeOK' /\ BrokerFits' /\ LossesExplained' /\ MemberFits'
    BY <2>1 DEF FillInv, FillTypeOK, BrokerFits, LossesExplained, MemberFits, Bookings, books, history
  <2>3. (\A t \in Task : Holds(t, task[t], order, broker, booked))'
    BY <2>1, HereNow DEF books, history
  <2>4. (\A p \in Order : Once(p))'
    BY <2>1 DEF FillInv, Once, Booking, books, history
  <2> QED BY <2>2, <2>3, <2>4 DEF FillInv
<1> QED BY <1>1, <1>2, <1>3, <1>4, <1>5, <1>6, <1>7, <1>8, <1>9 DEF FillNext

LEMMA FillAlways == FillSpec => []FillInv
<1>1. FillInit => FillInv
  BY FillInitHolds
<1>2. FillInv /\ [FillNext]_fillVars => FillInv'
  BY FillStep
<1> QED BY <1>1, <1>2, PTL DEF FillSpec

\* Statuses, books, task records and the history keep values the code can write.
THEOREM FillsTyped == FillSpec => []FillTypeOK
<1>1. FillInv => FillTypeOK
  BY DEF FillInv
<1> QED BY <1>1, FillAlways, PTL

\* For any orders, syncs, postback handlers and pollers: a fill is booked once for
\* each time its order turned EXECUTED or was read too early, and only if it traded.
THEOREM BookingsTrue == FillSpec => []BookingsAreTrue
<1>1. FillInv => BookingsAreTrue
  <2> SUFFICES ASSUME FillInv PROVE BookingsAreTrue
    OBVIOUS
  <2>1. ASSUME NEW o \in Order PROVE booked[o] <= 1 + reopened[o] + raced[o]
    <3>1. /\ booked[o] \in Nat /\ reopened[o] \in Nat /\ raced[o] \in Nat
          /\ Cardinality(Booking(o)) \in Nat /\ Turnable(order[o]) \in Nat
      BY BookingFinite DEF FillInv, FillTypeOK, Turnable
    <3>2. booked[o] + Cardinality(Booking(o)) + Turnable(order[o]) <= 1 + reopened[o] + raced[o]
      BY DEF FillInv, Once
    <3> QED BY <3>1, <3>2
  <2> QED BY <2>1 DEF FillInv, BrokerFits, BookingsAreTrue, FillsOnce, FillsAreReal
<1> QED BY <1>1, FillAlways, PTL

\* For any orders and tasks: an EXECUTED order is in the books, is being booked, or is
\* one that a death or a duplicate row has dropped; and the group's quantity is the
\* number of bookings unless two tasks held bookings at the same time.
THEOREM FillsReach == FillSpec => []FillsReachTheBooks
<1>1. FillInv => FillsReachTheBooks
  BY DEF FillInv, MemberFits, FillsReachTheBooks, MemberAddsUp
<1> QED BY <1>1, FillAlways, PTL

-----------------------------------------------------------------------------
(* The automations side by side, as they are model-checked                    *)

\* A step of the automation that is part of the behaviour is one of that component,
\* and leaves the others alone.
LEMMA AutomationSteps ==
  ASSUME [AutomationNext]_allVars
  PROVE  /\ [FillNext]_fillVars /\ [HexNext]_hexVars /\ [AiNext]_aiVars
         /\ [AlertNext]_alertVars /\ [IntakeNext]_intakeVars /\ [ChatNext]_chatVars
<1>1. CASE AutomationNext
  BY <1>1 DEF AutomationNext, userVars
<1>2. CASE UNCHANGED allVars
  BY <1>2 DEF allVars, userVars
<1> QED BY <1>1, <1>2

LEMMA AutomationParts ==
  AutomationSpec => /\ FillSpec /\ HexInit /\ [][HexNext]_hexVars /\ AiSpec
                    /\ AlertSpec /\ IntakeSpec /\ ChatSpec
<1>1. AutomationInit => FillInit /\ HexInit /\ AiInit /\ AlertInit /\ IntakeInit /\ ChatInit
  BY DEF AutomationInit
<1>2. [AutomationNext]_allVars =>
        /\ [FillNext]_fillVars /\ [HexNext]_hexVars /\ [AiNext]_aiVars
        /\ [AlertNext]_alertVars /\ [IntakeNext]_intakeVars /\ [ChatNext]_chatVars
  BY AutomationSteps
<1> QED BY <1>1, <1>2, PTL DEF AutomationSpec, FillSpec, AiSpec, AlertSpec, IntakeSpec, ChatSpec

\* Whichever automation acts - fills, holdings, alerts, signals, playbooks or the
\* assistant - what it stores keeps its type, and so does what the others store.
THEOREM AutomationTyped == AutomationSpec => []AutomationTypeOK
<1>1. FillTypeOK /\ HexTypeOK /\ AiTypeOK /\ AlertTypeOK /\ IntakeTypeOK /\ ChatTypeOK => AutomationTypeOK
  BY DEF AutomationTypeOK
<1> QED BY <1>1, AutomationParts, FillsTyped, HexInvHolds, HexInvTypes, AiTypes, AlertsTyped, SignalsTyped,
           ChatTypes, PTL
=============================================================================
