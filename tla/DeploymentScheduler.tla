-------------------------- MODULE DeploymentScheduler --------------------------
(* The scheduler of strategy deployments (services/deployment_scheduler.py),  *)
(* the market session it asks (core/market_hours.py) and the operator         *)
(* endpoints that steer it (api/deployments.py): which jobs of one deployment *)
(* get into the queue.  What becomes of a job is DeploymentJobs' matter.      *)
(*                                                                            *)
(* Time is counted in half minutes: in the first half of a minute, within the *)
(* lateness tolerance (5 s), the minute's bar is not taken as closed.  Nights *)
(* are left out.                                                              *)
EXTENDS Integers, FiniteSets

CONSTANTS
  Sym,                      \* the symbols of the deployment
  Plans,                    \* its configurations to look at, a set of PlanType
  Bar,                      \* minutes of a bar
  Open, Proxy, Close, Last, \* the session, the proxy close and the last minute
  Days, MaxBackfill,
  MaxOps, MaxGlitches       \* bounds: operator requests, crashes and conflicts

PlanType == [daily : BOOLEAN, mis : BOOLEAN, enter : BOOLEAN]

ASSUME PlanAssumption == Plans \subseteq PlanType
ASSUME ClockAssumption ==
  /\ Bar \in Nat \ {0} /\ Days \in Nat \ {0} /\ MaxBackfill \in Nat \ {0}
  /\ Open \in Nat /\ Proxy \in Nat /\ Close \in Nat /\ Last \in Nat
  /\ Open < Proxy /\ Proxy < Close /\ Close < Last
ASSUME OpAssumption == MaxOps \in Nat /\ MaxGlitches \in Nat

VARIABLES
  plan,      \* the deployment's configuration
  dep,       \* [enabled, status] of the deployment and its state row
  clock,     \* [day, half]
  cursor,    \* StrategyDeploymentBarCursor: the last bar emitted, per symbol
  queue,     \* the jobs ever enqueued, by dedupe key
  pump,      \* the scheduler's pass: what it has read and holds back
  lost,      \* history: bar jobs rolled back by a candle conflict
  ops, glitches

deployment == <<plan, dep>>
schedVars == <<deployment, clock, cursor, queue, pump, lost, ops, glitches>>

Day == 0..Days - 1
BarEnd == [day : Day, min : 0..Last]
Never == [day |-> -1, min |-> 0]
BarJob == {"BAR"} \X Sym \X BarEnd
NowJob == {"RUN_NOW", "ENTER_ON_START"} \X BarEnd
DayJob == {"PROXY", "SELL_OPEN", "BUY_CLOSE", "MIS_FLATTEN", "FORCE_FLATTEN",
           "RUN_NOW_PROXY"} \X Day
DepStatus == {"RUNNING", "PAUSED", "STOPPED"}
Time == [day : Day, half : 2 * Open..2 * Last]
Opening == [day |-> 0, half |-> 2 * Open]
Asleep == [on |-> FALSE, status |-> "STOPPED", clock |-> Opening, staged |-> {},
           cursor |-> [s \in Sym |-> Never], left |-> [s \in Sym |-> 0]]

SchedInit ==
  /\ plan \in Plans
  /\ dep = [enabled |-> TRUE, status |-> "RUNNING"]
  /\ clock = Opening
  /\ cursor = [s \in Sym |-> Never]
  /\ queue = {} /\ pump = Asleep
  /\ lost = {} /\ ops = 0 /\ glitches = 0

-----------------------------------------------------------------------------
(* Sessions and bars *)

\* is_trading_time takes in the whole closing minute.
TradingTime(t) == t.half \div 2 \in Open..Close
\* Later than a time of the day by more than the tolerance, and not past the close.
InWindow(t, from) == 2 * from < t.half /\ t.half < 2 * Close

\* latest_closed_bar_end_ist: bars end on a grid that starts with the hour.
LatestBar(t) == ((t.half - 1) \div (2 * Bar)) * Bar
BarsOpen(t) == TradingTime(t) /\ Open < LatestBar(t) /\ LatestBar(t) <= Close

\* Plausible bug: what was missed is skipped.
NextBarLatest(c, t) == IF c # Never /\ c.day = t.day /\ c.min >= LatestBar(t)
                       THEN c.min + Bar ELSE LatestBar(t)
\* iter_missing_bar_ends with the day roll: the first bar due after a cursor.
NextBar(c, t) == CASE c = Never -> LatestBar(t)
                   [] c # Never /\ c.day # t.day -> Open + Bar
                   [] c # Never /\ c.day = t.day -> c.min + Bar

-----------------------------------------------------------------------------
(* The scheduler's pass: one transaction, but for what a prefetch does to it. *)

PassBegin ==
  /\ ~pump.on /\ dep.enabled
  /\ pump' = [on |-> TRUE, status |-> dep.status, clock |-> clock, staged |-> {},
              cursor |-> cursor,
              left |-> [s \in Sym |-> IF dep.status = "RUNNING" /\ BarsOpen(clock)
                                      THEN MaxBackfill ELSE 0]]
  /\ UNCHANGED <<deployment, clock, cursor, queue, lost, ops, glitches>>

DueBar(s) == NextBar(pump.cursor[s], pump.clock)
Due(s) == pump.on /\ pump.left[s] > 0 /\ DueBar(s) <= LatestBar(pump.clock)
\* Plausible bug: the cursor moves to the latest bar, not to the emitted one.
EmitToLatest(s, staged, cur) ==
  LET bar == [day |-> pump.clock.day, min |-> DueBar(s)]
  IN  pump' = [pump EXCEPT !.staged = staged \cup {<<"BAR", s, bar>>},
                           !.cursor = [cur EXCEPT ![s] = [bar EXCEPT !.min = LatestBar(pump.clock)]],
                           !.left[s] = @ - 1]
\* Keep the due bar's job and cursor, on top of the rows `staged' and `cur'.
Emit(s, staged, cur) ==
  LET bar == [day |-> pump.clock.day, min |-> DueBar(s)]
  IN  pump' = [pump EXCEPT !.staged = staged \cup {<<"BAR", s, bar>>},
                           !.cursor = [cur EXCEPT ![s] = bar],
                           !.left[s] = @ - 1]

\* The candles are there already, or the fetch has failed.
PassBar(s) ==
  /\ Due(s)
  /\ Emit(s, pump.staged, pump.cursor)
  /\ UNCHANGED <<deployment, clock, cursor, queue, lost, ops, glitches>>

\* The prefetch stores candles: its commit takes the bars before with it.
PassBarStored(s) ==
  /\ Due(s) /\ ~plan.daily
  /\ Emit(s, {}, pump.cursor)
  /\ queue' = queue \cup pump.staged /\ cursor' = pump.cursor
  /\ UNCHANGED <<deployment, clock, lost, ops, glitches>>

\* Another writer had stored them: the rollback takes the bars before away, and
\* the loop goes on with the next one.
PassBarConflict(s) ==
  /\ Due(s) /\ ~plan.daily
  /\ glitches < MaxGlitches /\ glitches' = glitches + 1
  /\ Emit(s, {}, cursor)
  /\ lost' = lost \cup (pump.staged \ queue)
  /\ UNCHANGED <<deployment, clock, cursor, queue, ops>>

\* The jobs of the daily deployment, and the flatten window, which a daily one
\* that is not RUNNING does not get as far as.
DailyJob(kind, t) == /\ plan.daily /\ pump.status = "RUNNING"
                     /\ InWindow(t, IF kind = "SELL_OPEN" THEN Open ELSE Proxy)
FlattenJob(t) == /\ plan.mis /\ InWindow(t, Proxy)
                 /\ \/ pump.status = "RUNNING"
                    \/ pump.status = "PAUSED" /\ ~plan.daily
Windows(t) ==
  {j \in DayJob : /\ j[2] = t.day /\ TradingTime(t)
                  /\ \/ j[1] \in {"PROXY", "SELL_OPEN", "BUY_CLOSE"} /\ DailyJob(j[1], t)
                     \/ j[1] = "MIS_FLATTEN" /\ FlattenJob(t)}

PassEnd ==
  /\ pump.on /\ \A s \in Sym : ~Due(s)
  /\ queue' = queue \cup pump.staged \cup Windows(pump.clock)
  /\ cursor' = pump.cursor
  /\ pump' = Asleep
  /\ UNCHANGED <<deployment, clock, lost, ops, glitches>>

\* The pass or the process dies: its transaction is rolled back.
PassDies ==
  /\ pump.on /\ glitches < MaxGlitches /\ glitches' = glitches + 1
  /\ pump' = Asleep
  /\ UNCHANGED <<deployment, clock, cursor, queue, lost, ops>>

-----------------------------------------------------------------------------
(* Operator requests: each commits, and so waits for a pass that has written. *)

Operator == /\ ops < MaxOps /\ ops' = ops + 1
            /\ pump.staged = {}
            /\ UNCHANGED <<plan, clock, cursor, pump, lost, glitches>>

\* _maybe_enqueue_enter_on_start, run_deployment_now: the latest bar once more.
BarNow(kind) == {<<kind, [day |-> clock.day, min |-> m]>> :
                   m \in {x \in {LatestBar(clock)} : ~plan.daily /\ BarsOpen(clock)}}

\* start and resume; a LIVE deployment that the broker's positions contradict is
\* paused instead.
StartOrResume ==
  /\ Operator
  /\ \/ /\ dep' = [enabled |-> TRUE, status |-> "RUNNING"]
        /\ queue' = queue \cup (IF plan.enter THEN BarNow("ENTER_ON_START") ELSE {})
     \/ /\ dep' = [enabled |-> TRUE, status |-> "PAUSED"]
        /\ UNCHANGED queue

Pause ==
  /\ Operator
  /\ dep' = [dep EXCEPT !.status = "PAUSED"]
  /\ UNCHANGED queue

Stop ==
  /\ Operator
  /\ dep' = [enabled |-> FALSE, status |-> "STOPPED"]
  /\ UNCHANGED queue

\* Plausible bug: a status of its own.
UpdateConfigStale ==
  /\ Operator
  /\ dep' = [dep EXCEPT !.status = "STALE"]
  /\ UNCHANGED queue
\* A new configuration stops the deployment until it is started again.
UpdateConfig ==
  /\ Operator
  /\ dep' = [dep EXCEPT !.status = "STOPPED"]
  /\ UNCHANGED queue

UpdateEnabled ==
  /\ Operator
  /\ dep' \in {[enabled |-> TRUE, status |-> IF dep.status = "PAUSED" THEN "PAUSED" ELSE "RUNNING"],
               [enabled |-> FALSE, status |-> "STOPPED"]}
  /\ UNCHANGED queue

RunNow ==
  /\ Operator
  /\ dep.status # "PAUSED" /\ TradingTime(clock)
  /\ \/ /\ ~plan.daily /\ BarsOpen(clock)
        /\ queue' = queue \cup BarNow("RUN_NOW")
     \/ /\ plan.daily /\ clock.half \in 2 * Proxy..2 * Close - 1
        /\ queue' = queue \cup {<<"RUN_NOW_PROXY", clock.day>>}
  /\ UNCHANGED dep

\* resolve_direction_mismatch: keep paused, adopt the position, or flatten first.
Resolve ==
  /\ Operator
  /\ \/ /\ dep' = [dep EXCEPT !.status = "PAUSED"] /\ UNCHANGED queue
     \/ /\ dep' = [dep EXCEPT !.status = "RUNNING"]
        /\ queue' \in {queue, queue \cup {<<"FORCE_FLATTEN", clock.day>>}}

ClockTicks ==
  /\ clock' \in {[clock EXCEPT !.half = @ + 1], [day |-> clock.day + 1, half |-> 2 * Open]}
                \cap Time
  /\ clock'.day > clock.day => clock.half = 2 * Last
  /\ UNCHANGED <<deployment, cursor, queue, pump, lost, ops, glitches>>

SchedNext ==
  \/ PassBegin \/ PassEnd \/ PassDies
  \/ \E s \in Sym : PassBar(s) \/ PassBarStored(s) \/ PassBarConflict(s)
  \/ StartOrResume \/ Pause \/ Stop \/ UpdateConfig \/ UpdateEnabled \/ RunNow \/ Resolve
  \/ ClockTicks

SchedSpec == SchedInit /\ [][SchedNext]_schedVars

-----------------------------------------------------------------------------
(* Properties *)

SchedTypeOK ==
  /\ plan \in Plans /\ dep \in [enabled : BOOLEAN, status : DepStatus]
  /\ clock \in Time
  /\ cursor \in [Sym -> BarEnd \cup {Never}]
  /\ queue \subseteq BarJob \cup NowJob \cup DayJob
  /\ pump \in [on : BOOLEAN, status : DepStatus, clock : Time, staged : SUBSET BarJob,
               cursor : [Sym -> BarEnd \cup {Never}], left : [Sym -> 0..MaxBackfill]]
  /\ lost \subseteq BarJob
  /\ ops \in 0..MaxOps /\ glitches \in 0..MaxGlitches

\* From the first bar of a symbol and a day that has got into the queue, the bars
\* are emitted without a gap up to the cursor, over pauses, crashes and back-fills
\* of bounded length; only a candle conflict during a back-fill loses some.
NoBarSkipped ==
  \A s \in Sym :
    \A j \in {x \in queue : x[1] = "BAR"} :
      j[2] = s /\ j[3].day = cursor[s].day =>
        \A m \in j[3].min..cursor[s].min :
          (m - j[3].min) % Bar = 0 => <<"BAR", s, [j[3] EXCEPT !.min = m]>> \in queue \cup lost

\* The bars of a symbol and a day never overlap: whether counted from the hour or
\* from the session's open, a day keeps to one grid.
BarsOnOneGrid ==
  \A i, j \in {x \in queue : x[1] = "BAR"} :
    i[2] = j[2] /\ i[3].day = j[3].day => (i[3].min - j[3].min) % Bar = 0

\* What enqueue_due_jobs_once has emitted of a day is one grid without a gap.
BarsAreComplete == NoBarSkipped /\ BarsOnOneGrid
=============================================================================
