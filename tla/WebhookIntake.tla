----------------------------- MODULE WebhookIntake -----------------------------
(* Intake of TradingView signals (api/webhook.py): each becomes an order that *)
(* carries an idempotency key, and an AUTO order is executed at once.  When   *)
(* that fails, a copy of it without the key goes to the waiting queue.        *)
(*                                                                            *)
(* Deliveries of one signal repeat and overlap.  An execution (OrderExecution)*)
(* is reduced to its outcomes, and paper trading is left out.  What changes   *)
(* an order's quantity or price, its automatic sizing included, is left out,  *)
(* and so are the rejections before the routing to a user.                    *)
EXTENDS Integers, FiniteSets

CONSTANTS
  Signal,      \* signals, told apart by their idempotency keys
  Setups,      \* the configurations that can route a signal
  Handler,     \* request threads
  MaxDeliveries, MaxDowns   \* bounds: deliveries; crashes and lost answers

ASSUME SetupsAssumption == Setups # {} /\ Setups \subseteq [auto : BOOLEAN, legacy : BOOLEAN, fallback : BOOLEAN]
ASSUME IntakeAssumption == MaxDeliveries \in Nat /\ MaxDowns \in Nat

VARIABLES
  first,     \* the order that carries the key of each signal
  copy,      \* the status of its copy in the waiting queue
  intake,    \* what each handler is doing
  alerts,    \* alert rows stored for each signal
  sent,      \* orders placed for each signal, by any of its rows
  stray,     \* those of them that no row carries
  unheard,   \* history: placements whose answer was lost
  left,      \* history: signals whose configuration has no fallback, or whose handler died
  deliveries, downs

intakeVars == <<first, copy, intake, alerts, sent, stray, unheard, left, deliveries, downs>>

OrderState == {"none", "WAITING", "SENT", "FAILED", "REJECTED_RISK", "CANCELLED"}
OrderMode == {"AUTO", "MANUAL"}
Nobody == [pc |-> "idle", on |-> {}, cfg |-> CHOOSE c \in Setups : TRUE]
HandlerState == [pc : {"idle", "lookup", "alert", "order", "dispatch", "record", "raised", "requeue"},
                 on : SUBSET Signal, cfg : Setups]

IntakeInit ==
  /\ first = [s \in Signal |-> [status |-> "none", mode |-> "MANUAL", linked |-> FALSE]]
  /\ copy = [s \in Signal |-> "none"]
  /\ intake = [h \in Handler |-> Nobody]
  /\ alerts = [s \in Signal |-> 0] /\ sent = [s \in Signal |-> 0]
  /\ stray = [s \in Signal |-> 0] /\ unheard = [s \in Signal |-> 0]
  /\ left = {} /\ deliveries = 0 /\ downs = 0

-----------------------------------------------------------------------------
(* tradingview_webhook *)

On(h, s, pc) == intake[h].pc = pc /\ intake[h].on = {s}
MovesTo(h, pc) == intake' = [intake EXCEPT ![h].pc = pc]
Answers(h) == intake' = [intake EXCEPT ![h] = Nobody]
Down == downs < MaxDowns /\ downs' = downs + 1
Turns(s, status, mode) == first' = [first EXCEPT ![s].status = status, ![s].mode = mode]
Queued(row) == row.status = "WAITING" /\ row.mode = "MANUAL"

Receive(h, s) ==
  /\ intake[h].pc = "idle"
  /\ deliveries < MaxDeliveries /\ deliveries' = deliveries + 1
  /\ \E c \in Setups : intake' = [intake EXCEPT ![h] = [pc |-> "lookup", on |-> {s}, cfg |-> c]]
  /\ UNCHANGED <<first, copy, alerts, sent, stray, unheard, left, downs>>

\* An exit without a quantity and without a position to exit is only stored.
IgnoreExit(h, s) ==
  /\ On(h, s, "lookup")
  /\ alerts' = [alerts EXCEPT ![s] = @ + 1] /\ Answers(h)
  /\ UNCHANGED <<first, copy, sent, stray, unheard, left, deliveries, downs>>

\* The order of an earlier delivery is the answer; else the signal is new.
Lookup(h, s) ==
  /\ On(h, s, "lookup")
  /\ IF first[s].status # "none" THEN Answers(h) ELSE MovesTo(h, "alert")
  /\ UNCHANGED <<first, copy, alerts, sent, stray, unheard, left, deliveries, downs>>

StoreAlert(h, s) ==
  /\ On(h, s, "alert")
  /\ alerts' = [alerts EXCEPT ![s] = @ + 1] /\ MovesTo(h, "order")
  /\ UNCHANGED <<first, copy, sent, stray, unheard, left, deliveries, downs>>

ModeOf(c) == IF c.auto THEN "AUTO" ELSE "MANUAL"

\* Plausible bug: the index on the key is not unique.
StoreOrderAnyway(h, s) ==
  /\ On(h, s, "order")
  /\ Turns(s, "WAITING", ModeOf(intake[h].cfg))
  /\ IF intake[h].cfg.auto THEN MovesTo(h, "dispatch") ELSE Answers(h)
  /\ UNCHANGED <<copy, alerts, sent, stray, unheard, left, deliveries, downs>>

\* create_order_from_alert: the key is unique, a second row is an error (500).
StoreOrder(h, s) ==
  /\ On(h, s, "order")
  /\ IF first[s].status # "none" THEN first' = first ELSE Turns(s, "WAITING", ModeOf(intake[h].cfg))
  /\ IF first[s].status = "none" /\ intake[h].cfg.auto THEN MovesTo(h, "dispatch") ELSE Answers(h)
  /\ UNCHANGED <<copy, alerts, sent, stray, unheard, left, deliveries, downs>>

\* In a NO_TRADE window that pauses automation, and outside market hours in
\* PAPER mode, the order goes to the waiting queue.
HoldBack(h, s) ==
  /\ On(h, s, "dispatch")
  /\ Turns(s, "WAITING", "MANUAL") /\ Answers(h)
  /\ UNCHANGED <<copy, alerts, sent, stray, unheard, left, deliveries, downs>>

\* The execution fails before the broker is asked (the order stays WAITING: no
\* session, a busy scope), by the risk engine, or by the broker's refusal.
DispatchFails(h, s) ==
  /\ On(h, s, "dispatch")
  /\ \E st \in {"WAITING", "REJECTED_RISK", "FAILED"} : Turns(s, st, "AUTO")
  /\ MovesTo(h, "raised")
  /\ UNCHANGED <<copy, alerts, sent, stray, unheard, left, deliveries, downs>>

DispatchPlaces(h, s) ==
  /\ On(h, s, "dispatch")
  /\ sent' = [sent EXCEPT ![s] = @ + 1] /\ stray' = [stray EXCEPT ![s] = @ + 1]
  /\ MovesTo(h, "record")
  /\ UNCHANGED <<first, copy, alerts, unheard, left, deliveries, downs>>

DispatchRecords(h, s) ==
  /\ On(h, s, "record")
  /\ first' = [first EXCEPT ![s] = [status |-> "SENT", mode |-> "AUTO", linked |-> TRUE]]
  /\ stray' = [stray EXCEPT ![s] = IF @ > 0 THEN @ - 1 ELSE 0]
  /\ Answers(h)
  /\ UNCHANGED <<copy, alerts, sent, unheard, left, deliveries, downs>>

\* The broker has accepted, but its answer is lost: FAILED all the same.
DispatchUnheard(h, s) ==
  /\ On(h, s, "record") /\ Down
  /\ Turns(s, "FAILED", "AUTO") /\ unheard' = [unheard EXCEPT ![s] = @ + 1]
  /\ MovesTo(h, "raised")
  /\ UNCHANGED <<copy, alerts, sent, stray, left, deliveries>>

\* A legacy strategy marks an order FAILED that had no session; without the
\* fallback it stays as it is; both raise the error.
Raise(h, s) ==
  /\ On(h, s, "raised")
  /\ intake[h].cfg.legacy \/ ~intake[h].cfg.fallback
  /\ \/ first' = first
     \/ intake[h].cfg.legacy /\ first[s].status = "WAITING" /\ Turns(s, "FAILED", "AUTO")
  /\ left' = left \cup {s} /\ Answers(h)
  /\ UNCHANGED <<copy, alerts, sent, stray, unheard, deliveries, downs>>

\* Plausible bug: only what the execution has marked FAILED goes to the queue.
FallBackFailed(h, s) ==
  /\ On(h, s, "raised")
  /\ ~intake[h].cfg.legacy /\ intake[h].cfg.fallback
  /\ IF first[s].status = "FAILED" THEN MovesTo(h, "requeue") ELSE Answers(h)
  /\ UNCHANGED <<first, copy, alerts, sent, stray, unheard, left, deliveries, downs>>

\* The row is read again: only an order that is not sent, and that no sync has
\* linked to an order at the broker, falls back.
FallBack(h, s) ==
  /\ On(h, s, "raised")
  /\ ~intake[h].cfg.legacy /\ intake[h].cfg.fallback
  /\ \/ /\ first[s].linked /\ first' = first /\ Answers(h)
     \/ /\ ~first[s].linked /\ MovesTo(h, "requeue")
        /\ IF first[s].status = "WAITING" THEN Turns(s, "FAILED", first[s].mode) ELSE first' = first
  /\ UNCHANGED <<copy, alerts, sent, stray, unheard, left, deliveries, downs>>

\* requeue_order_to_waiting: the copy has no key, and no broker id.
Queue(h, s) ==
  /\ On(h, s, "requeue")
  /\ copy' = [copy EXCEPT ![s] = "WAITING"] /\ Answers(h)
  /\ UNCHANGED <<first, alerts, sent, stray, unheard, left, deliveries, downs>>

-----------------------------------------------------------------------------
(* The operator, the order sync, and the process *)

\* The operator executes or cancels what the waiting queue shows.
OperatorExecutes(s) ==
  /\ \/ /\ Queued(first[s]) /\ copy' = copy
        /\ first' = [first EXCEPT ![s].status = "SENT", ![s].linked = TRUE]
     \/ copy[s] = "WAITING" /\ copy' = [copy EXCEPT ![s] = "SENT"] /\ first' = first
  /\ sent' = [sent EXCEPT ![s] = @ + 1]
  /\ UNCHANGED <<intake, alerts, stray, unheard, left, deliveries, downs>>

OperatorCancels(s) ==
  /\ \/ Queued(first[s]) /\ Turns(s, "CANCELLED", "MANUAL") /\ copy' = copy
     \/ copy[s] = "WAITING" /\ copy' = [copy EXCEPT ![s] = "CANCELLED"] /\ first' = first
  /\ UNCHANGED <<intake, alerts, sent, stray, unheard, left, deliveries, downs>>

\* The sync links a stray order of the broker to a waiting one.
SyncLinks(s) ==
  /\ stray[s] > 0 /\ stray' = [stray EXCEPT ![s] = @ - 1]
  /\ \/ /\ first[s].status = "WAITING" /\ copy' = copy
        /\ first' = [first EXCEPT ![s].status = "SENT", ![s].linked = TRUE]
     \/ copy[s] = "WAITING" /\ copy' = [copy EXCEPT ![s] = "SENT"] /\ first' = first
  /\ UNCHANGED <<intake, alerts, sent, unheard, left, deliveries, downs>>

IntakeCrash ==
  /\ Down
  /\ intake' = [h \in Handler |-> Nobody]
  /\ left' = left \cup UNION {intake[h].on : h \in Handler}
  /\ UNCHANGED <<first, copy, alerts, sent, stray, unheard, deliveries>>

Handle(h, s) ==
  \/ IgnoreExit(h, s) \/ Lookup(h, s) \/ StoreAlert(h, s) \/ StoreOrder(h, s)
  \/ HoldBack(h, s) \/ DispatchFails(h, s) \/ DispatchPlaces(h, s) \/ DispatchRecords(h, s)
  \/ DispatchUnheard(h, s) \/ Raise(h, s) \/ FallBack(h, s) \/ Queue(h, s)

IntakeNext ==
  \/ \E h \in Handler, s \in Signal : Receive(h, s) \/ Handle(h, s)
  \/ \E s \in Signal : OperatorExecutes(s) \/ OperatorCancels(s) \/ SyncLinks(s)
  \/ IntakeCrash

IntakeSpec == IntakeInit /\ [][IntakeNext]_intakeVars

-----------------------------------------------------------------------------
(* Properties *)

IntakeTypeOK ==
  /\ first \in [Signal -> [status : OrderState, mode : OrderMode, linked : BOOLEAN]]
  /\ copy \in [Signal -> {"none", "WAITING", "SENT", "CANCELLED"}]
  /\ intake \in [Handler -> HandlerState]
  /\ \A f \in {alerts, sent, stray, unheard} : f \in [Signal -> Nat]
  /\ left \subseteq Signal

\* However often a signal is delivered, and whatever fails, falls back to the
\* queue and is executed from there, one order is placed for it, and one more
\* only for an answer of the broker that was lost.
SignalPlacedOnce == \A s \in Signal : sent[s] <= 1 + unheard[s]

\* A stored signal is placed, in the waiting queue, cancelled there, or in the
\* hands of a handler: no AUTO order is left behind that nobody will execute,
\* unless its handler died or its configuration has no fallback.
SignalsAreKept ==
  \A s \in Signal \ left :
    \/ first[s].status = "none" \/ first[s].linked
    \/ \E h \in Handler : intake[h].on = {s} /\ intake[h].pc \in {"dispatch", "record", "raised", "requeue"}
    \/ first[s].status = "CANCELLED"
    \/ Queued(first[s])
    \/ copy[s] # "none"

\* The webhook loses no signal and places none twice.
SignalsAreHandled == SignalPlacedOnce /\ SignalsAreKept
=============================================================================
