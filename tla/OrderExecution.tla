--------------------------- MODULE OrderExecution ---------------------------
(***************************************************************************)
(* How a queued order reaches the broker.  Requests (the waiting queue, an *)
(* AUTO creation) and the synthetic-GTT loop execute orders in parallel;   *)
(* each execution reserves the order's scope, passes the risk engine,      *)
(* calls the broker and records the answer.  Meanwhile the operator        *)
(* cancels, edits and requeues orders, and status syncs copy the broker's  *)
(* order book back, linking tickets nobody recorded.                       *)
(*                                                                         *)
(* A step is the code between two commits, sleeps or network calls.  The   *)
(* sessions keep what they have read (expire_on_commit=False): an          *)
(* execution never looks at its order's status again, and what it writes   *)
(* overwrites whatever the row has become.  Risk settings are enabled and  *)
(* every order is LIVE; a behaviour is one trading day.                    *)
(***************************************************************************)
EXTENDS Naturals, Sequences, FiniteSets

CONSTANTS
  Order,          \* ids of the orders that may exist, requeued copies included
  Local,          \* orders at a broker without GTT: SigmaTrader keeps the condition
  Exit,           \* orders that only reduce a position
  Scope, ScopeOf, \* (user, strategy_ref, symbol, product) of each order
  SymbolOf,       \* (user, broker, symbol, product): what the trade cap counts
  MaxTrades,      \* max_trades_per_symbol_per_day
  Request,        \* threads that serve one execute request at a time
  Gtt,            \* the synthetic-GTT loop
  Syncer,         \* concurrent status syncs
  NoOrder,
  MaxTickets,     \* bound on the placements of the day
  MaxTwice,       \* bound on the orders that are ever executed twice
  MaxFaults       \* bound on lost responses, crashes and unexpected exceptions

ASSUME ConstantsAssumption ==
  /\ Local \subseteq Order /\ Exit \subseteq Order
  /\ ScopeOf \in [Order -> Scope]
  /\ DOMAIN SymbolOf = Order
  /\ \A o, p \in Order : SymbolOf[o] = SymbolOf[p] => (o \in Local) = (p \in Local)
  /\ NoOrder \notin Order
  /\ Gtt \notin Request
  /\ {MaxTrades, MaxTickets, MaxTwice, MaxFaults} \subseteq Nat

Thread == Request \cup {Gtt}

VARIABLES
  order,     \* the orders table
  inflight,  \* inflight_order_id of each scope's execution_policy_state
  thread,    \* what each executing thread is doing
  pending,   \* the orders the GTT loop has read and not visited yet
  book,      \* the broker's order book, one ticket per accepted placement
  snap,      \* the part of the book each running sync has fetched
  fills,     \* how often each order's fill was applied to the portfolio
  twice,     \* history: orders executed again while, or after, they were sent
  faults

vars == <<order, inflight, thread, pending, book, snap, fills, twice, faults>>

Status == {"ABSENT", "WAITING", "SENDING", "SENT", "EXECUTED", "FAILED",
           "REJECTED", "REJECTED_RISK", "CANCELLED"}
OrderRow == [status : Status, mode : {"MANUAL", "AUTO"}, gtt : BOOLEAN,
             armed : BOOLEAN, triggered : BOOLEAN, ticket : Nat]
ThreadState == [pc : {"idle", "reserving", "checking", "ready", "sent", "closing", "failing"},
                order : Order \cup {NoOrder}, arm : BOOLEAN, ticket : Nat]
TicketState == {"OPEN", "COMPLETE", "REJECTED", "CANCELLED"}
Ticket == [order : Order, state : TicketState]

NoRow == [status |-> "ABSENT", mode |-> "MANUAL", gtt |-> FALSE,
          armed |-> FALSE, triggered |-> FALSE, ticket |-> 0]
Idle == [pc |-> "idle", order |-> NoOrder, arm |-> FALSE, ticket |-> 0]
Unfetched == [k \in {} |-> "OPEN"]

Init ==
  /\ order = [o \in Order |-> NoRow]
  /\ inflight = [s \in Scope |-> NoOrder]
  /\ thread = [t \in Thread |-> Idle]
  /\ pending = {}
  /\ book = << >>
  /\ snap = [y \in Syncer |-> Unfetched]
  /\ fills = [o \in Order |-> 0]
  /\ twice = {}
  /\ faults = 0

Running(o) == \E t \in Thread : thread[t].pc # "idle" /\ thread[t].order = o
Again(o, again) ==
  /\ twice' = IF again THEN twice \cup {o} ELSE twice
  /\ Cardinality(twice') <= MaxTwice

Fault == faults < MaxFaults /\ faults' = faults + 1

Set(o, status) == order' = [order EXCEPT ![o].status = status]
Rest(t) == thread' = [thread EXCEPT ![t] = Idle]
Goto(t, pc) == thread' = [thread EXCEPT ![t].pc = pc]

\* A reservation protects an execution that opens or adds to a position now.
Reserves(o, arm) == ~arm /\ o \notin Exit

Begin(t, o, arm) ==
  thread' = [thread EXCEPT ![t] =
    [pc |-> IF Reserves(o, arm) THEN "reserving" ELSE "checking",
     order |-> o, arm |-> arm, ticket |-> 0]]

-----------------------------------------------------------------------------
(* The waiting queue *)

Insert(o, row) == order[o].status = "ABSENT" /\ order' = [order EXCEPT ![o] = row]

\* A MANUAL order waits; a conditional AUTO order is armed at once.
Create(o) ==
  /\ \E g, auto \in BOOLEAN :
       /\ (g \/ auto) => g /\ o \in Local
       /\ Insert(o, [NoRow EXCEPT !.status = "WAITING", !.gtt = g, !.armed = auto,
                                  !.mode = IF auto THEN "AUTO" ELSE "MANUAL"])
  /\ UNCHANGED <<inflight, thread, pending, book, snap, fills, twice, faults>>

\* A plain AUTO order is executed by the thread that creates it.
CreateAuto(r, o) ==
  /\ thread[r].pc = "idle"
  /\ Insert(o, [NoRow EXCEPT !.status = "WAITING", !.mode = "AUTO"])
  /\ Begin(r, o, FALSE)
  /\ UNCHANGED <<inflight, pending, book, snap, fills, twice, faults>>

\* The end of an execution, however it ends, clears the order's reservation.
Release(o) ==
  inflight' = [s \in Scope |-> IF inflight[s] = o THEN NoOrder ELSE inflight[s]]

\* The operator's page may be old: a conditional order can be SENDING by now.
Execute(r, o) ==
  /\ thread[r].pc = "idle" /\ order[o].mode = "MANUAL"
  /\ order[o].status = "WAITING" \/ (order[o].status = "SENDING" /\ order[o].gtt)
  /\ Begin(r, o, order[o].gtt /\ order[o].status = "WAITING")
  /\ Again(o, Running(o) \/ order[o].status = "SENDING")
  /\ UNCHANGED <<order, inflight, pending, book, snap, fills, faults>>

\* "Only non-simulated WAITING orders can be executed."
Refuse(o) ==
  /\ order[o].status \notin {"ABSENT", "WAITING"}
  /\ ~(order[o].status = "SENDING" /\ order[o].gtt)
  /\ Release(o)
  /\ Again(o, Running(o))
  /\ UNCHANGED <<order, thread, pending, book, snap, fills, faults>>

\* The operator cancels a waiting order, or puts a cancelled one back.
Patch(o) ==
  /\ \/ order[o].status = "WAITING" /\ Set(o, "CANCELLED")
     \/ order[o].status = "CANCELLED" /\ Set(o, "WAITING")
  /\ UNCHANGED <<inflight, thread, pending, book, snap, fills, twice, faults>>

\* The operator makes a waiting order conditional, or unconditional again.
EditGtt(o) ==
  /\ o \in Local
  /\ order[o].status = "WAITING" /\ order[o].mode = "MANUAL"
  /\ \/ order' = [order EXCEPT ![o] = [@ EXCEPT !.gtt = TRUE]]
     \/ order' = [order EXCEPT ![o] =
          [@ EXCEPT !.gtt = FALSE, !.armed = FALSE, !.triggered = FALSE]]
  /\ UNCHANGED <<inflight, thread, pending, book, snap, fills, twice, faults>>

\* A copy of an unsent order enters the queue; the original stays as it is.
Requeue(o, copy) ==
  /\ order[o].status \in {"WAITING", "FAILED", "REJECTED_RISK", "CANCELLED"}
  /\ order[o].ticket = 0
  /\ ScopeOf[copy] = ScopeOf[o] /\ SymbolOf[copy] = SymbolOf[o]
  /\ (copy \in Exit) = (o \in Exit)
  /\ Insert(copy, [NoRow EXCEPT !.status = "WAITING", !.gtt = order[o].gtt])
  /\ UNCHANGED <<inflight, thread, pending, book, snap, fills, twice, faults>>

-----------------------------------------------------------------------------
(* One execution *)

At(t, pc) == thread[t].pc = pc
MyOrder(t) == thread[t].order

\* Mutant: a reservation can be taken from another order.
ReserveAnyway(t) ==
  LET o == MyOrder(t) IN
  /\ At(t, "reserving")
  /\ inflight' = [inflight EXCEPT ![ScopeOf[o]] = o]
  /\ Goto(t, "checking")
  /\ UNCHANGED <<order, pending, book, snap, fills, twice, faults>>

\* One compare-and-set: the scope is free, or reserved by this very order.
Reserve(t) ==
  LET o == MyOrder(t) IN
  /\ At(t, "reserving")
  /\ inflight[ScopeOf[o]] \in {NoOrder, o}
  /\ inflight' = [inflight EXCEPT ![ScopeOf[o]] = o]
  /\ Goto(t, "checking")
  /\ UNCHANGED <<order, pending, book, snap, fills, twice, faults>>

\* RISK_POLICY_CONCURRENT_EXECUTION after six seconds of waiting.
Busy(t) ==
  /\ At(t, "reserving")
  /\ inflight[ScopeOf[MyOrder(t)]] \notin {NoOrder, MyOrder(t)}
  /\ Goto(t, "failing")
  /\ UNCHANGED <<order, inflight, pending, book, snap, fills, twice, faults>>

\* The entries of a symbol that carry a broker id or are SENT.
Counted(sym) ==
  {o \in Order \ Exit : SymbolOf[o] = sym /\ (order[o].ticket # 0 \/ order[o].status = "SENT")}

\* Mutant: the cap admits one entry too many.
WithinCapLate(o) == o \in Exit \/ Cardinality(Counted(SymbolOf[o])) <= MaxTrades

WithinCap(o) == o \in Exit \/ Cardinality(Counted(SymbolOf[o])) < MaxTrades

PassRisk(t) ==
  /\ At(t, "checking")
  /\ WithinCap(MyOrder(t))
  /\ Goto(t, "ready")
  /\ UNCHANGED <<order, inflight, pending, book, snap, fills, twice, faults>>

\* The order row is committed and the execution is over but for its clean-up.
Conclude(t, row, pc) ==
  /\ order' = [order EXCEPT ![MyOrder(t)] = row]
  /\ Goto(t, pc)
  /\ UNCHANGED <<inflight, pending, book, snap, fills, twice>>

Row(t) == order[MyOrder(t)]

\* The cap, another reason, or an error of the risk engine, which fails closed.
RejectRisk(t) ==
  /\ At(t, "checking")
  /\ Conclude(t, [Row(t) EXCEPT !.status = "REJECTED_RISK"], "failing")
  /\ UNCHANGED faults

\* A NO_TRADE window turns an AUTO execution into an item of the manual queue.
\* (The status an AUTO order was read with is WAITING: it is not written.)
PauseAuto(t) ==
  /\ At(t, "ready")
  /\ t = Gtt \/ Row(t).mode = "AUTO"
  /\ Conclude(t, [Row(t) EXCEPT !.status = IF t = Gtt THEN "WAITING" ELSE @,
                                !.mode = "MANUAL", !.armed = TRUE], "closing")
  /\ UNCHANGED faults

\* Executing a waiting conditional order arms it: no broker call.
Arm(t) ==
  /\ At(t, "ready") /\ thread[t].arm
  /\ Conclude(t, [Row(t) EXCEPT !.armed = TRUE], "closing")
  /\ UNCHANGED faults

\* No broker session, no instrument mapping, no last price.
FailEarly(t) ==
  /\ At(t, "ready")
  /\ Conclude(t, Row(t), "failing")
  /\ UNCHANGED faults

\* The broker accepts the order.
Send(t) ==
  /\ At(t, "ready") /\ ~thread[t].arm
  /\ Len(book) < MaxTickets
  /\ book' = Append(book, [order |-> MyOrder(t), state |-> "OPEN"])
  /\ thread' = [thread EXCEPT ![t].pc = "sent", ![t].ticket = Len(book) + 1]
  /\ UNCHANGED <<order, inflight, pending, snap, fills, twice, faults>>

\* The broker, or the way to it, refuses the order.
FailSend(t) ==
  /\ At(t, "ready") /\ ~thread[t].arm
  /\ Conclude(t, [Row(t) EXCEPT !.status = "FAILED"], "failing")
  /\ UNCHANGED faults

\* Mutant: the answer is recorded without changing the order's status.
RecordIdOnly(t) ==
  /\ At(t, "sent")
  /\ Conclude(t, [Row(t) EXCEPT !.ticket = thread[t].ticket], "closing")
  /\ UNCHANGED faults

Record(t) ==
  /\ At(t, "sent")
  /\ Conclude(t, [Row(t) EXCEPT !.status = "SENT", !.ticket = thread[t].ticket], "closing")
  /\ UNCHANGED faults

\* The broker accepted, but the answer is lost: the order is FAILED all the same.
LoseResponse(t) ==
  /\ At(t, "sent")
  /\ Fault
  /\ Conclude(t, [Row(t) EXCEPT !.status = "FAILED"], "failing")

\* Mutant: the GTT loop forgets that its order is SENDING by now.
FailsFromWaiting(t) == IF t = Gtt \/ Row(t).mode = "AUTO" THEN {"WAITING"} ELSE {}

\* The states from which a failed execution turns its order FAILED: the GTT loop
\* and the creator of an AUTO order do; a MANUAL order keeps waiting.
FailsFrom(t) ==
  IF t = Gtt THEN {"WAITING", "SENDING"}
  ELSE IF Row(t).mode = "AUTO" THEN {"WAITING"} ELSE {}

FailUnsent(t) ==
  IF Row(t).status \in FailsFrom(t) THEN Set(MyOrder(t), "FAILED") ELSE UNCHANGED order

Close(t) ==
  /\ \/ At(t, "closing") /\ UNCHANGED order
     \/ At(t, "failing") /\ FailUnsent(t)
  /\ Release(MyOrder(t))
  /\ Rest(t)
  /\ UNCHANGED <<pending, book, snap, fills, twice, faults>>

\* Something else than an HTTPException: the GTT loop leaves its order SENDING.
Abandon(t) ==
  /\ thread[t].pc # "idle"
  /\ Fault
  /\ IF t = Gtt THEN UNCHANGED order ELSE FailUnsent(t)
  /\ Release(MyOrder(t))
  /\ Rest(t)
  /\ UNCHANGED <<pending, book, snap, fills, twice>>

-----------------------------------------------------------------------------
(* The synthetic-GTT loop *)

Scan ==
  /\ thread[Gtt].pc = "idle" /\ pending = {}
  /\ pending' = {o \in Order : /\ order[o].gtt /\ order[o].status = "WAITING"
                               /\ order[o].armed /\ ~order[o].triggered}
  /\ pending' # {}
  /\ UNCHANGED <<order, inflight, thread, book, snap, fills, twice, faults>>

\* The price has not reached the trigger, or could not be fetched.
PassBy(o) ==
  /\ thread[Gtt].pc = "idle" /\ o \in pending
  /\ pending' = pending \ {o}
  /\ UNCHANGED <<order, inflight, thread, book, snap, fills, twice, faults>>

\* The loop works on the rows of its scan: it does not look at them again.
Trigger(o) ==
  /\ thread[Gtt].pc = "idle" /\ o \in pending
  /\ order' = [order EXCEPT ![o] = [@ EXCEPT !.status = "SENDING", !.triggered = TRUE]]
  /\ Begin(Gtt, o, FALSE)
  /\ pending' = pending \ {o}
  /\ Again(o, Running(o) \/ order[o].status # "WAITING")
  /\ UNCHANGED <<inflight, book, snap, fills, faults>>

-----------------------------------------------------------------------------
(* The broker and the status sync *)

Settle(k) ==
  /\ book[k].state = "OPEN"
  /\ \E s \in TicketState \ {"OPEN"} : book' = [book EXCEPT ![k] = [@ EXCEPT !.state = s]]
  /\ UNCHANGED <<order, inflight, thread, pending, snap, fills, twice, faults>>

\* A sync fetches the book of one broker: a local one or one with GTT.
SyncFetch(y) ==
  /\ snap[y] = Unfetched
  /\ \E local \in BOOLEAN :
       snap' = [snap EXCEPT ![y] =
         [k \in {i \in DOMAIN book : (book[i].order \in Local) = local} |-> book[k].state]]
  /\ UNCHANGED <<order, inflight, thread, pending, book, fills, twice, faults>>

\* Mutant: the broker's word is taken over.
MapStatusRaw(state) == state

MapStatus(state) ==
  CASE state = "OPEN" -> "SENT"
    [] state = "COMPLETE" -> "EXECUTED"
    [] OTHER -> state

\* Fetched tickets that no order carries are linked to waiting orders without
\* one, when symbol, side and shape match; only Zerodha's sync does that.
Strays(bk) == DOMAIN bk \ {order[o].ticket : o \in Order}
Unlinked == {o \in Order \ Local : order[o].status = "WAITING" /\ order[o].ticket = 0}
Matches(o, k) ==
  /\ SymbolOf[book[k].order] = SymbolOf[o]
  /\ (book[k].order \in Exit) = (o \in Exit)

\* Every order with just one match takes it; among several it takes the nearest
\* in time, if near enough; nobody takes a ticket already taken.
Linkings(bk) ==
  {m \in UNION {[S -> Strays(bk)] : S \in SUBSET Unlinked} :
     /\ \A o \in DOMAIN m : Matches(o, m[o])
     /\ \A o, p \in DOMAIN m : m[o] = m[p] => o = p
     /\ \A o \in Unlinked, k \in Strays(bk) :
          (Matches(o, k) /\ \A l \in Strays(bk) : Matches(o, l) => l = k)
            => \E p \in DOMAIN m : m[p] = k}

Synced(bk, m, o) ==
  LET k == IF o \in DOMAIN m THEN m[o] ELSE order[o].ticket
  IN  IF k \in DOMAIN bk
      THEN [order[o] EXCEPT !.ticket = k, !.status = MapStatus(bk[k])]
      ELSE order[o]

\* Mutant: an executed ticket is applied at every sync.
FillsAgain(row, synced) == synced.status = "EXECUTED"

\* A fill is applied when an order's status becomes EXECUTED.
Fills(row, synced) == row.status # "EXECUTED" /\ synced.status = "EXECUTED"

SyncApply(y) ==
  /\ snap[y] # Unfetched
  /\ \E m \in Linkings(snap[y]) :
       LET synced == [o \in Order |-> Synced(snap[y], m, o)] IN
       /\ order' = synced
       /\ fills' = [o \in Order |->
            IF Fills(order[o], synced[o]) THEN fills[o] + 1 ELSE fills[o]]
  /\ snap' = [snap EXCEPT ![y] = Unfetched]
  /\ UNCHANGED <<inflight, thread, pending, book, twice, faults>>

\* Mutant: only the reservation of an order still in the queue runs out.
ExpireWaiting(s) ==
  /\ inflight[s] # NoOrder /\ ~Running(inflight[s])
  /\ order[inflight[s]].status = "WAITING"
  /\ inflight' = [inflight EXCEPT ![s] = NoOrder]
  /\ UNCHANGED <<order, thread, pending, book, snap, fills, twice, faults>>

\* The reservation of a dead execution runs out (inflight_expires_at); no live
\* execution outlasts the 120 seconds.
Expire(s) ==
  /\ inflight[s] # NoOrder
  /\ ~Running(inflight[s])
  /\ inflight' = [inflight EXCEPT ![s] = NoOrder]
  /\ UNCHANGED <<order, thread, pending, book, snap, fills, twice, faults>>

\* The process dies with everything it was doing and is started again.
Crash ==
  /\ \E t \in Thread : thread[t].pc # "idle"
  /\ Fault
  /\ thread' = [t \in Thread |-> Idle]
  /\ pending' = {}
  /\ snap' = [y \in Syncer |-> Unfetched]
  /\ UNCHANGED <<order, inflight, book, fills, twice>>

-----------------------------------------------------------------------------
Queue ==
  \/ \E o \in Order : Create(o) \/ Refuse(o) \/ Patch(o) \/ EditGtt(o)
  \/ \E r \in Request, o \in Order : CreateAuto(r, o) \/ Execute(r, o)
  \/ \E o, copy \in Order : Requeue(o, copy)

Proceed(t) ==
  \/ Reserve(t) \/ Busy(t)
  \/ RejectRisk(t) \/ PassRisk(t)
  \/ PauseAuto(t) \/ Arm(t) \/ FailEarly(t) \/ Send(t)
  \/ Record(t) \/ FailSend(t) \/ Close(t)

GttLoop == Scan \/ (\E o \in Order : PassBy(o) \/ Trigger(o))

Break(t) == LoseResponse(t) \/ Abandon(t)

BrokerAndSync ==
  \/ \E k \in DOMAIN book : Settle(k)
  \/ \E y \in Syncer : SyncFetch(y) \/ SyncApply(y)

Next ==
  \/ Queue
  \/ \E t \in Thread : Proceed(t) \/ Break(t)
  \/ GttLoop
  \/ BrokerAndSync
  \/ \E s \in Scope : Expire(s)
  \/ Crash

Spec == Init /\ [][Next]_vars

\* An execution that has begun ends (every wait and broker call times out), and
\* a reservation runs out.
Fairness ==
  /\ \A t \in Thread : WF_vars(Proceed(t))
  /\ \A s \in Scope : WF_vars(Expire(s))

FairSpec == Spec /\ Fairness

-----------------------------------------------------------------------------
(* Properties *)

\* Rows, reservations and threads hold values the code can write, and a thread
\* inside an execution knows its order.
TypeOK ==
  /\ order \in [Order -> OrderRow]
  /\ inflight \in [Scope -> Order \cup {NoOrder}]
  /\ thread \in [Thread -> ThreadState]
  /\ \A t \in Thread : thread[t].pc # "idle" => thread[t].order \in Order
  /\ pending \subseteq Order
  /\ book \in Seq(Ticket)
  /\ DOMAIN snap = Syncer
  /\ \A y \in Syncer : snap[y] \in UNION {[S -> TicketState] : S \in SUBSET DOMAIN book}
  /\ fills \in [Order -> Nat]
  /\ twice \subseteq Order
  /\ faults \in 0 .. MaxFaults

InScope(t, s) ==
  /\ thread[t].pc \in {"checking", "ready", "sent"}
  /\ Reserves(MyOrder(t), thread[t].arm)
  /\ ScopeOf[MyOrder(t)] = s

\* Two executions are never between the risk check and the broker's answer in one
\* scope, unless one of their orders was executed while it was already running
\* (the inflight_order_id compare-and-set in _execute_order_internal_impl).
OneInFlightPerScope ==
  \A t, u \in Thread, s \in Scope :
    InScope(t, s) /\ InScope(u, s) /\ t # u
      => MyOrder(t) \in twice \/ MyOrder(u) \in twice

Live(k) == book[k].state \in {"OPEN", "COMPLETE"}
OrdersOf(sym) == {o \in Order \ Exit : SymbolOf[o] = sym}
LiveEntries(sym) == {k \in DOMAIN book : Live(k) /\ book[k].order \in OrdersOf(sym)}

CapHolds(sym) ==
  OrdersOf(sym) \cap twice = {} => Cardinality(LiveEntries(sym)) <= MaxTrades + faults

\* When one scope holds all orders of a symbol, its live entries at the broker
\* stay within the cap, beyond it only by the placements a fault kept out of the
\* books (the reservation around the count in evaluate_order_risk).
CapHoldsInOneScope ==
  \A sym \in {SymbolOf[o] : o \in Order} :
    (\A o, p \in OrdersOf(sym) : ScopeOf[o] = ScopeOf[p]) => CapHolds(sym)

\* "prevents concurrent executions from racing past caps": whatever the scopes.
CapHoldsAlways == \A sym \in {SymbolOf[o] : o \in Order} : CapHolds(sym)

\* Whatever is cancelled, edited, synced, crashed and retried, an order that was
\* never executed twice has one live ticket at the broker, and one more for every
\* fault (execute_order_internal's status check, process_synthetic_gtt_once).
OneTicketPerOrder ==
  \A o \in Order \ twice :
    Cardinality({k \in DOMAIN book : Live(k) /\ book[k].order = o}) <= 1 + faults

\* At a local broker, every fill booked in the portfolio belongs to a ticket that
\* was executed: applying one is not idempotent (sync_order_statuses_angelone).
FillsHaveTickets ==
  \A o \in Local \ twice :
    fills[o] <= Cardinality({k \in DOMAIN book :
                               book[k].state = "COMPLETE" /\ book[k].order = o})

\* A reservation is given back, even that of an execution which died with the
\* process: no scope stays blocked (the finally clause, inflight_expires_at).
ScopeFreed == \A s \in Scope : inflight[s] # NoOrder ~> inflight[s] = NoOrder

\* Without faults a triggered conditional order is sent, failed, rejected or
\* paused: it does not stay SENDING (process_synthetic_gtt_once).
TriggerResolves ==
  \A o \in Order : order[o].status = "SENDING" ~> (order[o].status # "SENDING" \/ faults > 0)

\* "Must survive restarts (DB-persisted state).": the same, whatever happens.
TriggerSurvives ==
  \A o \in Order : order[o].status = "SENDING" ~> order[o].status # "SENDING"
=============================================================================
