---------------------------- MODULE FillAccounting ----------------------------
(* How the fill of an order reaches the books: the order's status, the        *)
(* reference quantity of its portfolio group, and its managed-risk row.       *)
(* Broker reports arrive by postback (api/zerodha.py) and by order-book syncs *)
(* (services/order_sync.py, order_sync_angelone.py); simulated orders are     *)
(* filled on submission and by a poller (services/paper_trading.py).  All of  *)
(* them book a fill when they see a status turn EXECUTED                      *)
(* (services/portfolio_allocations.py, services/managed_risk.py).             *)
(*                                                                            *)
(* All orders buy one unit of one symbol for one group; REJECTED is treated   *)
(* like CANCELLED.  What a task holds back until its commit is in its record. *)
EXTENDS Integers, FiniteSets

CONSTANTS
  Live, Paper,   \* orders at the broker, and simulated ones
  Planned,       \* orders whose fill opens or grows a managed-risk row
  Over,          \* which orders may be cancelled from the start: a set of sets
  Sync, Post, Poll,  \* tasks: order-book syncs, postback handlers, paper tasks
  MaxReports, MaxFaults  \* bounds: postbacks delivered, crashes and failures

Order == Live \cup Paper
Task == Sync \cup Post \cup Poll

ASSUME OrderAssumption == Live \cap Paper = {} /\ Planned \subseteq Order
                          /\ Over \subseteq SUBSET Order /\ IsFiniteSet(Order)
ASSUME TaskAssumption ==
  Sync \cap Post = {} /\ Sync \cap Poll = {} /\ Post \cap Poll = {} /\ IsFiniteSet(Task)
ASSUME BoundAssumption == MaxReports \in Nat /\ MaxFaults \in Nat

VARIABLES
  broker,    \* the state of each live order at the broker
  mail,      \* the postbacks the broker has issued
  order,     \* Order.status
  member,    \* GroupMember.reference_qty
  row,       \* the managed-risk row that an order's fill has opened
  task,      \* what each task has read and holds back
  booked,    \* history: how often the fill of an order was booked
  reopened,  \* history: how often EXECUTED was taken back
  raced,     \* history: bookings by a task that read the order too early
  dropped,   \* history: orders whose booking was lost after the status
  overlap,   \* history: two tasks have held bookings at the same time
  reports, faults

books == <<order, member, row>>
history == <<booked, reopened, raced, dropped, overlap>>
fillVars == <<broker, mail, books, task, history, reports, faults>>

BrokerState == {"OPEN", "COMPLETE", "CANCELLED"}
Status == {"WAITING", "SENT", "EXECUTED", "CANCELLED"}
Pc == {"idle", "fetched", "visiting", "set", "book", "end"}
TaskState == [pc : Pc, snap : [Live -> BrokerState], read : [Order -> Status],
              todo : SUBSET Order, staged : SUBSET Order, adds : SUBSET Order,
              late : SUBSET Order, base : Nat, flushed : BOOLEAN]

\* Plausible bug: a completed order is kept as SENT.
MapStatusOpen(state) == IF state = "CANCELLED" THEN "CANCELLED" ELSE "SENT"
\* Plausible bug: a cancelled order with a partial fill is taken as executed.
MapStatusAnyEnd(state) == IF state = "OPEN" THEN "SENT" ELSE "EXECUTED"

\* _map_postback_status, _map_zerodha_status, _map_angelone_status
MapStatus(state) == CASE state = "OPEN" -> "SENT"
                      [] state = "COMPLETE" -> "EXECUTED"
                      [] state = "CANCELLED" -> "CANCELLED"

Fresh == [o \in Order |-> IF o \in Live THEN "SENT" ELSE "WAITING"]
Idle == [pc |-> "idle", snap |-> [o \in Live |-> "OPEN"], read |-> Fresh, todo |-> {},
         staged |-> {}, adds |-> {}, late |-> {}, base |-> 0, flushed |-> FALSE]

FillInit ==
  /\ \E gone \in Over :
       /\ broker = [o \in Live |-> IF o \in gone THEN "CANCELLED" ELSE "OPEN"]
       /\ order = [o \in Order |-> IF o \in gone THEN "CANCELLED" ELSE Fresh[o]]
  /\ mail = {<<o, broker[o]>> : o \in Live}
  /\ member = 0
  /\ row = [o \in Order |-> "none"]
  /\ task = [t \in Task |-> Idle]
  /\ booked = [o \in Order |-> 0] /\ reopened = [o \in Order |-> 0]
  /\ raced = [o \in Order |-> 0] /\ dropped = {} /\ overlap = FALSE
  /\ reports = 0 /\ faults = 0

Fault == faults < MaxFaults /\ faults' = faults + 1
Bump(f, S) == [o \in Order |-> IF o \in S THEN f[o] + 1 ELSE f[o]]

\* SQLite: one writer at a time; a task that has flushed writes until it commits.
Unlocked(t) == \A u \in Task \ {t} : ~task[u].flushed

-----------------------------------------------------------------------------
(* Booking a fill *)

\* The status a task gives an order it has staged: a sync the fetched one, the
\* others EXECUTED.
NewStatus(s, o, t) == IF t \in Sync THEN MapStatus(s.snap[o]) ELSE "EXECUTED"

\* The orders X turn EXECUTED, which the other tasks have read too early.
Overtakes(X, u) == [task[u] EXCEPT !.late = @ \cup (X \cap (task[u].todo \cup task[u].staged))]

\* Commit of everything the task record s of t holds back: statuses, the
\* member's quantity computed from what was read of it, the rows in `opened'.
Commit(s, t, opened, after) ==
  LET filled == {o \in s.staged : NewStatus(s, o, t) = "EXECUTED"}
      back == {o \in s.staged \ filled : order[o] = "EXECUTED"}
  IN  /\ Unlocked(t)
      /\ order' = [o \in Order |-> IF o \in s.staged THEN NewStatus(s, o, t) ELSE order[o]]
      /\ member' = IF s.adds = {} THEN member ELSE s.base + Cardinality(s.adds)
      /\ row' = [o \in Order |-> IF o \in opened THEN "ACTIVE" ELSE row[o]]
      /\ booked' = Bump(booked, s.adds)
      /\ reopened' = Bump(reopened, back)
      /\ raced' = Bump(raced, s.adds \cap s.late)
      /\ task' = [u \in Task |-> IF u = t THEN after ELSE Overtakes(filled, u)]
Committed(s) ==
  [s EXCEPT !.staged = {}, !.adds = {}, !.late = @ \ s.staged, !.flushed = FALSE]

\* ensure_managed_risk_for_executed_order: grow an ACTIVE row, else insert the
\* order's own, whose key must be new.
Grows(o) == o \in Planned /\ \E r \in Order : row[r] = "ACTIVE"
Inserts(o) == o \in Planned /\ ~Grows(o) /\ row[o] = "none"
Collides(o) == o \in Planned /\ ~Grows(o) /\ row[o] # "none"

\* Plausible bug: only orders with a risk plan reach the group.
WithFillPlanned(s, o) ==
  IF o \in Planned
  THEN [s EXCEPT !.adds = @ \cup {o}, !.base = IF s.adds = {} THEN member ELSE @]
  ELSE s
\* Plausible bug: the group's quantity is set to the fill, not raised by it.
WithFillSets(s, o) == [s EXCEPT !.adds = @ \cup {o}, !.base = 0]
\* A member is read when the task holds no change of it.
WithFill(s, o) ==
  [s EXCEPT !.adds = @ \cup {o}, !.base = IF s.adds = {} THEN member ELSE @]

\* Two tasks hold bookings at the same time.
NoteOverlap(t) == overlap' = (overlap \/ \E u \in Task \ {t} : task[u].adds # {})

\* Task t, now with record s, books o; an opened row is committed by its system
\* event, a duplicate one fails the transaction.
Book(t, o, s) ==
  LET held == WithFill(s, o)
  IN  /\ NoteOverlap(t)
      /\ \/ /\ Inserts(o)
            /\ Commit(held, t, {o}, Committed(held))
         \/ /\ ~Inserts(o) /\ ~Collides(o)
            /\ Grows(o) => Unlocked(t)
            /\ task' = [task EXCEPT ![t] = [held EXCEPT !.flushed = @ \/ Grows(o)]]
            /\ UNCHANGED <<books, booked, reopened, raced>>

-----------------------------------------------------------------------------
(* Order-book syncs *)

SyncFetch(t) ==
  /\ task[t].pc = "idle"
  /\ task' = [task EXCEPT ![t] = [Idle EXCEPT !.pc = "fetched", !.snap = broker]]
  /\ UNCHANGED <<broker, mail, books, history, reports, faults>>

SyncRead(t) ==
  /\ task[t].pc = "fetched"
  /\ task' = [task EXCEPT ![t].pc = "visiting", ![t].read = order, ![t].todo = Live]
  /\ UNCHANGED <<broker, mail, books, history, reports, faults>>

Visits(t, o) == task[t].pc = "visiting" /\ o \in task[t].todo
Done(s, o) == [s EXCEPT !.todo = @ \ {o}]
\* Plausible bug: an executed order is visited again by every sync.
ChangedOrFilled(t, o) == \/ MapStatus(task[t].snap[o]) # task[t].read[o]
                         \/ MapStatus(task[t].snap[o]) = "EXECUTED"
Changed(t, o) == MapStatus(task[t].snap[o]) # task[t].read[o]

SyncPass(t, o) ==
  /\ Visits(t, o) /\ ~Changed(t, o)
  /\ task' = [task EXCEPT ![t] = Done(@, o)]
  /\ UNCHANGED <<broker, mail, books, history, reports, faults>>

SyncStage(t, o) ==
  /\ Visits(t, o) /\ Changed(t, o)
  /\ MapStatus(task[t].snap[o]) # "EXECUTED"
  /\ task' = [task EXCEPT ![t] = [Done(task[t], o) EXCEPT !.staged = @ \cup {o}]]
  /\ UNCHANGED <<broker, mail, books, history, reports, faults>>

SyncBook(t, o) ==
  /\ Visits(t, o) /\ Changed(t, o)
  /\ MapStatus(task[t].snap[o]) = "EXECUTED"
  /\ Book(t, o, [Done(task[t], o) EXCEPT !.staged = @ \cup {o}])
  /\ UNCHANGED <<broker, mail, dropped, reports, faults>>

\* A duplicate row: the session is unusable and the whole sync fails.
SyncAbort(t, o) ==
  /\ Visits(t, o) /\ Changed(t, o)
  /\ MapStatus(task[t].snap[o]) = "EXECUTED" /\ Collides(o)
  /\ task' = [task EXCEPT ![t] = Idle]
  /\ UNCHANGED <<broker, mail, books, history, reports, faults>>

SyncEnd(t) ==
  /\ task[t].pc = "visiting" /\ task[t].todo = {}
  /\ Commit(task[t], t, {}, Idle)
  /\ UNCHANGED <<broker, mail, dropped, overlap, reports, faults>>

-----------------------------------------------------------------------------
(* Postbacks *)

\* The broker's messages arrive in any order, repeatedly, or not at all.
Deliver(t, o, state) ==
  /\ task[t].pc = "idle" /\ reports < MaxReports
  /\ <<o, state>> \in mail
  /\ MapStatus(state) # order[o]
  /\ task' = [task EXCEPT ![t] = [Idle EXCEPT !.pc = "set", !.todo = {o}, !.read = order,
                                    !.snap = [@ EXCEPT ![o] = state]]]
  /\ reports' = reports + 1
  /\ UNCHANGED <<broker, mail, books, history, faults>>

\* The status is committed before its effects.
PostSet(t, o) ==
  LET new == MapStatus(task[t].snap[o])
      held == [task[t] EXCEPT !.pc = "book", !.late = {}]
  IN  /\ task[t].pc = "set" /\ task[t].todo = {o} /\ Unlocked(t)
      /\ order' = [order EXCEPT ![o] = new]
      /\ reopened' = Bump(reopened, {o} \cap {x \in Order : order[x] = "EXECUTED" /\ new # order[x]})
      /\ raced' = Bump(raced, {o} \cap {x \in task[t].late : new = "EXECUTED"})
      /\ task' = [u \in Task |-> IF u # t THEN Overtakes({o} \cap {x \in Order : new = "EXECUTED"}, u)
                                 ELSE IF new = "EXECUTED" THEN held ELSE Idle]
      /\ UNCHANGED <<broker, mail, member, row, booked, dropped, overlap, reports, faults>>

PostBook(t, o) ==
  /\ t \in Post /\ task[t].pc = "book" /\ task[t].todo = {o}
  /\ Book(t, o, [task[t] EXCEPT !.pc = "end", !.todo = {}, !.late = {}])
  /\ UNCHANGED <<broker, mail, dropped, reports, faults>>

\* A duplicate row rolls the allocation back, and no exception leaves the handler.
PostLose(t, o) ==
  /\ task[t].pc = "book" /\ task[t].todo = {o} /\ Collides(o)
  /\ task' = [task EXCEPT ![t] = Idle]
  /\ dropped' = dropped \cup {o}
  /\ UNCHANGED <<broker, mail, books, booked, reopened, raced, overlap, reports, faults>>

\* The positions sync or the system event at the end of the handler commits.
PostEnd(t) ==
  /\ t \in Post /\ task[t].pc = "end"
  /\ Commit(task[t], t, {}, Idle)
  /\ UNCHANGED <<broker, mail, dropped, overlap, reports, faults>>

-----------------------------------------------------------------------------
(* Paper trading *)

\* submit_paper_order fills a MARKET order at once; another one is SENT.
PaperSubmit(t, o) ==
  /\ task[t].pc = "idle" /\ order[o] = "WAITING" /\ Unlocked(t)
  /\ \/ /\ order' = [order EXCEPT ![o] = "SENT"] /\ UNCHANGED task
     \/ /\ order' = [order EXCEPT ![o] = "EXECUTED"]
        /\ task' = [task EXCEPT ![t] = [Idle EXCEPT !.pc = "book", !.todo = {o}]]
  /\ UNCHANGED <<broker, mail, member, row, history, reports, faults>>

PaperBook(t, o) ==
  /\ t \in Poll /\ task[t].pc = "book" /\ task[t].todo = {o}
  /\ NoteOverlap(t)
  /\ Commit(WithFill(task[t], o), t, {}, [Idle EXCEPT !.pc = "end", !.todo = {o}])
  /\ UNCHANGED <<broker, mail, dropped, reports, faults>>

\* An exception after the fill was committed: the order falls back to SENT.
PaperFallBack(t, o) ==
  /\ t \in Poll /\ task[t].pc = "end" /\ task[t].todo = {o} /\ Unlocked(t)
  /\ Fault
  /\ order' = [order EXCEPT ![o] = "SENT"]
  /\ reopened' = Bump(reopened, IF order[o] = "EXECUTED" THEN {o} ELSE {})
  /\ task' = [task EXCEPT ![t] = Idle]
  /\ UNCHANGED <<broker, mail, member, row, booked, raced, dropped, overlap, reports>>

PaperDone(t) ==
  /\ t \in Poll /\ task[t].pc = "end"
  /\ task' = [task EXCEPT ![t] = Idle]
  /\ UNCHANGED <<broker, mail, books, history, reports, faults>>

PollRead(t) ==
  /\ task[t].pc = "idle" /\ \E o \in Paper : order[o] = "SENT"
  /\ task' = [task EXCEPT ![t] = [Idle EXCEPT !.pc = "visiting", !.read = order,
                                    !.todo = {o \in Paper : order[o] = "SENT"}]]
  /\ UNCHANGED <<broker, mail, books, history, reports, faults>>

\* The price has not crossed the limit, or there is none.
PollPass(t, o) ==
  /\ Visits(t, o)
  /\ task' = [task EXCEPT ![t] = Done(@, o)]
  /\ UNCHANGED <<broker, mail, books, history, reports, faults>>

\* Each fill is committed by the system event that follows it.
PollFill(t, o) ==
  /\ Visits(t, o) /\ ~Collides(o)
  /\ NoteOverlap(t)
  /\ LET held == WithFill([Done(task[t], o) EXCEPT !.staged = {o}], o)
     IN  Commit(held, t, {o} \cap {x \in Order : Inserts(x)},
                Committed(held))
  /\ UNCHANGED <<broker, mail, dropped, reports, faults>>

PollEnd(t) ==
  /\ t \in Poll /\ task[t].pc = "visiting"
  /\ task[t].todo = {} \/ \E o \in task[t].todo : Collides(o)
  /\ task' = [task EXCEPT ![t] = Idle]
  /\ UNCHANGED <<broker, mail, books, history, reports, faults>>

-----------------------------------------------------------------------------
(* The world around *)

\* The broker ends an order and issues a postback.
BrokerEnds(o, state) ==
  /\ broker[o] = "OPEN"
  /\ broker' = [broker EXCEPT ![o] = state]
  /\ mail' = mail \cup {<<o, state>>}
  /\ UNCHANGED <<books, task, history, reports, faults>>

\* The position behind a row is closed.
CloseRow(o) ==
  /\ row[o] = "ACTIVE" /\ \A t \in Task : ~task[t].flushed
  /\ row' = [row EXCEPT ![o] = "EXITED"]
  /\ UNCHANGED <<broker, mail, order, member, task, history, reports, faults>>

\* The process dies: what was committed stays.
FillCrash ==
  /\ Fault
  /\ task' = [t \in Task |-> Idle]
  /\ dropped' = dropped \cup {o \in Order : \E t \in Post \cup Poll :
                  task[t].pc \in {"book", "end"} /\ o \in task[t].todo \cup task[t].adds}
  /\ UNCHANGED <<broker, mail, books, booked, reopened, raced, overlap, reports>>

SyncStep(t) ==
  \/ SyncFetch(t) \/ SyncRead(t) \/ SyncEnd(t)
  \/ \E o \in Live : SyncPass(t, o) \/ SyncStage(t, o) \/ SyncBook(t, o) \/ SyncAbort(t, o)
PostStep(t) ==
  \/ \E o \in Live : PostSet(t, o) \/ PostBook(t, o) \/ PostLose(t, o)
  \/ PostEnd(t)
PollStep(t) ==
  \/ PaperDone(t) \/ PollRead(t) \/ PollEnd(t)
  \/ \E o \in Paper : \/ PaperSubmit(t, o) \/ PaperBook(t, o)
                      \/ PollPass(t, o) \/ PollFill(t, o)

FillNext ==
  \/ \E t \in Sync : SyncStep(t)
  \/ \E t \in Post : \/ \E o \in Live, state \in BrokerState : Deliver(t, o, state)
                     \/ PostStep(t)
  \/ \E t \in Poll : PollStep(t) \/ \E o \in Paper : PaperFallBack(t, o)
  \/ \E o \in Live, state \in {"COMPLETE", "CANCELLED"} : BrokerEnds(o, state)
  \/ \E o \in Order : CloseRow(o)
  \/ FillCrash

\* Syncs are asked for again and again, and a handler that has begun goes on.
FillFairness ==
  /\ \A t \in Sync : WF_fillVars(SyncStep(t))
  /\ \A t \in Post : WF_fillVars(PostStep(t))

FillSpec == FillInit /\ [][FillNext]_fillVars
FillFairSpec == FillSpec /\ FillFairness

-----------------------------------------------------------------------------
(* Properties *)

FillTypeOK ==
  /\ broker \in [Live -> BrokerState]
  /\ mail \subseteq Live \X BrokerState
  /\ order \in [Order -> Status]
  /\ member \in Nat
  /\ row \in [Order -> {"none", "ACTIVE", "EXITED"}]
  /\ task \in [Task -> TaskState]
  /\ booked \in [Order -> Nat] /\ reopened \in [Order -> Nat] /\ raced \in [Order -> Nat]
  /\ dropped \subseteq Order /\ overlap \in BOOLEAN
  /\ reports \in 0..MaxReports /\ faults \in 0..MaxFaults

\* The fill of an order is booked once, and once more only for each time its
\* EXECUTED was taken back (a late report, an old order book, a failing paper
\* submission) or a task booked it that had read it too early.
FillsOnce == \A o \in Order : booked[o] <= 1 + reopened[o] + raced[o]

\* Nothing is booked for an order that did not trade.
FillsAreReal == \A o \in Live : booked[o] > 0 => broker[o] = "COMPLETE"

\* What is booked was traded, and as often as it was traded.
BookingsAreTrue == FillsOnce /\ FillsAreReal

\* An order is EXECUTED without its fill in the books only while the handler of
\* its report is at work, or after that handler died or met a duplicate row: a
\* sync never separates the two.
LossesExplained ==
  \A o \in Order :
    order[o] = "EXECUTED" /\ booked[o] = 0 =>
      \/ o \in dropped
      \/ \E t \in Post \cup Poll :
           task[t].pc \in {"book", "end"} /\ o \in task[t].todo \cup task[t].adds

\* The group's quantity is the number of bookings, unless two tasks held
\* bookings at the same time: each writes a quantity computed from what it read.
Bookings == UNION {{o} \X (1..booked[o]) : o \in Order}
MemberAddsUp == ~overlap => member = Cardinality(Bookings)

\* A fill in the orders is in the books too, and the quantity is what was booked.
FillsReachTheBooks == LossesExplained /\ MemberAddsUp

\* A trade at the broker ends up as EXECUTED, however reports are lost, repeated
\* or reordered, unless a duplicate row makes every sync fail: again and again all
\* trades of the broker are known.
Blocked == \E o \in Live : broker[o] = "COMPLETE" /\ order[o] # "EXECUTED" /\ Collides(o)
StatusConverges ==
  []<>(Blocked \/ \A o \in Live : broker[o] = "COMPLETE" => order[o] = "EXECUTED")
=============================================================================
