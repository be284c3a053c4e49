------------------------ MODULE OrderExecutionProofs ------------------------
(* Theorems about OrderExecution, for every value of its constants: what a     *)
(* scope reserves, what a status means, and, counting tickets, that an order   *)
(* has one live ticket, that the entries of a symbol stay within the cap, and  *)
(* that what is booked in the portfolio was traded; each up to the faults that *)
(* have happened.                                                              *)
EXTENDS OrderExecution, SequenceTheorems, FiniteSetTheorems, TLAPS

USE DEF Thread, Status, TicketState

-----------------------------------------------------------------------------
(* Type correctness *)

\* What a fetched part of the order book looks like.
Fetched(bk) == UNION {[S -> TicketState] : S \in SUBSET DOMAIN bk}

LEMMA FetchedType ==
  ASSUME NEW bk, NEW bk2, DOMAIN bk \subseteq DOMAIN bk2
  PROVE  Fetched(bk) \subseteq Fetched(bk2) /\ Unfetched \in Fetched(bk)
<1>1. Fetched(bk) \subseteq Fetched(bk2)
  BY DEF Fetched
<1>2. Unfetched \in [{} -> TicketState] /\ {} \in SUBSET DOMAIN bk
  BY DEF Unfetched
<1> QED BY <1>1, <1>2 DEF Fetched

\* The orders table after one row is written.
LEMMA RowWritten ==
  ASSUME order \in [Order -> OrderRow], NEW o \in Order, NEW row \in OrderRow,
         order' = [order EXCEPT ![o] = row]
  PROVE  order' \in [Order -> OrderRow]
OBVIOUS

\* A status written to a row.
LEMMA StatusWritten ==
  ASSUME order \in [Order -> OrderRow], NEW o \in Order, NEW st \in Status,
         order' = [order EXCEPT ![o].status = st]
  PROVE  order' \in [Order -> OrderRow]
BY DEF OrderRow

\* The edits of a row that the steps make.
LEMMA EditType ==
  ASSUME NEW row \in OrderRow
  PROVE  /\ [row EXCEPT !.armed = TRUE] \in OrderRow
         /\ [row EXCEPT !.gtt = TRUE] \in OrderRow
         /\ [row EXCEPT !.gtt = FALSE, !.armed = FALSE, !.triggered = FALSE] \in OrderRow
         /\ \A st \in Status : [row EXCEPT !.status = st] \in OrderRow
         /\ \A st \in Status : [row EXCEPT !.status = st, !.triggered = TRUE] \in OrderRow
         /\ \A st \in Status, k \in Nat : [row EXCEPT !.status = st, !.ticket = k] \in OrderRow
         /\ \A st \in Status, k \in Nat : [row EXCEPT !.ticket = k, !.status = st] \in OrderRow
<1>1. [row EXCEPT !.armed = TRUE] \in OrderRow
  BY ZenonT(20) DEF OrderRow
<1>2. [row EXCEPT !.gtt = TRUE] \in OrderRow
  BY DEF OrderRow
<1>3. [row EXCEPT !.gtt = FALSE, !.armed = FALSE, !.triggered = FALSE] \in OrderRow
  BY DEF OrderRow
<1>4. ASSUME NEW st \in Status, NEW k \in Nat
      PROVE  /\ [row EXCEPT !.status = st] \in OrderRow
             /\ [row EXCEPT !.status = st, !.triggered = TRUE] \in OrderRow
             /\ [row EXCEPT !.status = st, !.ticket = k] \in OrderRow
             /\ [row EXCEPT !.ticket = k, !.status = st] \in OrderRow
  BY DEF OrderRow
<1> QED BY <1>1, <1>2, <1>3, <1>4

LEMMA NoRowType == NoRow \in OrderRow
BY DEF NoRow, OrderRow

\* Threads begin, proceed and rest with well-formed states.
LEMMA ThreadType ==
  ASSUME TypeOK, NEW t \in Thread
  PROVE  /\ \A o \in Order, arm \in BOOLEAN : Begin(t, o, arm) =>
              /\ thread' \in [Thread -> ThreadState]
              /\ \A u \in Thread : thread'[u].pc # "idle" => thread'[u].order \in Order
         /\ \A pc \in {"reserving", "checking", "ready", "sent", "closing", "failing"} :
              (thread[t].pc # "idle" /\ Goto(t, pc)) =>
              /\ thread' \in [Thread -> ThreadState]
              /\ \A u \in Thread : thread'[u].pc # "idle" => thread'[u].order \in Order
         /\ Rest(t) =>
              /\ thread' \in [Thread -> ThreadState]
              /\ \A u \in Thread : thread'[u].pc # "idle" => thread'[u].order \in Order
<1>1. ASSUME NEW o \in Order, NEW arm \in BOOLEAN, Begin(t, o, arm)
      PROVE  /\ thread' \in [Thread -> ThreadState]
             /\ \A u \in Thread : thread'[u].pc # "idle" => thread'[u].order \in Order
  BY <1>1 DEF Begin, TypeOK, ThreadState
<1>2. ASSUME NEW pc \in {"reserving", "checking", "ready", "sent", "closing", "failing"},
             thread[t].pc # "idle", Goto(t, pc)
      PROVE  /\ thread' \in [Thread -> ThreadState]
             /\ \A u \in Thread : thread'[u].pc # "idle" => thread'[u].order \in Order
  BY <1>2 DEF Goto, TypeOK, ThreadState
<1>3. ASSUME Rest(t)
      PROVE  /\ thread' \in [Thread -> ThreadState]
             /\ \A u \in Thread : thread'[u].pc # "idle" => thread'[u].order \in Order
  <2>1. Idle \in ThreadState /\ Idle.pc = "idle"
    BY DEF Idle, ThreadState
  <2> QED BY <1>3, <2>1 DEF Rest, TypeOK
<1> QED BY <1>1, <1>2, <1>3

LEMMA InitType == Init => TypeOK
<1> SUFFICES ASSUME Init PROVE TypeOK
  OBVIOUS
<1>1. NoRow \in OrderRow /\ Idle \in ThreadState /\ Idle.pc = "idle"
  BY DEF NoRow, OrderRow, Idle, ThreadState
<1>2. Unfetched \in Fetched(book)
  BY FetchedType
<1>3. book \in Seq(Ticket)
  BY DEF Init
<1>4. 0 \in 0 .. MaxFaults
  BY ConstantsAssumption
<1> QED BY <1>1, <1>2, <1>3, <1>4 DEF Init, TypeOK, Fetched

\* What every step of an execution starts from.
LEMMA RowType ==
  ASSUME TypeOK, NEW t \in Thread, thread[t].pc # "idle"
  PROVE  /\ MyOrder(t) \in Order
         /\ Row(t) \in OrderRow
         /\ thread[t].ticket \in Nat
         /\ \A st \in Status : [Row(t) EXCEPT !.status = st] \in OrderRow
<1>1. MyOrder(t) \in Order /\ thread[t].ticket \in Nat
  BY DEF TypeOK, MyOrder, ThreadState
<1>2. Row(t) \in OrderRow
  BY <1>1 DEF TypeOK, Row
<1>3. ASSUME NEW row \in OrderRow, NEW st \in Status
      PROVE  [row EXCEPT !.status = st] \in OrderRow
  BY DEF OrderRow
<1> QED BY <1>1, <1>2, <1>3

LEMMA ConcludeType ==
  ASSUME TypeOK, NEW t \in Thread, thread[t].pc # "idle",
         NEW row \in OrderRow, NEW pc \in {"closing", "failing"},
         Conclude(t, row, pc), faults' \in 0 .. MaxFaults
  PROVE  TypeOK'
<1>1. order' \in [Order -> OrderRow]
  BY RowType, RowWritten DEF Conclude, TypeOK
<1> QED BY <1>1, ThreadType DEF Conclude, TypeOK

LEMMA FaultType ==
  ASSUME TypeOK
  PROVE  /\ Fault => faults' \in 0 .. MaxFaults
         /\ UNCHANGED faults => faults' \in 0 .. MaxFaults
BY ConstantsAssumption DEF TypeOK, Fault

\* Giving reservations back or taking one.
LEMMA InflightType ==
  ASSUME TypeOK
  PROVE  /\ \A o : Release(o) => inflight' \in [Scope -> Order \cup {NoOrder}]
         /\ \A s, o \in Order \cup {NoOrder} :
              inflight' = [inflight EXCEPT ![s] = o] => inflight' \in [Scope -> Order \cup {NoOrder}]
BY DEF TypeOK, Release

LEMMA QueueType == TypeOK /\ Queue => TypeOK'
<1> SUFFICES ASSUME TypeOK, Queue PROVE TypeOK'
  OBVIOUS
<1>1. ASSUME NEW o \in Order, NEW row \in OrderRow, Insert(o, row)
      PROVE  order' \in [Order -> OrderRow]
  BY <1>1, RowWritten DEF Insert, TypeOK
<1>2. ASSUME NEW o \in Order, Create(o) PROVE TypeOK'
  <2>1. ASSUME NEW g \in BOOLEAN, NEW auto \in BOOLEAN
        PROVE  [NoRow EXCEPT !.status = "WAITING", !.gtt = g, !.armed = auto,
                             !.mode = IF auto THEN "AUTO" ELSE "MANUAL"] \in OrderRow
    <3>1. (IF auto THEN "AUTO" ELSE "MANUAL") \in {"MANUAL", "AUTO"}
      OBVIOUS
    <3>2. ASSUME NEW m \in {"MANUAL", "AUTO"}
          PROVE  [NoRow EXCEPT !.status = "WAITING", !.gtt = g, !.armed = auto, !.mode = m]
                   \in OrderRow
      BY DEF NoRow, OrderRow
    <3> QED BY <3>1, <3>2
  <2> QED BY <1>1, <1>2, <2>1 DEF Create, TypeOK
<1>3. ASSUME NEW o \in Order, Refuse(o) PROVE TypeOK'
  BY <1>3, InflightType DEF Refuse, Again, TypeOK
<1>4. ASSUME NEW o \in Order, Patch(o) PROVE TypeOK'
  BY <1>4, StatusWritten DEF Patch, Set, TypeOK
<1>5. ASSUME NEW o \in Order, EditGtt(o) PROVE TypeOK'
  <2>1. order[o] \in OrderRow
    BY DEF TypeOK
  <2>2. order' \in [Order -> OrderRow]
    BY <1>5, <2>1, EditType, RowWritten DEF EditGtt, TypeOK
  <2> QED BY <1>5, <2>2 DEF EditGtt, TypeOK
<1>6. ASSUME NEW r \in Request, NEW o \in Order, CreateAuto(r, o) PROVE TypeOK'
  <2>1. [NoRow EXCEPT !.status = "WAITING", !.mode = "AUTO"] \in OrderRow
    BY DEF NoRow, OrderRow
  <2> QED BY <1>1, <1>6, <2>1, ThreadType DEF CreateAuto, TypeOK
<1>7. ASSUME NEW r \in Request, NEW o \in Order, Execute(r, o) PROVE TypeOK'
  <2>1. (order[o].gtt /\ order[o].status = "WAITING") \in BOOLEAN
    OBVIOUS
  <2> QED BY <1>7, <2>1, ThreadType DEF Execute, Again, TypeOK
<1>8. ASSUME NEW o \in Order, NEW copy \in Order, Requeue(o, copy) PROVE TypeOK'
  <2>1. [NoRow EXCEPT !.status = "WAITING", !.gtt = order[o].gtt] \in OrderRow
    BY DEF NoRow, OrderRow, TypeOK
  <2> QED BY <1>1, <1>8, <2>1 DEF Requeue, TypeOK
<1> QED BY <1>2, <1>3, <1>4, <1>5, <1>6, <1>7, <1>8 DEF Queue

LEMMA ExecutionType == \A t \in Thread : TypeOK /\ (Proceed(t) \/ Break(t)) => TypeOK'
<1> SUFFICES ASSUME NEW t \in Thread, TypeOK, Proceed(t) \/ Break(t) PROVE TypeOK'
  OBVIOUS
<1>0. thread[t].pc # "idle"
  BY DEF Proceed, Break, At, Reserve, Busy, PassRisk, RejectRisk, PauseAuto, Arm, FailEarly,
         Send, FailSend, Record, LoseResponse, Close, Abandon
<1>1. /\ MyOrder(t) \in Order /\ Row(t) \in OrderRow /\ thread[t].ticket \in Nat
      /\ \A st \in Status : [Row(t) EXCEPT !.status = st] \in OrderRow
  BY <1>0, RowType
<1>2. CASE Reserve(t)
  BY <1>0, <1>1, <1>2, ThreadType, InflightType DEF Reserve, TypeOK
<1>3. CASE Busy(t)
  BY <1>0, <1>3, ThreadType DEF Busy, TypeOK
<1>4. CASE PassRisk(t)
  BY <1>0, <1>4, ThreadType DEF PassRisk, TypeOK
<1>5. CASE RejectRisk(t)
  BY <1>0, <1>1, <1>5, ConcludeType, FaultType DEF RejectRisk
<1>6. CASE PauseAuto(t)
  <2>1. [Row(t) EXCEPT !.status = IF t = Gtt THEN "WAITING" ELSE @,
                       !.mode = "MANUAL", !.armed = TRUE] \in OrderRow
    BY <1>1 DEF OrderRow
  <2> QED BY <1>0, <1>6, <2>1, ConcludeType, FaultType DEF PauseAuto
<1>7. CASE Arm(t)
  <2>1. [Row(t) EXCEPT !.armed = TRUE] \in OrderRow
    BY <1>1, EditType
  <2> QED BY <1>0, <1>7, <2>1, ConcludeType, FaultType DEF Arm
<1>8. CASE FailEarly(t)
  BY <1>0, <1>1, <1>8, ConcludeType, FaultType DEF FailEarly
<1>9. CASE Send(t)
  <2>1. [order |-> MyOrder(t), state |-> "OPEN"] \in Ticket
    BY <1>1 DEF Ticket
  <2>2. book' \in Seq(Ticket) /\ DOMAIN book \subseteq DOMAIN book' /\ Len(book) + 1 \in Nat
    BY <1>9, <2>1 DEF Send, TypeOK
  <2>3. \A y \in Syncer : snap'[y] \in Fetched(book')
    BY <1>9, <2>2, FetchedType DEF Send, TypeOK, Fetched
  <2>4. /\ thread' \in [Thread -> ThreadState]
        /\ \A u \in Thread : thread'[u].pc # "idle" => thread'[u].order \in Order
    BY <1>0, <1>9, <2>2 DEF Send, TypeOK, ThreadState
  <2> QED BY <1>9, <2>2, <2>3, <2>4 DEF Send, TypeOK, Fetched
<1>10. CASE FailSend(t)
  BY <1>0, <1>1, <1>10, ConcludeType, FaultType DEF FailSend
<1>11. CASE Record(t)
  <2>1. [Row(t) EXCEPT !.status = "SENT", !.ticket = thread[t].ticket] \in OrderRow
    BY <1>1, EditType
  <2> QED BY <1>0, <1>11, <2>1, ConcludeType, FaultType DEF Record
<1>12. CASE LoseResponse(t)
  BY <1>0, <1>1, <1>12, ConcludeType, FaultType DEF LoseResponse
<1>13. FailUnsent(t) \/ UNCHANGED order => order' \in [Order -> OrderRow]
  BY <1>1, StatusWritten DEF FailUnsent, Set, TypeOK
<1>14. CASE Close(t)
  BY <1>13, <1>14, InflightType, ThreadType DEF Close, TypeOK
<1>15. CASE Abandon(t)
  BY <1>13, <1>15, InflightType, ThreadType, FaultType DEF Abandon, TypeOK
<1> QED BY <1>2, <1>3, <1>4, <1>5, <1>6, <1>7, <1>8, <1>9, <1>10, <1>11, <1>12, <1>14, <1>15
        DEF Proceed, Break

LEMMA LoopType == TypeOK /\ GttLoop => TypeOK'
<1> SUFFICES ASSUME TypeOK, GttLoop PROVE TypeOK'
  OBVIOUS
<1>1. CASE Scan
  BY <1>1 DEF Scan, TypeOK
<1>2. ASSUME NEW o \in Order, PassBy(o) PROVE TypeOK'
  BY <1>2 DEF PassBy, TypeOK
<1>3. ASSUME NEW o \in Order, Trigger(o) PROVE TypeOK'
  <2>1. order[o] \in OrderRow
    BY DEF TypeOK
  <2>2. order' \in [Order -> OrderRow]
    BY <1>3, <2>1, EditType, RowWritten DEF Trigger, TypeOK
  <2> QED BY <1>3, <2>2, ThreadType DEF Trigger, Again, TypeOK
<1> QED BY <1>1, <1>2, <1>3 DEF GttLoop

LEMMA SyncType == TypeOK /\ BrokerAndSync => TypeOK'
<1> SUFFICES ASSUME TypeOK, BrokerAndSync PROVE TypeOK'
  OBVIOUS
<1>0. DOMAIN book \subseteq Nat
  BY DEF TypeOK
<1>1. ASSUME NEW k \in DOMAIN book, Settle(k) PROVE TypeOK'
  <2>1. book' \in Seq(Ticket) /\ DOMAIN book' = DOMAIN book
    <3>1. book \in Seq(Ticket) /\ k \in 1 .. Len(book) /\ book[k] \in Ticket
      BY ElementOfSeq DEF TypeOK
    <3>2. ASSUME NEW s \in TicketState PROVE [book[k] EXCEPT !.state = s] \in Ticket
      BY <3>1 DEF Ticket
    <3>3. PICK s \in TicketState : book' = [book EXCEPT ![k] = [book[k] EXCEPT !.state = s]]
      BY <1>1 DEF Settle
    <3> QED BY SMTT(30), <3>1, <3>2, <3>3, ExceptSeq
  <2> QED BY <1>1, <2>1 DEF Settle, TypeOK
<1>2. ASSUME NEW y \in Syncer, SyncFetch(y) PROVE TypeOK'
  <2>1. ASSUME NEW S \in SUBSET DOMAIN book
        PROVE  [k \in S |-> book[k].state] \in Fetched(book)
    <3>1. \A k \in DOMAIN book : book[k].state \in TicketState
      <4>1. \A k \in DOMAIN book : book[k] \in Ticket
        BY DEF TypeOK
      <4> QED BY <4>1 DEF Ticket
    <3>2. [k \in S |-> book[k].state] \in [S -> TicketState]
      BY <3>1
    <3> QED BY <3>2 DEF Fetched
  <2>2. ASSUME NEW local \in BOOLEAN
        PROVE  [k \in {i \in DOMAIN book : (book[i].order \in Local) = local} |-> book[k].state]
                 \in Fetched(book)
    BY <2>1
  <2>3. \A z \in Syncer : snap'[z] \in Fetched(book)
    BY <1>2, <2>2 DEF SyncFetch, TypeOK, Fetched
  <2> QED BY <1>2, <2>3 DEF SyncFetch, TypeOK, Fetched
<1>3. ASSUME NEW y \in Syncer, SyncApply(y) PROVE TypeOK'
  <2> DEFINE bk == snap[y]
  <2>1. DOMAIN bk \subseteq Nat /\ \A k \in DOMAIN bk : bk[k] \in TicketState
    BY <1>0 DEF TypeOK
  <2>2. ASSUME NEW st \in TicketState PROVE MapStatus(st) \in Status
    BY DEF MapStatus
  <2>3. ASSUME NEW m \in Linkings(bk), NEW o \in Order
        PROVE  Synced(bk, m, o) \in OrderRow
    <3>1. order[o] \in OrderRow
      BY DEF TypeOK
    <3>2. ASSUME NEW k \in DOMAIN bk
          PROVE  [order[o] EXCEPT !.ticket = k, !.status = MapStatus(bk[k])] \in OrderRow
      <4>1. k \in Nat /\ MapStatus(bk[k]) \in Status
        BY <2>1, <2>2
      <4> QED BY <3>1, <4>1, EditType
    <3> QED BY <3>1, <3>2 DEF Synced
  <2>4. PICK m \in Linkings(bk) :
          /\ order' = [o \in Order |-> Synced(bk, m, o)]
          /\ fills' = [o \in Order |->
               IF Fills(order[o], Synced(bk, m, o)) THEN fills[o] + 1 ELSE fills[o]]
    BY <1>3 DEF SyncApply
  <2>5. order' \in [Order -> OrderRow]
    BY <2>3, <2>4
  <2>6. fills' \in [Order -> Nat]
    BY <2>4 DEF TypeOK
  <2>7. \A z \in Syncer : snap'[z] \in Fetched(book)
    BY <1>3, FetchedType DEF SyncApply, TypeOK, Fetched
  <2> QED BY <1>3, <2>5, <2>6, <2>7 DEF SyncApply, TypeOK, Fetched
<1> QED BY <1>1, <1>2, <1>3 DEF BrokerAndSync

LEMMA TypeStep == TypeOK /\ [Next]_vars => TypeOK'
<1> SUFFICES ASSUME TypeOK, [Next]_vars PROVE TypeOK'
  OBVIOUS
<1>1. ASSUME NEW s \in Scope, Expire(s) PROVE TypeOK'
  BY <1>1, InflightType DEF Expire, TypeOK
<1>2. CASE Crash
  <2>1. Idle \in ThreadState /\ Idle.pc = "idle"
    BY DEF Idle, ThreadState
  <2>2. \A y \in Syncer : snap'[y] \in Fetched(book)
    BY <1>2, FetchedType DEF Crash
  <2>3. faults' \in 0 .. MaxFaults
    BY <1>2, FaultType DEF Crash
  <2> QED BY <1>2, <2>1, <2>2, <2>3 DEF Crash, TypeOK, Fetched
<1>3. CASE UNCHANGED vars
  BY <1>3 DEF vars, TypeOK
<1> QED BY <1>1, <1>2, <1>3, QueueType, ExecutionType, LoopType, SyncType DEF Next

\* Whatever is requested, triggered, synced or lost, every row, reservation and
\* thread keeps a value the code can write.
THEOREM TypeCorrect == Spec => []TypeOK
<1> QED BY InitType, TypeStep, PTL DEF Spec

-----------------------------------------------------------------------------
(* One execution per scope *)

Executing(t) == thread[t].pc # "idle"
Exists(o) == order[o].status # "ABSENT"

\* Executions and the loop only know orders that exist.
Known ==
  /\ \A t \in Thread : Executing(t) => Exists(MyOrder(t))
  /\ \A o \in pending : Exists(o)

\* Two threads that run the same order have been noticed.
Noticed ==
  \A t, u \in Thread :
    t # u /\ Executing(t) /\ Executing(u) /\ MyOrder(t) = MyOrder(u) => MyOrder(t) \in twice

\* An execution past its reservation still holds it, unless its order was executed
\* twice: then the first of the two to end has given it away.
Holds ==
  \A t \in Thread, s \in Scope :
    InScope(t, s) /\ MyOrder(t) \notin twice => inflight[s] = MyOrder(t)

Reserved == TypeOK /\ Known /\ Noticed /\ Holds

\* Rows never vanish.
LEMMA RowsStay ==
  ASSUME TypeOK, [Next]_vars, NEW o \in Order, Exists(o)
  PROVE  Exists(o)'
<1> USE DEF Exists
<1>1. ASSUME NEW p \in Order, NEW row, Insert(p, row) PROVE Exists(o)'
  BY <1>1 DEF Insert, TypeOK
<1>2. CASE Queue
  <2>1. ASSUME NEW p \in Order, EditGtt(p) PROVE Exists(o)'
    BY ZenonT(60), <2>1 DEF EditGtt, TypeOK, OrderRow
  <2>2. ASSUME NEW p \in Order, Patch(p) PROVE Exists(o)'
    BY <2>2 DEF Patch, Set, TypeOK, OrderRow
  <2> QED BY <1>1, <1>2, <2>1, <2>2
          DEF Queue, Create, Refuse, CreateAuto, Execute, Requeue
<1>3. ASSUME NEW t \in Thread, Proceed(t) \/ Break(t) PROVE Exists(o)'
  <2>0. CASE UNCHANGED order
    BY <2>0
  <2>1. ASSUME NEW row, NEW pc, Conclude(t, row, pc),
               row.status = Row(t).status \/ row.status \in Status \ {"ABSENT"}
        PROVE  Exists(o)'
    BY <2>1 DEF Conclude, Row, TypeOK
  <2>2. ASSUME NEW st \in Status \ {"ABSENT"}, Executing(t)
        PROVE  /\ [Row(t) EXCEPT !.status = st].status = st
               /\ [Row(t) EXCEPT !.armed = TRUE].status = Row(t).status
               /\ \A k \in Nat : [Row(t) EXCEPT !.status = st, !.ticket = k].status = st
    BY <2>2, RowType DEF Executing, OrderRow
  <2>3. CASE RejectRisk(t) \/ FailSend(t) \/ LoseResponse(t) \/ Record(t)
    <3>1. Executing(t) /\ thread[t].ticket \in Nat
      BY <2>3, RowType DEF RejectRisk, FailSend, LoseResponse, Record, Executing, At
    <3>2. /\ [Row(t) EXCEPT !.status = "REJECTED_RISK"].status = "REJECTED_RISK"
          /\ [Row(t) EXCEPT !.status = "FAILED"].status = "FAILED"
          /\ [Row(t) EXCEPT !.status = "SENT", !.ticket = thread[t].ticket].status = "SENT"
      BY <2>2, <3>1
    <3> QED BY <2>1, <2>3, <3>2 DEF RejectRisk, FailSend, LoseResponse, Record
  <2>4. CASE PauseAuto(t)
    <3>1. [Row(t) EXCEPT !.status = IF t = Gtt THEN "WAITING" ELSE @,
                         !.mode = "MANUAL", !.armed = TRUE].status
            \in {"WAITING", Row(t).status}
      BY <2>4, RowType DEF PauseAuto, At, OrderRow
    <3> QED BY <2>1, <2>4, <3>1 DEF PauseAuto
  <2>5. CASE Arm(t) \/ FailEarly(t)
    <3>1. Executing(t)
      BY <2>5 DEF Arm, FailEarly, Executing, At
    <3>2. [Row(t) EXCEPT !.armed = TRUE].status = Row(t).status
      BY <2>2, <3>1
    <3> QED BY <2>1, <2>5, <3>2 DEF Arm, FailEarly
  <2>6. CASE Close(t) \/ Abandon(t)
    BY ZenonT(60), <2>0, <2>6 DEF Close, Abandon, FailUnsent, Set, TypeOK, OrderRow
  <2> QED BY <1>3, <2>0, <2>3, <2>4, <2>5, <2>6
          DEF Proceed, Break, Reserve, Busy, PassRisk, Send
<1>4. CASE GttLoop
  <2>1. ASSUME NEW p \in Order, Trigger(p) PROVE Exists(o)'
    BY <2>1 DEF Trigger, TypeOK, OrderRow
  <2> QED BY <1>4, <2>1 DEF GttLoop, Scan, PassBy
<1>5. ASSUME NEW y \in Syncer, SyncApply(y) PROVE Exists(o)'
  <2>1. PICK m \in Linkings(snap[y]) : order' = [p \in Order |-> Synced(snap[y], m, p)]
    BY <1>5 DEF SyncApply
  <2>2. order[o] \in OrderRow /\ \A k \in DOMAIN snap[y] : snap[y][k] \in TicketState
    BY DEF TypeOK
  <2>3. ASSUME NEW k \in DOMAIN snap[y]
        PROVE  [order[o] EXCEPT !.ticket = k, !.status = MapStatus(snap[y][k])].status # "ABSENT"
    <3>1. MapStatus(snap[y][k]) # "ABSENT"
      BY <2>2 DEF MapStatus
    <3> QED BY <2>2, <3>1 DEF OrderRow
  <2>4. Synced(snap[y], m, o).status # "ABSENT"
    BY <2>3 DEF Synced
  <2> QED BY <2>1, <2>4
<1> QED BY <1>2, <1>3, <1>4, <1>5
        DEF Next, BrokerAndSync, Settle, SyncFetch, Expire, Crash, vars

\* A thread inside a scope executes an order of that scope.
LEMMA InScopeExecutes ==
  ASSUME TypeOK, NEW t \in Thread, NEW s \in Scope, InScope(t, s)
  PROVE  Executing(t) /\ MyOrder(t) \in Order /\ Running(MyOrder(t))
BY DEF TypeOK, InScope, Executing, MyOrder, Running

\* A thread takes up an order: it is not yet past the reservation it needs.
LEMMA BeginKeeps ==
  ASSUME Reserved, NEW t \in Thread, NEW o \in Order, NEW arm \in BOOLEAN,
         ~Executing(t), Begin(t, o, arm), inflight' = inflight,
         twice \subseteq twice', Running(o) => o \in twice'
  PROVE  Noticed' /\ Holds'
<1>1. /\ thread'[t].pc = IF Reserves(o, arm) THEN "reserving" ELSE "checking"
      /\ thread'[t].order = o /\ thread'[t].arm = arm
      /\ \A u \in Thread \ {t} : thread'[u] = thread[u]
  BY DEF Begin, Reserved, TypeOK
<1>2. Noticed'
  BY <1>1 DEF Reserved, Noticed, Executing, MyOrder, Running
<1>3. \A s \in Scope : ~InScope(t, s)'
  BY <1>1 DEF InScope, MyOrder, Reserves
<1>4. Holds'
  BY <1>1, <1>3 DEF Reserved, Holds, InScope, MyOrder
<1> QED BY <1>2, <1>4

\* A thread goes on with its order without entering or leaving its reservation.
LEMMA ProceedKeeps ==
  ASSUME Reserved, NEW t \in Thread, Executing(t),
         \A u \in Thread \ {t} : thread'[u] = thread[u],
         thread'[t].order = thread[t].order, thread'[t].arm = thread[t].arm,
         \/ thread[t].pc \in {"checking", "ready", "sent"}
         \/ thread'[t].pc \notin {"checking", "ready", "sent"},
         inflight' = inflight, twice' = twice
  PROVE  Noticed' /\ Holds'
<1>1. \A u \in Thread : MyOrder(u)' = MyOrder(u) /\ (Executing(u)' => Executing(u))
  BY DEF MyOrder, Executing
<1>2. \A u \in Thread, s \in Scope : InScope(u, s)' => InScope(u, s)
  <2>1. \A s \in Scope : InScope(t, s)' => InScope(t, s)
    BY DEF InScope, MyOrder
  <2>2. \A u \in Thread \ {t}, s \in Scope : InScope(u, s)' => InScope(u, s)
    BY DEF InScope, MyOrder
  <2> QED BY <2>1, <2>2
<1> QED BY <1>1, <1>2 DEF Reserved, Noticed, Holds

\* A thread ends: who runs another order keeps the reservation of that order.
LEMMA EndKeeps ==
  ASSUME Reserved, NEW t \in Thread, Executing(t),
         Release(MyOrder(t)), Rest(t), twice' = twice
  PROVE  Noticed' /\ Holds'
<1>1. /\ ~Executing(t)' /\ \A s \in Scope : ~InScope(t, s)'
      /\ \A u \in Thread \ {t} : thread'[u] = thread[u]
  BY DEF Rest, Idle, Reserved, TypeOK, Executing, InScope
<1>2. Noticed'
  BY <1>1 DEF Reserved, Noticed, Executing, MyOrder
<1>3. ASSUME NEW u \in Thread, NEW s \in Scope, InScope(u, s)', MyOrder(u)' \notin twice'
      PROVE  inflight'[s] = MyOrder(u)'
  <2>1. u # t /\ InScope(u, s) /\ MyOrder(u)' = MyOrder(u)
    BY <1>1, <1>3 DEF InScope, MyOrder
  <2>2. Executing(u) /\ inflight[s] = MyOrder(u)
    BY <1>3, <2>1, InScopeExecutes DEF Reserved, Holds
  <2>3. MyOrder(u) # MyOrder(t)
    BY <1>3, <2>1, <2>2 DEF Reserved, Noticed
  <2> QED BY <2>1, <2>2, <2>3 DEF Release
<1> QED BY <1>2, <1>3 DEF Holds

\* Threads and history unchanged: only the reservations of orders that nobody
\* runs may disappear.
LEMMA QuietKeeps ==
  ASSUME Reserved, thread' = thread, twice \subseteq twice',
         \A s \in Scope :
           \/ inflight'[s] = inflight[s]
           \/ Running(inflight[s]) => inflight[s] \in twice'
  PROVE  Noticed' /\ Holds'
<1>1. Noticed'
  BY DEF Reserved, Noticed, Executing, MyOrder
<1>2. ASSUME NEW u \in Thread, NEW s \in Scope, InScope(u, s)', MyOrder(u)' \notin twice'
      PROVE  inflight'[s] = MyOrder(u)'
  <2>1. InScope(u, s) /\ MyOrder(u)' = MyOrder(u) /\ MyOrder(u) \notin twice
    BY <1>2 DEF InScope, MyOrder
  <2>2. inflight[s] = MyOrder(u) /\ Running(inflight[s])
    BY <2>1, InScopeExecutes DEF Reserved, Holds
  <2> QED BY <1>2, <2>1, <2>2
<1> QED BY <1>1, <1>2 DEF Holds

\* A compare-and-set takes the reservation from nobody but the order itself.
LEMMA ReserveKeeps ==
  ASSUME Reserved, NEW t \in Thread, Reserve(t)
  PROVE  Noticed' /\ Holds'
<1> DEFINE o == MyOrder(t)
<1>1. /\ Executing(t) /\ o \in Order /\ ScopeOf[o] \in Scope /\ NoOrder \notin Order
      /\ inflight[ScopeOf[o]] \in {NoOrder, o} /\ inflight'[ScopeOf[o]] = o
      /\ \A s \in Scope : s # ScopeOf[o] => inflight'[s] = inflight[s]
      /\ thread'[t].order = o
      /\ \A u \in Thread \ {t} : thread'[u] = thread[u]
      /\ twice' = twice
  BY RowType, ConstantsAssumption
     DEF Reserve, Goto, At, Executing, Reserved, TypeOK, MyOrder, ThreadState
<1>2. \A u \in Thread : MyOrder(u)' = MyOrder(u) /\ (Executing(u)' => Executing(u))
  BY <1>1 DEF MyOrder, Executing
<1>3. Noticed'
  BY <1>1, <1>2 DEF Reserved, Noticed
<1>4. ASSUME NEW u \in Thread, NEW s \in Scope, InScope(u, s)', MyOrder(u)' \notin twice'
      PROVE  inflight'[s] = MyOrder(u)'
  <2>1. CASE u = t
    BY <1>1, <1>2, <1>4, <2>1 DEF InScope
  <2>2. CASE u # t
    <3>1. InScope(u, s) /\ MyOrder(u) \notin twice
      BY <1>1, <1>2, <1>4, <2>2 DEF InScope, MyOrder
    <3>2. inflight[s] = MyOrder(u) /\ MyOrder(u) \in Order
      BY <3>1, InScopeExecutes DEF Reserved, Holds
    <3> QED BY <1>1, <1>2, <3>2
  <2> QED BY <2>1, <2>2
<1> QED BY <1>3, <1>4 DEF Holds

\* A thread moves on with the order it has.
LEMMA GotoMoves ==
  ASSUME TypeOK, NEW t \in Thread, NEW pc, Goto(t, pc)
  PROVE  /\ thread'[t].pc = pc
         /\ thread'[t].order = thread[t].order /\ thread'[t].arm = thread[t].arm
         /\ \A u \in Thread \ {t} : thread'[u] = thread[u]
BY DEF Goto, TypeOK, ThreadState

\* A step of an execution starts no other one.
LEMMA StepsStartNothing ==
  ASSUME TypeOK, NEW t \in Thread, Proceed(t) \/ Break(t)
  PROVE  /\ pending' = pending
         /\ \A u \in Thread : Executing(u)' => Executing(u) /\ MyOrder(u)' = MyOrder(u)
<1>1. ASSUME NEW pc, Goto(t, pc), Executing(t)
      PROVE  \A u \in Thread : Executing(u)' => Executing(u) /\ MyOrder(u)' = MyOrder(u)
  BY <1>1, GotoMoves DEF Executing, MyOrder
<1>2. ASSUME Rest(t)
      PROVE  \A u \in Thread : Executing(u)' => Executing(u) /\ MyOrder(u)' = MyOrder(u)
  BY <1>2 DEF Rest, Idle, Executing, MyOrder, TypeOK
<1>3. CASE Reserve(t) \/ Busy(t) \/ PassRisk(t)
  <2>1. Executing(t) /\ pending' = pending /\ \E pc \in {"checking", "ready", "failing"} : Goto(t, pc)
    BY <1>3 DEF Reserve, Busy, PassRisk, At, Executing
  <2> QED BY <1>1, <2>1
<1>4. CASE RejectRisk(t) \/ PauseAuto(t) \/ Arm(t) \/ FailEarly(t) \/ FailSend(t)
           \/ Record(t) \/ LoseResponse(t)
  <2>1. Executing(t) /\ pending' = pending /\ \E pc \in {"closing", "failing"} : Goto(t, pc)
    BY <1>4 DEF RejectRisk, PauseAuto, Arm, FailEarly, FailSend, Record, LoseResponse,
                Conclude, At, Executing
  <2> QED BY <1>1, <2>1
<1>5. CASE Send(t)
  BY <1>5 DEF Send, At, Executing, MyOrder, TypeOK, ThreadState
<1>6. CASE Close(t) \/ Abandon(t)
  BY <1>2, <1>6 DEF Close, Abandon
<1> QED BY <1>3, <1>4, <1>5, <1>6 DEF Proceed, Break

\* An order is executed, or visited by the loop, only when it exists.
LEMMA KnownStep ==
  ASSUME TypeOK, TypeOK', Known, [Next]_vars
  PROVE  Known'
<1>1. \A o \in Order : Exists(o) => Exists(o)'
  BY RowsStay
<1>2. pending \subseteq Order /\ \A t \in Thread : Executing(t) => MyOrder(t) \in Order
  BY DEF TypeOK, Executing, MyOrder
<1>3. ASSUME \A o \in pending' : o \in pending \/ Exists(o)',
             \A t \in Thread : Executing(t)' =>
               Exists(MyOrder(t))' \/ (Executing(t) /\ MyOrder(t)' = MyOrder(t))
      PROVE  Known'
  <2>1. ASSUME NEW t \in Thread, Executing(t)' PROVE Exists(MyOrder(t))'
    <3>1. CASE Executing(t) /\ MyOrder(t)' = MyOrder(t)
      <4>1. MyOrder(t) \in Order /\ Exists(MyOrder(t))
        BY <1>2, <3>1 DEF Known
      <4> QED BY <1>1, <3>1, <4>1 DEF Exists
    <3> QED BY <1>3, <2>1, <3>1
  <2>2. ASSUME NEW o \in pending' PROVE Exists(o)'
    BY <1>1, <1>2, <1>3, <2>2 DEF Known
  <2> QED BY <2>1, <2>2 DEF Known
<1>4. ASSUME pending' \subseteq pending, thread' = thread PROVE Known'
  BY <1>3, <1>4 DEF Executing, MyOrder
<1>5. ASSUME NEW r \in Thread, NEW o \in Order, NEW arm \in BOOLEAN, Begin(r, o, arm),
             Exists(o)', pending' \subseteq pending
      PROVE  Known'
  <2>1. \A t \in Thread \ {r} : thread'[t] = thread[t]
    BY <1>5 DEF Begin, TypeOK
  <2>2. MyOrder(r)' = o
    BY <1>5 DEF Begin, TypeOK, MyOrder
  <2>3. ASSUME NEW t \in Thread, Executing(t)'
        PROVE  Exists(MyOrder(t))' \/ (Executing(t) /\ MyOrder(t)' = MyOrder(t))
    <3>1. CASE t = r
      BY <1>5, <2>2, <3>1 DEF Exists
    <3>2. CASE t # r
      BY <2>1, <2>3, <3>2 DEF Executing, MyOrder
    <3> QED BY <3>1, <3>2
  <2> QED BY <1>3, <1>5, <2>3
<1>6. CASE Queue
  <2>1. ASSUME NEW r \in Request, NEW o \in Order, CreateAuto(r, o) PROVE Known'
    <3>1. Exists(o)'
      BY <2>1 DEF CreateAuto, Insert, Exists, TypeOK, NoRow
    <3> QED BY <1>5, <2>1, <3>1 DEF CreateAuto
  <2>2. ASSUME NEW r \in Request, NEW o \in Order, Execute(r, o) PROVE Known'
    <3>1. (order[o].gtt /\ order[o].status = "WAITING") \in BOOLEAN /\ Exists(o)
      BY <2>2 DEF Execute, Exists
    <3> QED BY <1>1, <1>5, <2>2, <3>1 DEF Execute
  <2> QED BY <1>4, <1>6, <2>1, <2>2 DEF Queue, Create, Refuse, Patch, EditGtt, Requeue
<1>7. ASSUME NEW t \in Thread, Proceed(t) \/ Break(t) PROVE Known'
  BY <1>3, <1>7, StepsStartNothing
<1>8. CASE GttLoop
  <2>1. CASE Scan
    <3>1. \A o \in pending' : o \in Order /\ Exists(o)
      BY <2>1 DEF Scan, Exists
    <3>2. \A o \in pending' : Exists(o)'
      BY <1>1, <3>1
    <3> QED BY <1>3, <2>1, <3>2 DEF Scan, Executing, MyOrder
  <2>2. ASSUME NEW o \in Order, Trigger(o) PROVE Known'
    <3>1. Exists(o)'
      BY <1>1, <2>2 DEF Trigger, Known
    <3> QED BY <1>5, <2>2, <3>1 DEF Trigger
  <2> QED BY <1>4, <1>8, <2>1, <2>2 DEF GttLoop, PassBy
<1>9. CASE Crash
  <2>1. \A t \in Thread : ~Executing(t)'
    BY <1>9 DEF Crash, Executing, Idle
  <2> QED BY <1>9, <2>1 DEF Crash, Known
<1>10. CASE BrokerAndSync \/ (\E s \in Scope : Expire(s)) \/ UNCHANGED vars
  BY <1>4, <1>10 DEF BrokerAndSync, Settle, SyncFetch, SyncApply, Expire, vars
<1> QED BY <1>6, <1>7, <1>8, <1>9, <1>10 DEF Next

\* The invariant is inductive.
LEMMA ReservedStep == Reserved /\ [Next]_vars => Reserved'
<1> SUFFICES ASSUME Reserved, [Next]_vars PROVE Reserved'
  OBVIOUS
<1>1. TypeOK /\ TypeOK'
  BY TypeStep DEF Reserved
<1>2. Known'
  BY <1>1, KnownStep DEF Reserved
<1>3. Noticed' /\ Holds'
  <2>1. CASE Queue
    <3>1. ASSUME NEW o \in Order, Refuse(o) PROVE Noticed' /\ Holds'
      BY <3>1, QuietKeeps DEF Refuse, Release, Again, Reserved, TypeOK
    <3>2. ASSUME NEW r \in Request, NEW o \in Order, CreateAuto(r, o) PROVE Noticed' /\ Holds'
      <4>1. ~Running(o)
        BY <1>1, <3>2 DEF CreateAuto, Insert, Reserved, Known, Exists, Executing, MyOrder, Running
      <4> QED BY <3>2, <4>1, BeginKeeps DEF CreateAuto, Executing
    <3>3. ASSUME NEW r \in Request, NEW o \in Order, Execute(r, o) PROVE Noticed' /\ Holds'
      <4>1. (order[o].gtt /\ order[o].status = "WAITING") \in BOOLEAN
        OBVIOUS
      <4> QED BY <3>3, <4>1, BeginKeeps DEF Execute, Again, Executing
    <3> QED BY <2>1, <3>1, <3>2, <3>3, QuietKeeps
            DEF Queue, Create, Patch, EditGtt, Requeue
  <2>2. ASSUME NEW t \in Thread, Proceed(t) \/ Break(t) PROVE Noticed' /\ Holds'
    <3>1. CASE Reserve(t)
      BY <3>1, ReserveKeeps
    <3>2. CASE Close(t) \/ Abandon(t)
      <4>1. Executing(t)
        BY <3>2 DEF Close, Abandon, At, Executing
      <4> QED BY <3>2, <4>1, EndKeeps DEF Close, Abandon
    <3>3. ASSUME NEW pc \in {"closing", "failing"}, Executing(t), Goto(t, pc),
                 inflight' = inflight, twice' = twice
          PROVE  Noticed' /\ Holds'
      BY <1>1, <3>3, GotoMoves, ProceedKeeps
    <3>4. CASE RejectRisk(t) \/ PauseAuto(t) \/ Arm(t) \/ FailEarly(t) \/ FailSend(t)
               \/ Record(t) \/ LoseResponse(t)
      <4>1. /\ Executing(t) /\ inflight' = inflight /\ twice' = twice
            /\ \E pc \in {"closing", "failing"} : Goto(t, pc)
        BY <3>4 DEF RejectRisk, PauseAuto, Arm, FailEarly, FailSend, Record, LoseResponse,
                    Conclude, At, Executing
      <4> QED BY <3>3, <4>1
    <3>5. CASE Busy(t) \/ PassRisk(t)
      <4>1. CASE Busy(t)
        BY <3>3, <4>1 DEF Busy, At, Executing
      <4>2. CASE PassRisk(t)
        <5>1. Executing(t) /\ Goto(t, "ready") /\ thread[t].pc = "checking"
          BY <4>2 DEF PassRisk, At, Executing
        <5> QED BY <1>1, <4>2, <5>1, GotoMoves, ProceedKeeps DEF PassRisk
      <4> QED BY <3>5, <4>1, <4>2
    <3>6. CASE Send(t)
      BY SMTT(30), <1>1, <3>6, ProceedKeeps DEF Send, At, Executing, TypeOK, ThreadState
    <3> QED BY <2>2, <3>1, <3>2, <3>4, <3>5, <3>6 DEF Proceed, Break
  <2>3. CASE GttLoop
    <3>1. ASSUME NEW o \in Order, Trigger(o) PROVE Noticed' /\ Holds'
      BY <3>1, BeginKeeps DEF Trigger, Again, Executing
    <3> QED BY <2>3, <3>1, QuietKeeps DEF GttLoop, Scan, PassBy
  <2>4. CASE BrokerAndSync
    BY <2>4, QuietKeeps DEF BrokerAndSync, Settle, SyncFetch, SyncApply
  <2>5. ASSUME NEW s \in Scope, Expire(s) PROVE Noticed' /\ Holds'
    BY <1>1, <2>5, QuietKeeps DEF Expire, TypeOK
  <2>6. CASE Crash
    <3>1. \A t \in Thread : ~Executing(t)' /\ \A s \in Scope : ~InScope(t, s)'
      BY <2>6 DEF Crash, Idle, Executing, InScope
    <3> QED BY <3>1 DEF Noticed, Holds
  <2>7. CASE UNCHANGED vars
    BY <2>7, QuietKeeps DEF vars
  <2> QED BY <2>1, <2>2, <2>3, <2>4, <2>5, <2>6, <2>7 DEF Next
<1> QED BY <1>1, <1>2, <1>3 DEF Reserved

LEMMA ReservedInit == Init => Reserved
<1> SUFFICES ASSUME Init PROVE Reserved
  OBVIOUS
<1>1. \A t \in Thread : ~Executing(t) /\ \A s \in Scope : ~InScope(t, s)
  BY DEF Init, Idle, Executing, InScope
<1>2. Known /\ Noticed /\ Holds
  BY <1>1 DEF Init, Known, Noticed, Holds
<1> QED BY <1>2, InitType DEF Reserved

\* Who is in a scope holds its reservation, and it has one holder.
LEMMA ReservedIsExclusive == Reserved => OneInFlightPerScope
<1> SUFFICES ASSUME Reserved, NEW t \in Thread, NEW u \in Thread, NEW s \in Scope,
                    InScope(t, s), InScope(u, s), t # u,
                    MyOrder(t) \notin twice, MyOrder(u) \notin twice
             PROVE  FALSE
  BY DEF OneInFlightPerScope
<1>1. inflight[s] = MyOrder(t) /\ inflight[s] = MyOrder(u)
  BY DEF Reserved, Holds
<1>2. Executing(t) /\ Executing(u)
  BY InScopeExecutes DEF Reserved
<1> QED BY <1>1, <1>2 DEF Reserved, Noticed

\* For any number of orders, scopes and threads: two executions are never between
\* the risk check and the broker's answer in one scope, unless one of their orders
\* was executed while it was already running.
THEOREM OneExecutionPerScope == Spec => []OneInFlightPerScope
<1> QED BY ReservedInit, ReservedStep, ReservedIsExclusive, PTL DEF Spec

-----------------------------------------------------------------------------
(* Tickets: a live one is accounted for, by the execution in flight or by the *)
(* row of its order, but for one per fault.                                   *)

\* An order that some thread is executing and has not concluded.
Working(t, o) ==
  thread[t].pc \in {"reserving", "checking", "ready", "sent"} /\ MyOrder(t) = o
Active(o) == \E t \in Thread : Working(t, o)
InFlight(k, o) == \E t \in Thread : At(t, "sent") /\ MyOrder(t) = o /\ thread[t].ticket = k
Booked(k, o) == order[o].status \in {"SENT", "EXECUTED"} /\ order[o].ticket = k
Settled(k, o) == IF Active(o) THEN InFlight(k, o) ELSE Booked(k, o)

\* The live tickets of some orders that nothing accounts for.
Lost(S) ==
  {k \in DOMAIN book : Live(k) /\ book[k].order \in S /\ ~Settled(k, book[k].order)}

\* Tickets belong to orders that exist, and a fetched final state is the broker's.
TicketsKnown == \A k \in DOMAIN book : Exists(book[k].order)
SnapTrue == \A y \in Syncer : \A k \in DOMAIN snap[y] :
              snap[y][k] # "OPEN" => book[k].state = snap[y][k]
Counting == Reserved /\ TicketsKnown /\ SnapTrue

-----------------------------------------------------------------------------
(* Tickets and snapshots *)

LEMMA BookType ==
  ASSUME TypeOK
  PROVE  /\ DOMAIN book = 1 .. Len(book) /\ Len(book) \in Nat
         /\ \A k \in DOMAIN book : book[k] \in Ticket /\ book[k].order \in Order
         /\ \A y \in Syncer : DOMAIN snap[y] \subseteq DOMAIN book
         /\ \A y \in Syncer : \A k \in DOMAIN snap[y] : snap[y][k] \in TicketState
<1>1. book \in Seq(Ticket)
  BY DEF TypeOK
<1>2. DOMAIN book = 1 .. Len(book) /\ Len(book) \in Nat
  BY <1>1
<1>3. \A k \in DOMAIN book : book[k] \in Ticket
  BY <1>1
<1> QED BY <1>2, <1>3 DEF Ticket, TypeOK

\* The book grows by Send and changes by Settle; nothing else writes it.
LEMMA BookMoves ==
  ASSUME TypeOK, [Next]_vars
  PROVE  \/ book' = book
         \/ \E t \in Thread : Send(t)
         \/ \E k \in DOMAIN book : Settle(k)
<1>1. CASE Queue
  BY <1>1 DEF Queue, Create, Refuse, CreateAuto, Execute, Patch, EditGtt, Requeue
<1>2. ASSUME NEW t \in Thread, Proceed(t) \/ Break(t)
      PROVE  book' = book \/ Send(t)
  BY <1>2 DEF Proceed, Break, Reserve, Busy, PassRisk, RejectRisk, PauseAuto, Arm, FailEarly,
              FailSend, Record, LoseResponse, Close, Abandon, Conclude
<1> QED BY <1>1, <1>2
        DEF Next, GttLoop, Scan, PassBy, Trigger, BrokerAndSync, SyncFetch, SyncApply,
            Expire, Crash, vars

\* A ticket stays with its order, and a final state is final.
LEMMA TicketsStay ==
  ASSUME TypeOK, [Next]_vars
  PROVE  /\ DOMAIN book \subseteq DOMAIN book'
         /\ \A k \in DOMAIN book : /\ book'[k].order = book[k].order
                                   /\ book[k].state # "OPEN" => book'[k] = book[k]
<1>1. ASSUME NEW t \in Thread, Send(t)
      PROVE  /\ DOMAIN book \subseteq DOMAIN book'
             /\ \A k \in DOMAIN book : book'[k] = book[k]
  BY <1>1, BookType DEF Send, TypeOK
<1>2. ASSUME NEW j \in DOMAIN book, Settle(j)
      PROVE  /\ DOMAIN book' = DOMAIN book /\ book[j].state = "OPEN"
             /\ \A k \in DOMAIN book : /\ book'[k].order = book[k].order
                                       /\ k # j => book'[k] = book[k]
  BY <1>2, BookType DEF Settle, Ticket
<1> QED BY <1>1, <1>2, BookMoves

LEMMA TicketsKnownStep ==
  ASSUME TypeOK, TypeOK', Known, TicketsKnown, [Next]_vars
  PROVE  TicketsKnown'
<1>1. \A o \in Order : Exists(o) => order'[o].status # "ABSENT"
  BY RowsStay DEF Exists
<1>2. ASSUME NEW k \in DOMAIN book PROVE order'[book'[k].order].status # "ABSENT"
  BY <1>1, <1>2, BookType, TicketsStay DEF TicketsKnown
<1>3. ASSUME NEW t \in Thread, Send(t), NEW k \in DOMAIN book', k \notin DOMAIN book
      PROVE  order'[book'[k].order].status # "ABSENT"
  <2>1. book' = Append(book, [order |-> MyOrder(t), state |-> "OPEN"]) /\ Executing(t)
    BY <1>3 DEF Send, At, Executing
  <2>2. k = Len(book) + 1
    BY <1>3, <2>1, BookType DEF TypeOK
  <2>3. book'[k].order = MyOrder(t)
    BY <2>1, <2>2, BookType DEF TypeOK
  <2>4. Exists(MyOrder(t)) /\ MyOrder(t) \in Order
    BY <2>1, RowType DEF Known, Executing
  <2> QED BY <1>1, <2>3, <2>4
<1>4. ASSUME NEW k \in DOMAIN book' PROVE order'[book'[k].order].status # "ABSENT"
  <2>1. CASE k \in DOMAIN book
    BY <1>2, <2>1
  <2>2. CASE k \notin DOMAIN book
    BY <1>3, <1>4, <2>2, BookMoves DEF Settle
  <2> QED BY <2>1, <2>2
<1> QED BY <1>4 DEF TicketsKnown, Exists

LEMMA SnapStep ==
  ASSUME TypeOK, SnapTrue, [Next]_vars
  PROVE  SnapTrue'
<1>1. ASSUME NEW y \in Syncer, NEW k \in DOMAIN snap[y], snap[y][k] # "OPEN"
      PROVE  book'[k].state = snap[y][k]
  BY <1>1, BookType, TicketsStay DEF SnapTrue
<1>2. ASSUME snap' = snap PROVE SnapTrue'
  BY <1>1, <1>2 DEF SnapTrue
<1>3. ASSUME NEW y \in Syncer, SyncFetch(y) PROVE SnapTrue'
  <2>1. PICK local \in BOOLEAN :
          snap' = [snap EXCEPT ![y] =
            [k \in {i \in DOMAIN book : (book[i].order \in Local) = local} |-> book[k].state]]
    BY <1>3 DEF SyncFetch
  <2>2. book' = book /\ DOMAIN snap = Syncer
    BY <1>3 DEF SyncFetch, TypeOK
  <2> QED BY <1>1, <2>1, <2>2 DEF SnapTrue
<1>4. ASSUME NEW y \in Syncer, SyncApply(y) PROVE SnapTrue'
  <2>1. book' = book /\ DOMAIN snap = Syncer /\ snap' = [snap EXCEPT ![y] = Unfetched]
    BY <1>4 DEF SyncApply, TypeOK
  <2>2. DOMAIN Unfetched = {}
    BY DEF Unfetched
  <2> QED BY <1>1, <2>1, <2>2 DEF SnapTrue
<1>5. CASE Crash
  <2>1. \A y \in Syncer : snap'[y] = Unfetched
    BY <1>5 DEF Crash
  <2>2. DOMAIN Unfetched = {}
    BY DEF Unfetched
  <2> QED BY <2>1, <2>2 DEF SnapTrue
<1>6. CASE Queue
  BY <1>2, <1>6 DEF Queue, Create, Refuse, CreateAuto, Execute, Patch, EditGtt, Requeue
<1>7. ASSUME NEW t \in Thread, Proceed(t) \/ Break(t)
      PROVE  snap' = snap
  BY <1>7 DEF Proceed, Break, Reserve, Busy, PassRisk, RejectRisk, PauseAuto, Arm, FailEarly,
              Send, FailSend, Record, LoseResponse, Close, Abandon, Conclude
<1> QED BY <1>2, <1>3, <1>4, <1>5, <1>6, <1>7
        DEF Next, GttLoop, Scan, PassBy, Trigger, BrokerAndSync, Settle, Expire, vars

LEMMA CountingStep == Counting /\ [Next]_vars => Counting'
<1> SUFFICES ASSUME Counting, [Next]_vars PROVE Counting'
  OBVIOUS
<1>1. Reserved' /\ TypeOK /\ TypeOK' /\ Known
  BY ReservedStep DEF Counting, Reserved
<1> QED BY <1>1, TicketsKnownStep, SnapStep DEF Counting

LEMMA CountingInit == Init => Counting
<1> SUFFICES ASSUME Init PROVE Counting
  OBVIOUS
<1>1. DOMAIN book = {} /\ \A y \in Syncer : DOMAIN snap[y] = {}
  BY DEF Init, Unfetched
<1> QED BY <1>1, ReservedInit DEF Counting, TicketsKnown, SnapTrue

-----------------------------------------------------------------------------
(* What can lose a ticket *)

\* A step that leaves the book alone loses only tickets it unsettles.
LEMMA LostFrame ==
  ASSUME NEW S, NEW X, book' = book,
         \A k \in DOMAIN book :
           Live(k) /\ book[k].order \in S /\ Settled(k, book[k].order) =>
             k \in X \/ Settled(k, book[k].order)'
  PROVE  Lost(S)' \subseteq Lost(S) \cup X
<1> SUFFICES ASSUME NEW k \in Lost(S)', k \notin X PROVE k \in Lost(S)
  OBVIOUS
<1>1. k \in DOMAIN book /\ Live(k) /\ book[k].order \in S
  BY DEF Lost, Live
<1>2. DEFINE o == book[k].order
<1>3. ~Settled(k, o)'
  BY DEF Lost
<1> QED BY <1>1, <1>3 DEF Lost

\* Threads unchanged: a row may change unless it has a live ticket on it.
LEMMA QuietLost ==
  ASSUME NEW S, thread' = thread, book' = book,
         \A k \in DOMAIN book :
           Live(k) /\ book[k].order \in S /\ Booked(k, book[k].order) =>
             order'[book[k].order].status \in {"SENT", "EXECUTED"}
             /\ order'[book[k].order].ticket = k
  PROVE  Lost(S)' \subseteq Lost(S)
<1>1. ASSUME NEW k \in DOMAIN book, NEW o, o = book[k].order, o \in S, Live(k), Settled(k, o)
      PROVE  Settled(k, o)'
  <2>1. (Active(o)' <=> Active(o)) /\ (InFlight(k, o)' <=> InFlight(k, o))
    BY DEF Active, Working, InFlight, At, MyOrder
  <2> QED BY <1>1, <2>1 DEF Settled, Booked
<1> QED BY <1>1, LostFrame

\* A thread that neither runs nor takes up an order settles nothing about it.
LEMMA OtherOrders ==
  ASSUME TypeOK, NEW t \in Thread, NEW o, NEW k,
         \A u \in Thread \ {t} : thread'[u] = thread[u],
         order'[o] = order[o],
         Executing(t) => MyOrder(t) # o,
         thread'[t].pc # "idle" => thread'[t].order # o
  PROVE  Settled(k, o)' <=> Settled(k, o)
<1>1. \A u \in Thread : Working(u, o)' <=> Working(u, o)
  BY DEF Working, MyOrder, Executing
<1>2. \A u \in Thread : (At(u, "sent") /\ MyOrder(u) = o /\ thread[u].ticket = k)'
                          <=> (At(u, "sent") /\ MyOrder(u) = o /\ thread[u].ticket = k)
  BY DEF At, MyOrder, Executing
<1>3. (Active(o)' <=> Active(o)) /\ (InFlight(k, o)' <=> InFlight(k, o))
  BY <1>1, <1>2 DEF Active, InFlight
<1> QED BY <1>3 DEF Settled, Booked

\* The thread of an order that is never executed twice is the only one: before and
\* after a step of it, it alone says whether the order is active and what is in flight.
LEMMA Alone ==
  ASSUME Reserved, NEW t \in Thread, NEW o, o = MyOrder(t), Executing(t), o \notin twice, NEW k
  PROVE  /\ Active(o) <=> thread[t].pc \in {"reserving", "checking", "ready", "sent"}
         /\ InFlight(k, o) <=> At(t, "sent") /\ thread[t].ticket = k
         /\ (\A u \in Thread \ {t} : thread'[u] = thread[u])
              /\ (thread'[t].pc = "idle" \/ thread'[t].order = o)
            => /\ Active(o)' <=> thread'[t].pc \in {"reserving", "checking", "ready", "sent"}
               /\ InFlight(k, o)' <=> thread'[t].pc = "sent" /\ thread'[t].ticket = k
<1>1. \A u \in Thread \ {t} : ~(Executing(u) /\ MyOrder(u) = o)
  BY DEF Reserved, Noticed
<1>2. /\ Active(o) <=> thread[t].pc \in {"reserving", "checking", "ready", "sent"}
      /\ InFlight(k, o) <=> At(t, "sent") /\ thread[t].ticket = k
  BY <1>1 DEF Active, Working, InFlight, At, Executing
<1>3. ASSUME \A u \in Thread \ {t} : thread'[u] = thread[u],
             thread'[t].pc = "idle" \/ thread'[t].order = o
      PROVE  /\ Active(o)' <=> thread'[t].pc \in {"reserving", "checking", "ready", "sent"}
             /\ InFlight(k, o)' <=> thread'[t].pc = "sent" /\ thread'[t].ticket = k
  BY <1>1, <1>3 DEF Active, Working, InFlight, At, Executing, MyOrder
<1> QED BY <1>2, <1>3

\* A step of an execution moves its own thread and writes at most its own row.
LEMMA ExecutionFrame ==
  ASSUME TypeOK, NEW t \in Thread, Proceed(t) \/ Break(t)
  PROVE  /\ Executing(t) /\ MyOrder(t) \in Order
         /\ \A u \in Thread \ {t} : thread'[u] = thread[u]
         /\ thread'[t].pc = "idle" \/ thread'[t].order = MyOrder(t)
         /\ \A p \in Order : p # MyOrder(t) => order'[p] = order[p]
         /\ Send(t) \/ book' = book
         /\ twice' = twice
<1>1. Executing(t) /\ twice' = twice
  BY DEF Proceed, Break, Reserve, Busy, PassRisk, RejectRisk, PauseAuto, Arm, FailEarly, Send,
         FailSend, Record, LoseResponse, Close, Abandon, Conclude, At, Executing
<1>2. MyOrder(t) \in Order
  BY <1>1, RowType DEF Executing
<1>3. CASE Reserve(t) \/ Busy(t) \/ PassRisk(t)
  <2>1. order' = order /\ book' = book /\ \E pc \in {"checking", "ready", "failing"} : Goto(t, pc)
    BY <1>3 DEF Reserve, Busy, PassRisk
  <2> QED BY <1>1, <1>2, <2>1, GotoMoves DEF MyOrder
<1>4. CASE RejectRisk(t) \/ PauseAuto(t) \/ Arm(t) \/ FailEarly(t) \/ FailSend(t)
           \/ Record(t) \/ LoseResponse(t)
  <2>1. /\ book' = book /\ \E pc \in {"closing", "failing"} : Goto(t, pc)
        /\ \E row : order' = [order EXCEPT ![MyOrder(t)] = row]
    BY <1>4 DEF RejectRisk, PauseAuto, Arm, FailEarly, FailSend, Record, LoseResponse, Conclude
  <2>2. \A p \in Order : p # MyOrder(t) => order'[p] = order[p]
    BY <2>1 DEF TypeOK
  <2>3. /\ \A u \in Thread \ {t} : thread'[u] = thread[u]
        /\ thread'[t].order = MyOrder(t)
    BY <2>1, GotoMoves DEF MyOrder
  <2> QED BY <1>1, <1>2, <2>1, <2>2, <2>3
<1>5. CASE Send(t)
  <2>1. order' = order
    BY <1>5 DEF Send
  <2>2. thread'[t].order = MyOrder(t) /\ \A u \in Thread \ {t} : thread'[u] = thread[u]
    BY <1>5 DEF Send, MyOrder, TypeOK, ThreadState
  <2> QED BY <1>1, <1>2, <1>5, <2>1, <2>2
<1>6. CASE Close(t) \/ Abandon(t)
  <2>1. Rest(t) /\ book' = book /\ (order' = order \/ FailUnsent(t))
    BY <1>6 DEF Close, Abandon
  <2>2. \A p \in Order : p # MyOrder(t) => order'[p] = order[p]
    BY <1>2, <2>1 DEF FailUnsent, Set, TypeOK
  <2>3. thread'[t].pc = "idle" /\ \A u \in Thread \ {t} : thread'[u] = thread[u]
    BY <2>1 DEF Rest, Idle, TypeOK
  <2> QED BY <1>1, <1>2, <2>1, <2>2, <2>3
<1> QED BY <1>3, <1>4, <1>5, <1>6 DEF Proceed, Break

\* A concluding thread leaves a booked row alone.
LEMMA FailLeavesBooked ==
  ASSUME TypeOK, NEW t \in Thread, Executing(t), NEW k, Booked(k, MyOrder(t)),
         FailUnsent(t) \/ UNCHANGED order
  PROVE  order' = order
<1>1. FailsFrom(t) \subseteq {"WAITING", "SENDING"}
  BY DEF FailsFrom
<1>2. Row(t).status \in {"SENT", "EXECUTED"}
  BY DEF Booked, Row
<1> QED BY <1>1, <1>2 DEF FailUnsent

\* The step that a thread does on its own order: what is settled stays so, but for
\* the ticket in flight when the step is a fault.
LEMMA OwnTickets ==
  ASSUME Counting, NEW t \in Thread, Proceed(t) \/ Break(t), ~Send(t),
         NEW o, o = MyOrder(t), o \notin twice, NEW k, Settled(k, o)
  PROVE  \/ Break(t) /\ At(t, "sent") /\ k = thread[t].ticket
         \/ Settled(k, o)'
<1>0. TypeOK /\ Reserved
  BY DEF Counting, Reserved
<1>1. /\ Executing(t) /\ o \in Order
      /\ \A u \in Thread \ {t} : thread'[u] = thread[u]
      /\ thread'[t].pc = "idle" \/ thread'[t].order = o
  BY <1>0, ExecutionFrame
<1>2. /\ Active(o) <=> thread[t].pc \in {"reserving", "checking", "ready", "sent"}
      /\ InFlight(k, o) <=> At(t, "sent") /\ thread[t].ticket = k
      /\ Active(o)' <=> thread'[t].pc \in {"reserving", "checking", "ready", "sent"}
  BY <1>0, <1>1, Alone
<1>3. ASSUME ~Active(o)', Booked(k, o)' PROVE Settled(k, o)'
  BY <1>3 DEF Settled
<1>4. thread[t].pc \notin {"reserving", "checking", "ready"}
  BY <1>2 DEF Settled, At
<1>5. CASE thread[t].pc = "sent"
  <2>1. k = thread[t].ticket /\ k \in Nat
    BY <1>0, <1>1, <1>2, <1>5, RowType DEF Settled, At, Executing
  <2>2. CASE Break(t)
    BY <1>5, <2>1, <2>2 DEF At
  <2>3. CASE Proceed(t)
    <3>1. Record(t)
      BY <1>5, <2>3 DEF Proceed, Reserve, Busy, PassRisk, RejectRisk, PauseAuto, Arm,
                        FailEarly, Send, FailSend, Close, At
    <3>2. thread'[t].pc = "closing"
      BY <1>0, <3>1, GotoMoves DEF Record, Conclude
    <3>3. order[o] \in OrderRow /\ order' = [order EXCEPT ![o] =
            [order[o] EXCEPT !.status = "SENT", !.ticket = k]]
      BY <1>0, <1>1, <2>1, <3>1 DEF Record, Conclude, Row, TypeOK
    <3>4. order'[o].status = "SENT" /\ order'[o].ticket = k
      BY <1>0, <1>1, <3>3 DEF TypeOK, OrderRow
    <3>5. ~Active(o)'
      BY <1>2, <3>2
    <3> QED BY <1>3, <3>4, <3>5 DEF Booked
  <2> QED BY <2>2, <2>3
<1>6. CASE thread[t].pc \in {"closing", "failing"}
  <2>1. Close(t) \/ Abandon(t)
    BY <1>6 DEF Proceed, Break, Reserve, Busy, PassRisk, RejectRisk, PauseAuto, Arm,
                FailEarly, Send, FailSend, Record, LoseResponse, At
  <2>2. Booked(k, o)
    BY <1>2, <1>6 DEF Settled
  <2>3. order' = order
    BY <1>0, <1>1, <2>1, <2>2, FailLeavesBooked DEF Close, Abandon
  <2>4. thread'[t].pc = "idle"
    BY <1>0, <2>1 DEF Close, Abandon, Rest, Idle, TypeOK
  <2> QED BY <1>2, <1>3, <2>2, <2>3, <2>4 DEF Booked
<1>7. thread[t] \in ThreadState /\ thread[t].pc # "idle"
  BY <1>0, <1>1 DEF TypeOK, Executing
<1> QED BY <1>4, <1>5, <1>6, <1>7 DEF ThreadState

\* An execution loses at most the ticket it has in flight, and only by a fault.
LEMMA ExecutionLost ==
  ASSUME Counting, NEW t \in Thread, NEW S \in SUBSET Order, S \cap twice = {},
         Proceed(t) \/ Break(t), ~Send(t)
  PROVE  Lost(S)' \subseteq Lost(S) \cup {k \in {thread[t].ticket} :
                                            Break(t) /\ At(t, "sent") /\ MyOrder(t) \in S}
<1> DEFINE X == {k \in {thread[t].ticket} : Break(t) /\ At(t, "sent") /\ MyOrder(t) \in S}
<1>0. TypeOK
  BY DEF Counting, Reserved
<1>1. /\ Executing(t) /\ book' = book
      /\ \A u \in Thread \ {t} : thread'[u] = thread[u]
      /\ thread'[t].pc = "idle" \/ thread'[t].order = MyOrder(t)
      /\ \A p \in Order : p # MyOrder(t) => order'[p] = order[p]
  BY <1>0, ExecutionFrame
<1>2. ASSUME NEW k \in DOMAIN book, NEW o, o = book[k].order, o \in S, Settled(k, o)
      PROVE  k \in X \/ Settled(k, o)'
  <2>1. o \in Order /\ o \notin twice
    BY <1>2
  <2>2. CASE o = MyOrder(t)
    BY <1>2, <2>1, <2>2, OwnTickets
  <2>3. CASE o # MyOrder(t)
    BY <1>0, <1>1, <1>2, <2>1, <2>3, OtherOrders
  <2> QED BY <2>2, <2>3
<1>3. \A k \in DOMAIN book :
        Live(k) /\ book[k].order \in S /\ Settled(k, book[k].order) =>
          k \in X \/ Settled(k, book[k].order)'
  BY <1>1, <1>2
<1> HIDE DEF X
<1>4. Lost(S)' \subseteq Lost(S) \cup X
  BY <1>1, <1>3, LostFrame
<1> QED BY <1>4 DEF X

\* A new ticket is in flight, and no other of its order was.
LEMMA SendLost ==
  ASSUME Counting, NEW t \in Thread, NEW S \in SUBSET Order, S \cap twice = {}, Send(t)
  PROVE  Lost(S)' \subseteq Lost(S)
<1>0. TypeOK /\ Reserved
  BY DEF Counting, Reserved
<1>1. /\ Executing(t) /\ At(t, "ready") /\ order' = order
      /\ book' = Append(book, [order |-> MyOrder(t), state |-> "OPEN"])
      /\ \A u \in Thread \ {t} : thread'[u] = thread[u]
      /\ thread'[t].order = MyOrder(t) /\ thread'[t].pc = "sent"
      /\ thread'[t].ticket = Len(book) + 1
  BY <1>0, RowType DEF Send, At, Executing, TypeOK, ThreadState, MyOrder
<1>2. /\ DOMAIN book' = 1 .. Len(book) + 1 /\ DOMAIN book = 1 .. Len(book)
      /\ book'[Len(book) + 1].order = MyOrder(t)
      /\ \A k \in DOMAIN book : book'[k] = book[k]
  BY <1>0, <1>1, BookType DEF TypeOK
<1>3. ASSUME NEW k \in DOMAIN book', NEW o, o = book'[k].order, o \in S,
             ~Settled(k, o)', book'[k].state \in {"OPEN", "COMPLETE"}
      PROVE  k \in Lost(S)
  <2>1. ASSUME o = MyOrder(t)
        PROVE  Active(o)' /\ ~InFlight(k, o)' /\ Active(o) /\ ~InFlight(k, o)
    <3>1. /\ Active(o)' <=> thread'[t].pc \in {"reserving", "checking", "ready", "sent"}
          /\ Active(o) <=> thread[t].pc \in {"reserving", "checking", "ready", "sent"}
          /\ InFlight(k, o) <=> At(t, "sent") /\ thread[t].ticket = k
      BY <1>0, <1>1, <1>3, <2>1, Alone
    <3> QED BY <1>1, <1>3, <3>1 DEF At, Settled
  <2>2. k # Len(book) + 1
    <3>1. ASSUME k = Len(book) + 1, o = MyOrder(t) PROVE InFlight(k, o)'
      BY <1>1, <3>1 DEF InFlight, At, MyOrder
    <3> QED BY <1>2, <1>3, <2>1, <3>1
  <2>3. k \in DOMAIN book /\ o = book[k].order /\ Live(k)
    BY <1>0, <1>2, <1>3, <2>2, BookType DEF Live
  <2>4. CASE o = MyOrder(t)
    BY <1>3, <2>1, <2>3, <2>4 DEF Lost, Settled
  <2>5. CASE o # MyOrder(t)
    <3>1. Settled(k, o)' <=> Settled(k, o)
      BY <1>0, <1>1, <2>5, OtherOrders
    <3> QED BY <1>3, <2>3, <3>1 DEF Lost
  <2> QED BY <2>4, <2>5
<1> QED BY <1>3 DEF Lost, Live

LEMMA BeginMoves ==
  ASSUME TypeOK, NEW t \in Thread, NEW o \in Order, NEW arm \in BOOLEAN, Begin(t, o, arm)
  PROVE  thread'[t].order = o /\ \A u \in Thread \ {t} : thread'[u] = thread[u]
BY DEF Begin, TypeOK

\* A thread takes up an order none of whose tickets was settled.
LEMMA BeginLost ==
  ASSUME Counting, NEW S \in SUBSET Order, NEW t \in Thread, NEW o \in Order,
         ~Executing(t), book' = book,
         thread'[t].order = o, \A u \in Thread \ {t} : thread'[u] = thread[u],
         \A p \in Order : p # o => order'[p] = order[p],
         \A k \in DOMAIN book : o \in S /\ book[k].order = o => ~Settled(k, o)
  PROVE  Lost(S)' \subseteq Lost(S)
<1>0. TypeOK
  BY DEF Counting, Reserved
<1>1. thread'[t].order = o /\ \A u \in Thread \ {t} : thread'[u] = thread[u]
  OBVIOUS
<1>2. ASSUME NEW k \in DOMAIN book, NEW p, p = book[k].order, p \in S, Settled(k, p)
      PROVE  Settled(k, p)'
  <2>1. p # o /\ p \in Order
    BY <1>2
  <2>2. order'[p] = order[p] /\ (Executing(t) => MyOrder(t) # p)
    BY <2>1
  <2> QED BY <1>0, <1>1, <1>2, <2>1, <2>2, OtherOrders
<1>3. \A k \in DOMAIN book :
        Live(k) /\ book[k].order \in S /\ Settled(k, book[k].order) =>
          k \in {} \/ Settled(k, book[k].order)'
  BY <1>2
<1>4. Lost(S)' \subseteq Lost(S) \cup {}
  BY <1>3, LostFrame
<1> QED BY <1>4

LEMMA TwiceGrows ==
  ASSUME TypeOK, [Next]_vars
  PROVE  twice \subseteq twice'
<1>1. CASE Queue
  BY <1>1 DEF Queue, Create, Refuse, CreateAuto, Execute, Patch, EditGtt, Requeue, Again
<1>2. ASSUME NEW t \in Thread, Proceed(t) \/ Break(t) PROVE twice' = twice
  BY <1>2, ExecutionFrame
<1> QED BY <1>1, <1>2
        DEF Next, GttLoop, Scan, PassBy, Trigger, BrokerAndSync, Settle, SyncFetch, SyncApply,
            Expire, Crash, Again, vars

\* The operator loses no ticket: what he changes waits, is cancelled or is new.
LEMMA QueueLost ==
  ASSUME Counting, NEW S \in SUBSET Order, S \cap twice' = {}, Queue
  PROVE  Lost(S)' \subseteq Lost(S)
<1>0. TypeOK /\ TicketsKnown
  BY DEF Counting, Reserved
<1>1. ASSUME NEW o \in Order, NEW row, Insert(o, row)
      PROVE  /\ \A k \in DOMAIN book : book[k].order # o
             /\ \A p \in Order : p # o => order'[p] = order[p]
  BY <1>0, <1>1 DEF Insert, TicketsKnown, Exists, TypeOK
<1>2. ASSUME NEW o \in Order, NEW row, Insert(o, row), thread' = thread, book' = book
      PROVE  Lost(S)' \subseteq Lost(S)
  BY <1>0, <1>1, <1>2, QuietLost, BookType DEF Booked
<1>3. ASSUME NEW o \in Order, order[o].status \notin {"SENT", "EXECUTED"},
             \A p \in Order : p # o => order'[p] = order[p], thread' = thread, book' = book
      PROVE  Lost(S)' \subseteq Lost(S)
  BY <1>0, <1>3, QuietLost, BookType DEF Booked
<1>4. ASSUME order' = order, thread' = thread, book' = book
      PROVE  Lost(S)' \subseteq Lost(S)
  BY <1>4, QuietLost DEF Booked
<1>5. ASSUME NEW o \in Order, Patch(o) \/ EditGtt(o) PROVE Lost(S)' \subseteq Lost(S)
  <2>1. /\ order[o].status \in {"WAITING", "CANCELLED"} /\ thread' = thread /\ book' = book
        /\ \A p \in Order : p # o => order'[p] = order[p]
    BY <1>0, <1>5 DEF Patch, EditGtt, Set, TypeOK
  <2> QED BY <1>3, <2>1
<1>6. ASSUME NEW r \in Request, NEW o \in Order, CreateAuto(r, o)
      PROVE  Lost(S)' \subseteq Lost(S)
  <2>1. ~Executing(r) /\ book' = book /\ \E row : Insert(o, row)
    BY <1>6 DEF CreateAuto, Executing
  <2>2. /\ \A k \in DOMAIN book : book[k].order # o
        /\ \A p \in Order : p # o => order'[p] = order[p]
    BY <1>1, <2>1
  <2>3. \A k \in DOMAIN book : o \in S /\ book[k].order = o => ~Settled(k, o)
    BY <2>2
  <2>4. r \in Thread
    BY DEF Thread
  <2>5. thread'[r].order = o /\ \A u \in Thread \ {r} : thread'[u] = thread[u]
    BY <1>0, <1>6, <2>4, BeginMoves DEF CreateAuto
  <2> QED BY <2>1, <2>2, <2>3, <2>4, <2>5, BeginLost
<1>7. ASSUME NEW r \in Request, NEW o \in Order, Execute(r, o)
      PROVE  Lost(S)' \subseteq Lost(S)
  <2>1. /\ ~Executing(r) /\ book' = book /\ order' = order
        /\ order[o].status \in {"WAITING", "SENDING"}
        /\ Running(o) => o \in twice'
    BY <1>7 DEF Execute, Again, Executing
  <2>2. o \in S => ~Active(o)
    BY <2>1 DEF Active, Working, Running, MyOrder
  <2>3. \A k \in DOMAIN book : o \in S /\ book[k].order = o => ~Settled(k, o)
    BY <2>1, <2>2 DEF Settled, Booked
  <2>4. r \in Thread /\ \A p \in Order : p # o => order'[p] = order[p]
    BY <2>1 DEF Thread
  <2>5. thread'[r].order = o /\ \A u \in Thread \ {r} : thread'[u] = thread[u]
    BY <1>0, <1>7, <2>4, BeginMoves DEF Execute
  <2> QED BY <2>1, <2>3, <2>4, <2>5, BeginLost
<1> QED BY <1>2, <1>4, <1>5, <1>6, <1>7 DEF Queue, Create, Refuse, Requeue

LEMMA LoopLost ==
  ASSUME Counting, NEW S \in SUBSET Order, S \cap twice' = {}, GttLoop
  PROVE  Lost(S)' \subseteq Lost(S)
<1>0. TypeOK
  BY DEF Counting, Reserved
<1>1. CASE Scan \/ \E o \in Order : PassBy(o)
  BY <1>1, QuietLost DEF Scan, PassBy, Booked
<1>2. ASSUME NEW o \in Order, Trigger(o)
      PROVE  Lost(S)' \subseteq Lost(S)
  <2>1. /\ ~Executing(Gtt) /\ Gtt \in Thread /\ book' = book
        /\ Running(o) \/ order[o].status # "WAITING" => o \in twice'
    BY <1>2 DEF Trigger, Again, Executing, Thread
  <2>0. \A p \in Order : p # o => order'[p] = order[p]
    BY <1>0, <1>2 DEF Trigger, TypeOK
  <2>2. o \in S => ~Active(o) /\ order[o].status = "WAITING"
    BY <2>1 DEF Active, Working, Running, MyOrder
  <2>3. \A k \in DOMAIN book : o \in S /\ book[k].order = o => ~Settled(k, o)
    BY <2>2 DEF Settled, Booked
  <2>4. thread'[Gtt].order = o /\ \A u \in Thread \ {Gtt} : thread'[u] = thread[u]
    BY <1>0, <1>2, <2>1, BeginMoves DEF Trigger
  <2> QED BY <2>0, <2>1, <2>3, <2>4, BeginLost
<1> QED BY <1>1, <1>2 DEF GttLoop

\* A sync leaves a booked live ticket booked: what it has fetched of it is not dead.
LEMMA SyncLost ==
  ASSUME Counting, NEW S \in SUBSET Order, NEW y \in Syncer, SyncApply(y)
  PROVE  Lost(S)' \subseteq Lost(S)
<1>0. TypeOK /\ SnapTrue /\ thread' = thread /\ book' = book
  BY DEF Counting, Reserved, SyncApply
<1>1. PICK m \in Linkings(snap[y]) : order' = [o \in Order |-> Synced(snap[y], m, o)]
  BY DEF SyncApply
<1>2. DOMAIN m \subseteq Unlinked
  BY <1>1 DEF Linkings
<1>3. ASSUME NEW k \in DOMAIN book, Live(k), NEW o, o = book[k].order, Booked(k, o)
      PROVE  order'[o].status \in {"SENT", "EXECUTED"} /\ order'[o].ticket = k
  <2>1. o \in Order /\ order[o] \in OrderRow /\ order[o].status \in {"SENT", "EXECUTED"}
        /\ order[o].ticket = k
    BY <1>0, <1>3, BookType DEF Booked, TypeOK
  <2>2. o \notin DOMAIN m
    BY <1>2, <2>1 DEF Unlinked
  <2>3. order'[o] = IF k \in DOMAIN snap[y]
                    THEN [order[o] EXCEPT !.ticket = k, !.status = MapStatus(snap[y][k])]
                    ELSE order[o]
    BY <1>1, <2>1, <2>2 DEF Synced
  <2>4. ASSUME k \in DOMAIN snap[y] PROVE MapStatus(snap[y][k]) \in {"SENT", "EXECUTED"}
    <3>1. snap[y][k] \in {"OPEN", "COMPLETE"}
      BY <1>0, <1>3, <2>4 DEF SnapTrue, Live
    <3> QED BY <3>1 DEF MapStatus
  <2> QED BY <2>1, <2>3, <2>4 DEF OrderRow
<1> QED BY <1>0, <1>3, QuietLost

\* The broker settles a ticket: it may die, no ticket comes alive.
LEMMA SettleLost ==
  ASSUME TypeOK, NEW S, NEW j \in DOMAIN book, Settle(j)
  PROVE  Lost(S)' \subseteq Lost(S)
<1>1. thread' = thread /\ order' = order /\ DOMAIN book' = DOMAIN book /\ book[j].state = "OPEN"
  BY BookType DEF Settle
<1>2. \A k \in DOMAIN book : book'[k].order = book[k].order /\ (k # j => book'[k] = book[k])
  BY BookType DEF Settle, Ticket
<1>3. ASSUME NEW k, NEW o PROVE Settled(k, o)' <=> Settled(k, o)
  BY <1>1 DEF Settled, Active, Working, InFlight, Booked, At, MyOrder
<1>4. ASSUME NEW k \in DOMAIN book, NEW o, o = book'[k].order, o \in S,
             book'[k].state \in {"OPEN", "COMPLETE"}, ~Settled(k, o)'
      PROVE  k \in Lost(S)
  BY <1>1, <1>2, <1>3, <1>4 DEF Lost, Live
<1> QED BY <1>1, <1>4 DEF Lost, Live

\* At most one execution of these orders has a ticket in flight.
OneSender(S) ==
  \A t, u \in Thread :
    At(t, "sent") /\ At(u, "sent") /\ MyOrder(t) \in S /\ MyOrder(u) \in S => t = u

\* A crash loses the ticket in flight.
LEMMA CrashLost ==
  ASSUME NEW S, OneSender(S), Crash
  PROVE  \E x : Lost(S)' \subseteq Lost(S) \cup {x}
<1>1. book' = book /\ order' = order /\ \A t \in Thread : thread'[t].pc = "idle"
  BY DEF Crash, Idle
<1>2. PICK x : \A t \in Thread : At(t, "sent") /\ MyOrder(t) \in S => thread[t].ticket = x
  BY DEF OneSender
<1>3. ASSUME NEW k \in DOMAIN book, NEW o, o = book[k].order, o \in S, Settled(k, o)
      PROVE  k \in {x} \/ Settled(k, o)'
  <2>1. ~Active(o)'
    BY <1>1 DEF Active, Working
  <2>2. CASE Active(o)
    BY <1>2, <1>3, <2>2 DEF Settled, InFlight
  <2>3. CASE ~Active(o)
    BY <1>1, <1>3, <2>1, <2>3 DEF Settled, Booked
  <2> QED BY <2>2, <2>3
<1>4. \A k \in DOMAIN book :
        Live(k) /\ book[k].order \in S /\ Settled(k, book[k].order) =>
          k \in {x} \/ Settled(k, book[k].order)'
  BY <1>1, <1>3
<1>5. Lost(S)' \subseteq Lost(S) \cup {x}
  BY <1>1, <1>4, LostFrame
<1> QED BY <1>5

LEMMA TicketsFinite ==
  ASSUME TypeOK, NEW K, K \subseteq DOMAIN book
  PROVE  IsFiniteSet(K) /\ Cardinality(K) \in Nat
<1>1. IsFiniteSet(DOMAIN book)
  BY BookType, FS_Interval
<1> QED BY <1>1, FS_Subset, FS_CardinalityType

LEMMA OneMore ==
  ASSUME NEW K, NEW x, IsFiniteSet(K)
  PROVE  /\ IsFiniteSet(K \cup {x}) /\ Cardinality(K \cup {x}) \in Nat
         /\ Cardinality(K) \in Nat /\ Cardinality(K \cup {x}) <= Cardinality(K) + 1
<1>1. /\ IsFiniteSet(K \cup {x})
      /\ Cardinality(K \cup {x}) = IF x \in K THEN Cardinality(K) ELSE Cardinality(K) + 1
  BY FS_AddElement
<1>2. Cardinality(K) \in Nat /\ Cardinality(K \cup {x}) \in Nat
  BY <1>1, FS_CardinalityType
<1> QED BY <1>1, <1>2

\* The heart of the matter: each fault loses one ticket, and nothing else does.
LEMMA LostStep ==
  ASSUME Counting, [Next]_vars, NEW S \in SUBSET Order, S \cap twice' = {}, OneSender(S),
         Cardinality(Lost(S)) <= faults
  PROVE  Cardinality(Lost(S)') <= faults'
<1>0. TypeOK /\ faults \in Nat /\ S \cap twice = {}
  BY TwiceGrows, ConstantsAssumption DEF Counting, Reserved, TypeOK
<1>1. IsFiniteSet(Lost(S)) /\ Cardinality(Lost(S)) \in Nat
  BY <1>0, TicketsFinite DEF Lost
<1>2. ASSUME Lost(S)' \subseteq Lost(S), faults' = faults
      PROVE  Cardinality(Lost(S)') <= faults'
  <2>1. Cardinality(Lost(S)') <= Cardinality(Lost(S)) /\ Cardinality(Lost(S)') \in Nat
    BY <1>1, <1>2, FS_Subset, FS_CardinalityType
  <2> QED BY <1>0, <1>1, <1>2, <2>1
<1>3. ASSUME NEW x, Lost(S)' \subseteq Lost(S) \cup {x}, faults' = faults + 1
      PROVE  Cardinality(Lost(S)') <= faults'
  <2>1. /\ IsFiniteSet(Lost(S) \cup {x})
        /\ Cardinality(Lost(S) \cup {x}) <= Cardinality(Lost(S)) + 1
        /\ Cardinality(Lost(S) \cup {x}) \in Nat
    BY <1>1, OneMore
  <2>2. Cardinality(Lost(S)') <= Cardinality(Lost(S) \cup {x}) /\ Cardinality(Lost(S)') \in Nat
    BY <1>3, <2>1, FS_Subset, FS_CardinalityType
  <2> QED BY <1>0, <1>1, <1>3, <2>1, <2>2
<1>4. CASE Queue
  <2>1. faults' = faults
    BY <1>4 DEF Queue, Create, Refuse, CreateAuto, Execute, Patch, EditGtt, Requeue
  <2> QED BY <1>2, <1>4, <2>1, QueueLost
<1>5. ASSUME NEW t \in Thread, Proceed(t) \/ Break(t)
      PROVE  Cardinality(Lost(S)') <= faults'
  <2>1. CASE Send(t)
    <3>1. faults' = faults
      BY <2>1 DEF Send
    <3> QED BY <1>0, <1>2, <2>1, <3>1, SendLost
  <2>2. CASE ~Send(t) /\ ~Break(t)
    <3>1. Lost(S)' \subseteq Lost(S)
      BY <1>0, <1>5, <2>2, ExecutionLost
    <3>2. faults' = faults
      BY <1>5, <2>2 DEF Proceed, Reserve, Busy, PassRisk, RejectRisk, PauseAuto, Arm,
                        FailEarly, FailSend, Record, Close
    <3> QED BY <1>2, <3>1, <3>2
  <2>3. CASE ~Send(t) /\ Break(t)
    <3>1. Lost(S)' \subseteq Lost(S) \cup {thread[t].ticket}
      BY <1>0, <1>5, <2>3, ExecutionLost
    <3>2. faults' = faults + 1
      BY <2>3 DEF Break, LoseResponse, Abandon, Fault
    <3> QED BY <1>3, <3>1, <3>2
  <2> QED BY <2>1, <2>2, <2>3
<1>6. CASE GttLoop
  <2>1. faults' = faults
    BY <1>6 DEF GttLoop, Scan, PassBy, Trigger
  <2> QED BY <1>2, <1>6, <2>1, LoopLost
<1>7. ASSUME thread' = thread, order' = order, book' = book, faults' = faults
      PROVE  Cardinality(Lost(S)') <= faults'
  <2>1. Lost(S)' \subseteq Lost(S)
    BY <1>7, QuietLost DEF Booked
  <2> QED BY <1>2, <1>7, <2>1
<1>8. CASE BrokerAndSync
  <2>1. ASSUME NEW j \in DOMAIN book, Settle(j) PROVE Cardinality(Lost(S)') <= faults'
    <3>1. faults' = faults
      BY <2>1 DEF Settle
    <3> QED BY <1>0, <1>2, <2>1, <3>1, SettleLost
  <2>2. ASSUME NEW y \in Syncer, SyncFetch(y) PROVE Cardinality(Lost(S)') <= faults'
    BY <1>7, <2>2 DEF SyncFetch
  <2>3. ASSUME NEW y \in Syncer, SyncApply(y) PROVE Cardinality(Lost(S)') <= faults'
    <3>1. faults' = faults
      BY <2>3 DEF SyncApply
    <3> QED BY <1>2, <2>3, <3>1, SyncLost
  <2> QED BY <1>8, <2>1, <2>2, <2>3 DEF BrokerAndSync
<1>9. CASE Crash
  <2>1. faults' = faults + 1
    BY <1>9 DEF Crash, Fault
  <2> QED BY <1>3, <1>9, <2>1, CrashLost
<1>10. ASSUME NEW s \in Scope, Expire(s) PROVE Cardinality(Lost(S)') <= faults'
  BY <1>7, <1>10 DEF Expire
<1>11. CASE UNCHANGED vars
  BY <1>7, <1>11 DEF vars
<1> QED BY <1>4, <1>5, <1>6, <1>8, <1>9, <1>10, <1>11 DEF Next

-----------------------------------------------------------------------------
(* One order *)

LostFew == \A o \in Order \ twice : Cardinality(Lost({o})) <= faults

LEMMA OneSenderOfOrder ==
  ASSUME Counting, NEW o \in Order \ twice
  PROVE  OneSender({o})
BY DEF Counting, Reserved, Noticed, OneSender, At, Executing

LEMMA NothingLost ==
  ASSUME Init, NEW S
  PROVE  Cardinality(Lost(S)) <= faults
<1>1. Lost(S) = {} /\ faults = 0
  BY DEF Init, Lost
<1> QED BY <1>1, FS_EmptySet

LEMMA LostFewStep == Counting /\ LostFew /\ [Next]_vars => LostFew'
<1> SUFFICES ASSUME Counting, LostFew, [Next]_vars, NEW o \in Order, o \notin twice'
             PROVE  Cardinality(Lost({o})') <= faults'
  BY DEF LostFew
<1>1. o \notin twice
  BY TwiceGrows DEF Counting, Reserved
<1>2. OneSender({o}) /\ Cardinality(Lost({o})) <= faults
  BY <1>1, OneSenderOfOrder DEF LostFew
<1>3. {o} \in SUBSET Order /\ {o} \cap twice' = {}
  OBVIOUS
<1> QED BY <1>2, <1>3, LostStep

\* Settled tickets of an order: the one in flight, or the one of its row.
LEMMA OneSettled ==
  ASSUME Counting, NEW o \in Order \ twice
  PROVE  \E x : \A k : Settled(k, o) => k = x
<1>1. CASE Active(o)
  <2>1. OneSender({o})
    BY OneSenderOfOrder
  <2> QED BY <1>1, <2>1 DEF Settled, InFlight, OneSender
<1>2. CASE ~Active(o)
  BY <1>2 DEF Settled, Booked
<1> QED BY <1>1, <1>2

LEMMA FewTickets == Counting /\ LostFew => OneTicketPerOrder
<1> SUFFICES ASSUME Counting, LostFew, NEW o \in Order \ twice
             PROVE  Cardinality({k \in DOMAIN book : Live(k) /\ book[k].order = o}) <= 1 + faults
  BY DEF OneTicketPerOrder
<1> DEFINE Mine == {k \in DOMAIN book : Live(k) /\ book[k].order = o}
<1>0. TypeOK /\ faults \in Nat
  BY ConstantsAssumption DEF Counting, Reserved, TypeOK
<1>1. PICK x : \A k : Settled(k, o) => k = x
  BY OneSettled
<1>2. Mine \subseteq Lost({o}) \cup {x}
  BY <1>1 DEF Lost
<1>3. IsFiniteSet(Lost({o})) /\ Cardinality(Lost({o})) \in Nat /\ Cardinality(Lost({o})) <= faults
  BY <1>0, TicketsFinite DEF Lost, LostFew
<1> HIDE DEF Mine
<1>4. /\ IsFiniteSet(Lost({o}) \cup {x})
      /\ Cardinality(Lost({o}) \cup {x}) <= 1 + Cardinality(Lost({o}))
      /\ Cardinality(Lost({o}) \cup {x}) \in Nat
  BY <1>3, OneMore
<1>5. Cardinality(Mine) <= Cardinality(Lost({o}) \cup {x}) /\ Cardinality(Mine) \in Nat
  BY <1>2, <1>4, FS_Subset, FS_CardinalityType
<1>6. Cardinality(Mine) <= 1 + faults
  BY <1>0, <1>3, <1>4, <1>5
<1> QED BY <1>6 DEF Mine

\* For any number of orders, threads, syncs and faults: whatever is cancelled, edited,
\* synced, crashed and retried, an order that was never executed twice has one live
\* ticket at the broker, and one more for every fault.
THEOREM OneTicket == Spec => []OneTicketPerOrder
<1>1. Init => Counting /\ LostFew
  BY CountingInit, NothingLost DEF LostFew
<1>2. Counting /\ LostFew /\ [Next]_vars => (Counting /\ LostFew)'
  BY CountingStep, LostFewStep
<1> QED BY <1>1, <1>2, FewTickets, PTL DEF Spec

-----------------------------------------------------------------------------
(* One symbol *)

OneScope(sym) == \A o, p \in OrdersOf(sym) : ScopeOf[o] = ScopeOf[p]
Guarded(sym) == OneScope(sym) /\ OrdersOf(sym) \cap twice = {}

\* Who sends is not arming.
Unarmed == \A t \in Thread : At(t, "sent") => ~thread[t].arm

\* The live entries of a symbol that nothing accounts for are few, and an execution
\* that has passed the risk check has room for one more.
Room(sym) ==
  /\ Cardinality(Lost(OrdersOf(sym))) <= faults
  /\ Cardinality(LiveEntries(sym)) <= MaxTrades + faults
  /\ \A t \in Thread :
       At(t, "ready") /\ ~thread[t].arm /\ MyOrder(t) \in OrdersOf(sym)
         => Cardinality(LiveEntries(sym)) < MaxTrades + faults
Roomy == \A sym \in {SymbolOf[o] : o \in Order} : Guarded(sym) => Room(sym)

\* Only the risk check makes an execution ready, and only the broker's answer sent.
LEMMA ThreadMoves ==
  ASSUME TypeOK, [Next]_vars, NEW u \in Thread, thread'[u] # thread[u]
  PROVE  /\ thread'[u].pc = "ready" => PassRisk(u) /\ Goto(u, "ready")
         /\ thread'[u].pc = "sent" => Send(u)
<1>1. ASSUME NEW t \in Thread, NEW o, NEW arm, Begin(t, o, arm)
      PROVE  thread'[u].pc \notin {"ready", "sent"}
  BY <1>1 DEF Begin, TypeOK
<1>2. CASE Queue
  <2>1. ASSUME NEW r \in Request, NEW o \in Order, CreateAuto(r, o) \/ Execute(r, o)
        PROVE  thread'[u].pc \notin {"ready", "sent"}
    <3>1. r \in Thread /\ \E arm : Begin(r, o, arm)
      BY <2>1 DEF CreateAuto, Execute, Thread
    <3> QED BY <1>1, <3>1
  <2> QED BY <1>2, <2>1 DEF Queue, Create, Refuse, Patch, EditGtt, Requeue
<1>3. ASSUME NEW t \in Thread, NEW pc \in {"checking", "closing", "failing"}, Goto(t, pc)
      PROVE  thread'[u].pc \notin {"ready", "sent"}
  BY <1>3 DEF Goto, TypeOK, ThreadState
<1>4. ASSUME NEW t \in Thread, Proceed(t) \/ Break(t)
      PROVE  u = t
  BY <1>4, ExecutionFrame
<1>5. ASSUME Proceed(u) \/ Break(u)
      PROVE  \/ PassRisk(u) /\ Goto(u, "ready")
             \/ Send(u) /\ thread'[u].pc = "sent"
             \/ thread'[u].pc \notin {"ready", "sent"}
  <2>1. CASE Reserve(u) \/ Busy(u)
    BY <1>3, <2>1 DEF Reserve, Busy
  <2>2. CASE RejectRisk(u) \/ PauseAuto(u) \/ Arm(u) \/ FailEarly(u) \/ FailSend(u)
             \/ Record(u) \/ LoseResponse(u)
    BY <1>3, <2>2 DEF RejectRisk, PauseAuto, Arm, FailEarly, FailSend, Record, LoseResponse,
                      Conclude
  <2>3. CASE Close(u) \/ Abandon(u)
    BY <2>3 DEF Close, Abandon, Rest, Idle, TypeOK
  <2>4. CASE Send(u)
    BY <2>4 DEF Send, TypeOK, ThreadState
  <2>5. CASE PassRisk(u)
    BY <2>5 DEF PassRisk
  <2> QED BY <1>5, <2>1, <2>2, <2>3, <2>4, <2>5 DEF Proceed, Break
<1>6. CASE GttLoop
  <2>1. ASSUME NEW o \in Order, Trigger(o)
        PROVE  thread'[u].pc \notin {"ready", "sent"}
    <3>1. Gtt \in Thread /\ \E arm : Begin(Gtt, o, arm)
      BY <2>1 DEF Trigger, Thread
    <3> QED BY <1>1, <3>1
  <2> QED BY <1>6, <2>1 DEF GttLoop, Scan, PassBy
<1>7. CASE Crash
  BY <1>7 DEF Crash, Idle
<1>8. thread'[u].pc = "ready" /\ Goto(u, "ready") => thread'[u].pc # "sent"
  OBVIOUS
<1>9. Goto(u, "ready") => thread'[u].pc = "ready"
  BY DEF Goto, TypeOK, ThreadState
<1> QED BY <1>2, <1>4, <1>5, <1>6, <1>7, <1>9
        DEF Next, BrokerAndSync, Settle, SyncFetch, SyncApply, Expire, vars

LEMMA UnarmedStep ==
  ASSUME TypeOK, Unarmed, [Next]_vars
  PROVE  Unarmed'
<1> SUFFICES ASSUME NEW t \in Thread, thread'[t].pc = "sent" PROVE ~thread'[t].arm
  BY DEF Unarmed, At
<1>1. CASE thread'[t] = thread[t]
  BY <1>1 DEF Unarmed, At
<1>2. CASE Send(t)
  BY <1>2 DEF Send, TypeOK, ThreadState
<1> QED BY <1>1, <1>2, ThreadMoves

\* In one scope, one execution is past the risk check's reservation.
LEMMA AloneInScope ==
  ASSUME Counting, NEW sym, Guarded(sym), NEW t \in Thread, NEW u \in Thread,
         thread[t].pc \in {"checking", "ready", "sent"}, ~thread[t].arm,
         thread[u].pc \in {"checking", "ready", "sent"}, ~thread[u].arm,
         MyOrder(t) \in OrdersOf(sym), MyOrder(u) \in OrdersOf(sym)
  PROVE  t = u
<1>1. ScopeOf[MyOrder(t)] \in Scope /\ ScopeOf[MyOrder(u)] = ScopeOf[MyOrder(t)]
  BY ConstantsAssumption DEF OrdersOf, Guarded, OneScope
<1>2. InScope(t, ScopeOf[MyOrder(t)]) /\ InScope(u, ScopeOf[MyOrder(t)])
  BY <1>1 DEF InScope, Reserves, OrdersOf
<1>3. MyOrder(t) \notin twice /\ MyOrder(u) \notin twice
  BY DEF Guarded
<1>4. OneInFlightPerScope
  BY ReservedIsExclusive DEF Counting
<1> QED BY <1>1, <1>2, <1>3, <1>4 DEF OneInFlightPerScope

LEMMA OneSenderOfSymbol ==
  ASSUME Counting, Unarmed, NEW sym, Guarded(sym)
  PROVE  OneSender(OrdersOf(sym))
<1> SUFFICES ASSUME NEW t \in Thread, NEW u \in Thread, At(t, "sent"), At(u, "sent"),
                    MyOrder(t) \in OrdersOf(sym), MyOrder(u) \in OrdersOf(sym)
             PROVE  t = u
  BY DEF OneSender
<1> QED BY AloneInScope DEF Unarmed, At
\* Only a send adds a live entry.
LEMMA EntriesStay ==
  ASSUME TypeOK, [Next]_vars, NEW sym,
         \A t \in Thread : Send(t) => MyOrder(t) \notin OrdersOf(sym)
  PROVE  LiveEntries(sym)' \subseteq LiveEntries(sym)
<1>1. ASSUME NEW k \in DOMAIN book', book'[k].state \in {"OPEN", "COMPLETE"},
             book'[k].order \in OrdersOf(sym), k \notin DOMAIN book
      PROVE  FALSE
  <2>1. PICK t \in Thread : Send(t)
    BY <1>1, BookMoves DEF Settle
  <2>2. book' = Append(book, [order |-> MyOrder(t), state |-> "OPEN"])
    BY <2>1 DEF Send
  <2>3. k = Len(book) + 1 /\ book'[k].order = MyOrder(t)
    BY <1>1, <2>2, BookType DEF TypeOK
  <2> QED BY <1>1, <2>1, <2>3
<1>2. ASSUME NEW k \in DOMAIN book, book'[k].state \in {"OPEN", "COMPLETE"},
             book'[k].order \in OrdersOf(sym)
      PROVE  k \in LiveEntries(sym)
  BY <1>2, TicketsStay DEF LiveEntries, Live
<1> QED BY <1>1, <1>2 DEF LiveEntries, Live, OrdersOf

LEMMA EntriesGrow ==
  ASSUME TypeOK, NEW sym, NEW t \in Thread, Send(t)
  PROVE  LiveEntries(sym)' \subseteq LiveEntries(sym) \cup {Len(book) + 1}
<1>1. DOMAIN book' = 1 .. Len(book) + 1 /\ \A k \in DOMAIN book : book'[k] = book[k]
  BY BookType DEF Send, TypeOK
<1> QED BY <1>1, BookType DEF LiveEntries, Live, OrdersOf

\* When an execution passes the risk check of a scope, the live entries of its symbol
\* are counted by it, but for the lost ones.
LEMMA CountedBooks ==
  ASSUME Counting, Unarmed, IsFiniteSet(Order), NEW sym, Guarded(sym),
         Cardinality(Lost(OrdersOf(sym))) <= faults,
         NEW t \in Thread, PassRisk(t), ~thread[t].arm, MyOrder(t) \in OrdersOf(sym)
  PROVE  Cardinality(LiveEntries(sym)) < MaxTrades + faults
<1> DEFINE B == LiveEntries(sym) \ Lost(OrdersOf(sym))
           C == Counted(sym)
<1>0. TypeOK /\ faults \in Nat /\ MaxTrades \in Nat
  BY ConstantsAssumption DEF Counting, Reserved, TypeOK
<1>1. ASSUME NEW k \in B
      PROVE  book[k].order \in C /\ order[book[k].order].ticket = k
  <2> DEFINE o == book[k].order
  <2>1. k \in DOMAIN book /\ o \in OrdersOf(sym) /\ Settled(k, o) /\ k # 0
    BY <1>0, BookType DEF Lost, LiveEntries
  <2>2. ~InFlight(k, o)
    <3>1. SUFFICES ASSUME NEW u \in Thread, At(u, "sent"), MyOrder(u) = o PROVE FALSE
      BY DEF InFlight
    <3>2. u = t
      BY <2>1, <3>1, AloneInScope DEF Unarmed, At, PassRisk
    <3> QED BY <3>1, <3>2 DEF At, PassRisk
  <2>3. Booked(k, o)
    BY <2>1, <2>2 DEF Settled
  <2> QED BY <2>1, <2>3 DEF Booked, Counted, OrdersOf
<1>2. IsFiniteSet(C) /\ Cardinality(C) \in Nat /\ Cardinality(C) < MaxTrades
  <2>1. C \subseteq Order
    BY DEF Counted
  <2>2. MyOrder(t) \notin Exit /\ SymbolOf[MyOrder(t)] = sym
    BY DEF OrdersOf
  <2>3. Cardinality(C) < MaxTrades
    BY <2>2 DEF PassRisk, WithinCap
  <2> QED BY <2>1, <2>3, FS_Subset, FS_CardinalityType
<1> HIDE DEF C
<1>3. Cardinality(B) <= Cardinality(C) /\ IsFiniteSet(B) /\ Cardinality(B) \in Nat
  <2> DEFINE f == [k \in B |-> book[k].order]
  <2>1. f \in [B -> C]
    BY <1>1
  <2>2. \A j, k \in B : f[j] = f[k] => j = k
    BY <1>1
  <2> HIDE DEF f, B
  <2>3. f \in Injection(B, C)
    BY <2>1, <2>2 DEF Injection, IsInjective
  <2> QED BY <1>2, <2>3, FS_Injection, FS_CardinalityType
<1>4. IsFiniteSet(Lost(OrdersOf(sym))) /\ Cardinality(Lost(OrdersOf(sym))) \in Nat
  BY <1>0, TicketsFinite DEF Lost
<1>5. LiveEntries(sym) \subseteq B \cup Lost(OrdersOf(sym))
  OBVIOUS
<1> HIDE DEF B
<1>6. /\ IsFiniteSet(B \cup Lost(OrdersOf(sym)))
      /\ Cardinality(B \cup Lost(OrdersOf(sym))) <= Cardinality(B) + Cardinality(Lost(OrdersOf(sym)))
      /\ Cardinality(B \cup Lost(OrdersOf(sym))) \in Nat
  <2>1. Cardinality(B \cap Lost(OrdersOf(sym))) \in Nat
    BY <1>3, FS_Intersection, FS_CardinalityType
  <2>2. /\ IsFiniteSet(B \cup Lost(OrdersOf(sym)))
        /\ Cardinality(B \cup Lost(OrdersOf(sym))) =
             Cardinality(B) + Cardinality(Lost(OrdersOf(sym)))
               - Cardinality(B \cap Lost(OrdersOf(sym)))
    BY <1>3, <1>4, FS_Union
  <2>3. Cardinality(B \cup Lost(OrdersOf(sym))) \in Nat
    BY <2>2, FS_CardinalityType
  <2> QED BY <1>3, <1>4, <2>1, <2>2, <2>3
<1>7. /\ Cardinality(LiveEntries(sym)) <= Cardinality(B \cup Lost(OrdersOf(sym)))
      /\ Cardinality(LiveEntries(sym)) \in Nat
  BY <1>5, <1>6, FS_Subset, FS_CardinalityType
<1> QED BY <1>0, <1>2, <1>3, <1>4, <1>6, <1>7

LEMMA RoomStep ==
  ASSUME Counting, Unarmed, IsFiniteSet(Order), [Next]_vars, NEW sym, Guarded(sym)', Room(sym)
  PROVE  Room(sym)'
<1>0. /\ TypeOK /\ faults \in Nat /\ faults' \in Nat /\ faults <= faults' /\ MaxTrades \in Nat
      /\ Counting'
  <2>1. TypeOK /\ Counting' /\ TypeOK'
    BY CountingStep DEF Counting, Reserved
  <2>2. faults \in Nat /\ faults' \in Nat /\ MaxTrades \in Nat
    BY <2>1, ConstantsAssumption DEF TypeOK
  <2>3. faults' = faults \/ faults' = faults + 1
    BY DEF Next, Queue, Create, Refuse, CreateAuto, Execute, Patch, EditGtt, Requeue,
           Proceed, Reserve, Busy, RejectRisk, PassRisk, PauseAuto, Arm, FailEarly, Send, Record,
           FailSend, Close, Break, LoseResponse, Abandon, GttLoop, Scan, PassBy, Trigger,
           BrokerAndSync, Settle, SyncFetch, SyncApply, Expire, Crash, Fault, vars
  <2> QED BY <2>1, <2>2, <2>3
<1>1. Guarded(sym)
  BY <1>0, TwiceGrows DEF Guarded, OneScope, OrdersOf
<1>2. Cardinality(Lost(OrdersOf(sym))') <= faults'
  <2>1. OrdersOf(sym) \in SUBSET Order /\ OrdersOf(sym) \cap twice' = {}
    BY DEF OrdersOf, Guarded
  <2> QED BY <1>1, <2>1, OneSenderOfSymbol, LostStep DEF Room
<1>3. (Cardinality(Lost(OrdersOf(sym))) <= faults)'
  BY <1>2 DEF OrdersOf, Lost
<1>4. IsFiniteSet(LiveEntries(sym)) /\ Cardinality(LiveEntries(sym)) \in Nat
  BY <1>0, TicketsFinite DEF LiveEntries
<1>5. ASSUME NEW u \in Thread, thread'[u].pc = "ready", ~thread'[u].arm,
             thread'[u].order \in OrdersOf(sym)
      PROVE  Cardinality(LiveEntries(sym)) < MaxTrades + faults
  <2>1. CASE thread'[u] = thread[u]
    BY <1>5, <2>1 DEF Room, At, MyOrder
  <2>2. CASE PassRisk(u) /\ Goto(u, "ready")
    <3>1. thread'[u].order = thread[u].order /\ thread'[u].arm = thread[u].arm
      BY <1>0, <2>2, GotoMoves
    <3> QED BY <1>1, <1>5, <2>2, <3>1, CountedBooks DEF MyOrder, Room
  <2> QED BY <1>0, <1>5, <2>1, <2>2, ThreadMoves
<1>6. CASE \A t \in Thread : Send(t) => MyOrder(t) \notin OrdersOf(sym)
  <2>1. Cardinality(LiveEntries(sym)') <= Cardinality(LiveEntries(sym))
        /\ Cardinality(LiveEntries(sym)') \in Nat
    BY <1>0, <1>4, <1>6, EntriesStay, FS_Subset, FS_CardinalityType
  <2> QED BY <1>0, <1>3, <1>4, <1>5, <2>1 DEF Room, At, MyOrder, OrdersOf
<1>7. ASSUME NEW t \in Thread, Send(t), MyOrder(t) \in OrdersOf(sym)
      PROVE  Room(sym)'
  <2>1. /\ At(t, "ready") /\ ~thread[t].arm /\ thread'[t].pc = "sent"
        /\ \A u \in Thread \ {t} : thread'[u] = thread[u]
    BY <1>0, <1>7 DEF Send, TypeOK, ThreadState
  <2>2. Cardinality(LiveEntries(sym)) < MaxTrades + faults
    BY <1>7, <2>1 DEF Room
  <2>3. /\ Cardinality(LiveEntries(sym)') <= Cardinality(LiveEntries(sym)) + 1
        /\ Cardinality(LiveEntries(sym)') \in Nat
    <3> DEFINE K == LiveEntries(sym) \cup {Len(book) + 1}
    <3>1. LiveEntries(sym)' \subseteq K
      BY <1>0, <1>7, EntriesGrow
    <3>2. IsFiniteSet(K) /\ Cardinality(K) \in Nat /\ Cardinality(K) <= Cardinality(LiveEntries(sym)) + 1
      BY <1>4, OneMore
    <3> HIDE DEF K
    <3>3. Cardinality(LiveEntries(sym)') <= Cardinality(K) /\ Cardinality(LiveEntries(sym)') \in Nat
      BY <3>1, <3>2, FS_Subset, FS_CardinalityType
    <3> QED BY <1>4, <3>2, <3>3
  <2>4. ASSUME NEW u \in Thread, thread'[u].pc = "ready", ~thread'[u].arm,
               thread'[u].order \in OrdersOf(sym)
        PROVE  FALSE
    <3>1. u # t /\ thread'[u] = thread[u]
      BY <2>1, <2>4
    <3>2. MyOrder(u) \in OrdersOf(sym) /\ thread[u].pc = "ready" /\ ~thread[u].arm
      BY <2>4, <3>1 DEF MyOrder
    <3> QED BY <1>1, <1>7, <2>1, <3>1, <3>2, AloneInScope DEF At
  <2> QED BY <1>0, <1>3, <1>4, <2>2, <2>3, <2>4 DEF Room, At, MyOrder, OrdersOf
<1> QED BY <1>6, <1>7
LEMMA RoomInit == Init => Unarmed /\ Roomy
<1> SUFFICES ASSUME Init, NEW sym PROVE Unarmed /\ Room(sym)
  BY DEF Roomy
<1>1. \A t \in Thread : thread[t].pc = "idle"
  BY DEF Init, Idle
<1>2. LiveEntries(sym) = {} /\ faults = 0 /\ MaxTrades \in Nat
  BY ConstantsAssumption DEF Init, LiveEntries
<1>3. Cardinality(LiveEntries(sym)) = 0
  BY <1>2, FS_EmptySet
<1> QED BY <1>1, <1>2, <1>3, NothingLost DEF Unarmed, Room, At

\* For any number of orders, scopes, threads, syncs and faults: when one scope holds
\* all orders of a symbol and none was executed twice, the live entries of the symbol
\* stay within the cap, beyond it by at most one per fault.
THEOREM EntriesWithinCap ==
  ASSUME IsFiniteSet(Order)
  PROVE  Spec => []CapHoldsInOneScope
<1> DEFINE Capped == Counting /\ Unarmed /\ Roomy
<1>1. Init => Capped
  BY CountingInit, RoomInit
<1>2. Capped /\ [Next]_vars => Capped'
  <2> SUFFICES ASSUME Capped, [Next]_vars PROVE Capped'
    OBVIOUS
  <2>1. Counting' /\ Unarmed'
    BY CountingStep, UnarmedStep DEF Counting, Reserved
  <2>2. ASSUME NEW sym \in {SymbolOf[o] : o \in Order}, Guarded(sym)'
        PROVE  Room(sym)'
    <3>1. Guarded(sym)
      BY <2>2, TwiceGrows DEF Guarded, OneScope, OrdersOf, Counting, Reserved
    <3> QED BY <2>2, <3>1, RoomStep DEF Roomy
  <2> QED BY <2>1, <2>2 DEF Roomy
<1>3. Capped => CapHoldsInOneScope
  BY DEF Roomy, Room, Guarded, OneScope, CapHoldsInOneScope, CapHolds
<1> QED BY <1>1, <1>2, <1>3, PTL DEF Spec
-----------------------------------------------------------------------------
(* Fills *)

\* The order's recorded ticket, if any, must not become live again.
Frail(o) == Active(o) \/ order[o].status \notin {"SENT", "EXECUTED"}

\* A recorded ticket is the order's own and no longer in flight; it is dead once the
\* order may be sent anew, and executed when the row says so, as every sync will see.
Tracked(o) ==
  /\ order[o].status = "EXECUTED" => order[o].ticket # 0
  /\ \A k \in Nat : order[o].ticket = k /\ k # 0 =>
       /\ k \in DOMAIN book /\ book[k].order = o /\ ~InFlight(k, o)
       /\ Frail(o) => book[k].state \notin {"OPEN", "COMPLETE"}
       /\ order[o].status = "EXECUTED" =>
            /\ book[k].state = "COMPLETE"
            /\ \A y \in Syncer : k \in DOMAIN snap[y] => snap[y][k] = "COMPLETE"

\* Executed tickets whose fill is not still to be booked.
Filled(o) ==
  {k \in DOMAIN book : /\ book[k].state = "COMPLETE" /\ book[k].order = o
                       /\ ~InFlight(k, o)
                       /\ order[o].ticket = k => order[o].status = "EXECUTED"}
FillsReal(o) == Tracked(o) /\ fills[o] <= Cardinality(Filled(o))

\* A ticket in flight is its order's.
SentOwn == \A t \in Thread : At(t, "sent") =>
             thread[t].ticket \in DOMAIN book /\ book[thread[t].ticket].order = MyOrder(t)

LEMMA SendOwns ==
  ASSUME TypeOK, NEW t \in Thread, Send(t)
  PROVE  /\ thread'[t].ticket = Len(book) + 1 /\ Len(book) + 1 \notin DOMAIN book
         /\ Len(book) + 1 \in DOMAIN book' /\ book'[Len(book) + 1].order = MyOrder(t)
         /\ thread'[t].order = MyOrder(t)
BY BookType DEF Send, TypeOK, ThreadState, MyOrder

LEMMA SentOwnStep ==
  ASSUME TypeOK, SentOwn, [Next]_vars
  PROVE  SentOwn'
<1> SUFFICES ASSUME NEW t \in Thread, thread'[t].pc = "sent"
             PROVE  /\ thread'[t].ticket \in DOMAIN book'
                    /\ book'[thread'[t].ticket].order = thread'[t].order
  BY DEF SentOwn, At, MyOrder
<1>1. CASE thread'[t] = thread[t]
  BY <1>1, TicketsStay DEF SentOwn, At, MyOrder
<1>2. CASE Send(t)
  BY <1>2, SendOwns
<1> QED BY <1>1, <1>2, ThreadMoves

LEMMA InFlightStays ==
  ASSUME TypeOK, [Next]_vars, NEW k \in DOMAIN book, NEW o, InFlight(k, o)'
  PROVE  InFlight(k, o)
<1>1. PICK t \in Thread : thread'[t].pc = "sent" /\ thread'[t].order = o /\ thread'[t].ticket = k
  BY DEF InFlight, At, MyOrder
<1>2. ~Send(t)
  BY <1>1, SendOwns
<1>3. thread'[t] = thread[t]
  BY <1>1, <1>2, ThreadMoves
<1> QED BY <1>1, <1>3 DEF InFlight, At, MyOrder

\* More tickets are filled, and no fill is booked.
LEMMA FilledGrows ==
  ASSUME TypeOK, TypeOK', NEW o \in Order, Filled(o) \subseteq Filled(o)',
         fills'[o] = fills[o], fills[o] <= Cardinality(Filled(o))
  PROVE  fills'[o] <= Cardinality(Filled(o)')
<1>1. Filled(o) \subseteq DOMAIN book /\ Filled(o)' \subseteq DOMAIN book'
  BY DEF Filled
<1>2. IsFiniteSet(Filled(o)') /\ IsFiniteSet(DOMAIN book')
  <2>1. DOMAIN book' = 1 .. Len(book') /\ Len(book') \in Nat
    BY DEF TypeOK
  <2>2. IsFiniteSet(DOMAIN book')
    BY <2>1, FS_Interval
  <2> QED BY <1>1, <2>2, FS_Subset
<1>3. /\ Cardinality(Filled(o)') \in Nat /\ Cardinality(Filled(o)) \in Nat
      /\ Cardinality(Filled(o)) <= Cardinality(Filled(o)')
  BY <1>2, FS_Subset, FS_CardinalityType
<1>4. fills[o] \in Nat
  BY DEF TypeOK
<1> QED BY <1>3, <1>4

\* Steps that leave an order's ticket alone, and its status but where it is frail.
LEMMA FillFrame ==
  ASSUME TypeOK, TypeOK', [Next]_vars, NEW o \in Order, FillsReal(o),
         order'[o].ticket = order[o].ticket, fills'[o] = fills[o],
         \/ order'[o].status = order[o].status
         \/ Frail(o) /\ order'[o].status \notin {"SENT", "EXECUTED"},
         Active(o)' => Frail(o),
         \A y \in Syncer : \A k \in DOMAIN snap'[y] :
           snap'[y][k] = book[k].state \/ (k \in DOMAIN snap[y] /\ snap'[y][k] = snap[y][k])
  PROVE  FillsReal(o)'
<1>1. ASSUME Frail(o)' PROVE Frail(o)
  BY <1>1 DEF Frail
<1>2. ASSUME NEW k \in Nat, order[o].ticket = k, k # 0
      PROVE  /\ k \in DOMAIN book /\ book[k].order = o /\ ~InFlight(k, o)
             /\ Frail(o) => book[k].state \notin {"OPEN", "COMPLETE"}
             /\ order[o].status = "EXECUTED" =>
                  /\ book[k].state = "COMPLETE"
                  /\ \A y \in Syncer : k \in DOMAIN snap[y] => snap[y][k] = "COMPLETE"
  BY <1>2 DEF FillsReal, Tracked
<1>3. ASSUME NEW k \in Nat, order'[o].ticket = k, k # 0
      PROVE  /\ k \in DOMAIN book' /\ book'[k].order = o /\ ~InFlight(k, o)'
             /\ Frail(o)' => book'[k].state \notin {"OPEN", "COMPLETE"}
             /\ order'[o].status = "EXECUTED" =>
                  /\ book'[k].state = "COMPLETE"
                  /\ \A y \in Syncer : k \in DOMAIN snap'[y] => snap'[y][k] = "COMPLETE"
  <2>1. k \in DOMAIN book' /\ book'[k].order = o
    BY <1>2, <1>3, TicketsStay
  <2>2. ~InFlight(k, o)'
    BY <1>2, <1>3, InFlightStays
  <2>3. Frail(o)' => book'[k].state \notin {"OPEN", "COMPLETE"}
    BY <1>1, <1>2, <1>3, TicketsStay
  <2>4. order'[o].status = "EXECUTED" =>
          /\ book'[k].state = "COMPLETE"
          /\ \A y \in Syncer : k \in DOMAIN snap'[y] => snap'[y][k] = "COMPLETE"
    BY <1>2, <1>3, TicketsStay
  <2> QED BY <2>1, <2>2, <2>3, <2>4
<1>4. Tracked(o)'
  <2>1. order'[o].status = "EXECUTED" => order'[o].ticket # 0
    BY DEF FillsReal, Tracked
  <2> QED BY <1>3, <2>1 DEF Tracked
<1>5. order[o].ticket \in Nat
  BY DEF TypeOK, OrderRow
<1>6. ASSUME NEW k \in Filled(o) PROVE k \in Filled(o)'
  <2>1. /\ k \in DOMAIN book /\ book[k].state = "COMPLETE" /\ book[k].order = o
        /\ ~InFlight(k, o) /\ (order[o].ticket = k => order[o].status = "EXECUTED")
    BY DEF Filled
  <2>2. k \in DOMAIN book' /\ book'[k].state = "COMPLETE" /\ book'[k].order = o
    BY <2>1, TicketsStay
  <2>3. ~InFlight(k, o)'
    BY <2>1, InFlightStays
  <2>4. order'[o].ticket = k => order'[o].status = "EXECUTED"
    BY <1>2, <2>1, BookType
  <2> QED BY <2>2, <2>3, <2>4 DEF Filled
<1>7. fills'[o] <= Cardinality(Filled(o)')
  BY <1>6, FilledGrows DEF FillsReal
<1> QED BY <1>4, <1>7 DEF FillsReal

\* A new row has no ticket.
LEMMA FillInsert ==
  ASSUME Counting, TypeOK', [Next]_vars, NEW o \in Order, FillsReal(o), order[o].status = "ABSENT",
         order'[o].status # "EXECUTED", order'[o].ticket = 0, fills'[o] = fills[o]
  PROVE  FillsReal(o)'
<1>1. Filled(o) = {}
  BY DEF Filled, Counting, TicketsKnown, Exists
<1>2. Tracked(o)'
  BY DEF Tracked
<1>3. TypeOK
  BY DEF Counting, Reserved
<1> QED BY <1>1, <1>2, <1>3, FilledGrows DEF FillsReal
\* What an execution writes to its row, but for the broker's answer.
LEMMA ExecutionRow ==
  ASSUME TypeOK, NEW t \in Thread, Proceed(t) \/ Break(t), ~Record(t), NEW o, o = MyOrder(t)
  PROVE  /\ order'[o].ticket = order[o].ticket
         /\ \/ order'[o].status = order[o].status
            \/ Frail(o) /\ order'[o].status \notin {"SENT", "EXECUTED"}
<1>0. Executing(t) /\ o \in Order /\ order[o] \in OrderRow /\ Row(t) = order[o]
  BY ExecutionFrame DEF Row, TypeOK
<1>1. ASSUME thread[t].pc \in {"checking", "ready", "sent"} PROVE Frail(o)
  BY <1>1 DEF Frail, Active, Working
<1>2. CASE RejectRisk(t) \/ FailSend(t) \/ LoseResponse(t) \/ PauseAuto(t) \/ Arm(t) \/ FailEarly(t)
  <2>1. Frail(o)
    BY <1>1, <1>2 DEF RejectRisk, FailSend, LoseResponse, PauseAuto, Arm, FailEarly, At
  <2>2. CASE RejectRisk(t)
    BY <1>0, <2>1, <2>2 DEF RejectRisk, Conclude, OrderRow, TypeOK
  <2>3. CASE FailSend(t) \/ LoseResponse(t)
    BY <1>0, <2>1, <2>3 DEF FailSend, LoseResponse, Conclude, OrderRow, TypeOK
  <2>4. CASE PauseAuto(t)
    BY <1>0, <2>1, <2>4 DEF PauseAuto, Conclude, OrderRow, TypeOK
  <2>5. CASE Arm(t)
    BY <1>0, <2>5 DEF Arm, Conclude, OrderRow, TypeOK
  <2>6. CASE FailEarly(t)
    BY <1>0, <2>6 DEF FailEarly, Conclude, OrderRow, TypeOK
  <2> QED BY <1>2, <2>2, <2>3, <2>4, <2>5, <2>6
<1>3. CASE Close(t) \/ Abandon(t)
  <2>1. order' = order \/ FailUnsent(t)
    BY <1>3 DEF Close, Abandon
  <2>2. FailsFrom(t) \subseteq {"WAITING", "SENDING"}
    BY DEF FailsFrom
  <2>3. ASSUME order' # order
        PROVE  order[o].status \in {"WAITING", "SENDING"} /\ Set(o, "FAILED")
    BY <1>0, <2>1, <2>2, <2>3 DEF FailUnsent
  <2> QED BY <1>0, <2>3 DEF Set, TypeOK, OrderRow, Frail
<1>4. CASE Reserve(t) \/ Busy(t) \/ PassRisk(t) \/ Send(t)
  BY <1>4 DEF Reserve, Busy, PassRisk, Send
<1> QED BY <1>2, <1>3, <1>4 DEF Proceed, Break

\* The broker's answer takes its ticket out of flight and into the row.
LEMMA RecordFill ==
  ASSUME Counting, Counting', SentOwn, [Next]_vars, NEW t \in Thread, Record(t),
         NEW o, o = MyOrder(t), o \notin twice, FillsReal(o)
  PROVE  FillsReal(o)'
<1> PICK k : k = thread[t].ticket
  OBVIOUS
<1>0. /\ TypeOK /\ TypeOK' /\ Reserved /\ Proceed(t) /\ At(t, "sent") /\ Executing(t)
      /\ o \in Order /\ order[o] \in OrderRow /\ k \in Nat /\ fills' = fills /\ book' = book
  BY RowType DEF Counting, Reserved, Proceed, Record, Conclude, At, Executing, TypeOK
<1>1. /\ thread'[t].pc = "closing" /\ thread'[t].order = o
      /\ \A u \in Thread \ {t} : thread'[u] = thread[u]
  BY <1>0, GotoMoves DEF Record, Conclude, MyOrder
<1>2. order'[o].status = "SENT" /\ order'[o].ticket = k
  BY <1>0 DEF Record, Conclude, Row, OrderRow, TypeOK
<1>3. InFlight(k, o) /\ ~InFlight(k, o)' /\ ~Active(o)'
  BY <1>0, <1>1, Alone
<1>4. k \in DOMAIN book /\ book[k].order = o
  BY <1>0 DEF SentOwn
<1>5. Tracked(o)'
  BY <1>0, <1>2, <1>3, <1>4, BookType DEF Tracked, Frail
<1>6. ASSUME NEW j \in Filled(o) PROVE j \in Filled(o)'
  <2>1. j \in DOMAIN book /\ book[j].state = "COMPLETE" /\ book[j].order = o /\ ~InFlight(j, o)
    BY DEF Filled
  <2>2. j # k
    BY <1>3, <2>1
  <2>3. ~InFlight(j, o)'
    BY <1>0, <2>1, InFlightStays
  <2> QED BY <1>0, <1>2, <2>1, <2>2, <2>3 DEF Filled
<1>7. fills'[o] <= Cardinality(Filled(o)')
  BY <1>0, <1>6, FilledGrows DEF FillsReal
<1> QED BY <1>5, <1>7 DEF FillsReal

\* A sync books the fill of a ticket that was executed and not yet booked.
LEMMA SyncFill ==
  ASSUME Counting, Counting', \A x, y \in Syncer : x = y, [Next]_vars,
         NEW y \in Syncer, SyncApply(y), NEW o \in Local, o \in Order, FillsReal(o)
  PROVE  FillsReal(o)'
<1>0. /\ TypeOK /\ TypeOK' /\ SnapTrue /\ thread' = thread /\ book' = book
      /\ order[o] \in OrderRow /\ order[o].ticket \in Nat /\ fills[o] \in Nat
  BY DEF Counting, Reserved, SyncApply, TypeOK, OrderRow
<1>1. PICK m \in Linkings(snap[y]) :
        /\ order' = [p \in Order |-> Synced(snap[y], m, p)]
        /\ fills' = [p \in Order |->
             IF Fills(order[p], Synced(snap[y], m, p)) THEN fills[p] + 1 ELSE fills[p]]
  <2>1. PICK m \in Linkings(snap[y]) :
          LET synced == [p \in Order |-> Synced(snap[y], m, p)] IN
          /\ order' = synced
          /\ fills' = [p \in Order |->
               IF Fills(order[p], synced[p]) THEN fills[p] + 1 ELSE fills[p]]
    BY DEF SyncApply
  <2> QED BY <2>1
<1>2. o \notin DOMAIN m
  BY <1>1 DEF Linkings, Unlinked
<1> DEFINE k == order[o].ticket
<1>3. \A x \in Syncer : DOMAIN snap'[x] = {}
  <2>1. snap'[y] = Unfetched
    BY <1>0 DEF SyncApply, TypeOK
  <2> QED BY <2>1 DEF Unfetched
<1>4. (Active(o)' <=> Active(o)) /\ \A j : InFlight(j, o)' <=> InFlight(j, o)
  BY <1>0 DEF Active, Working, InFlight, At, MyOrder
<1>5. CASE k \notin DOMAIN snap[y]
  <2>1. order'[o] = order[o]
    BY <1>1, <1>2, <1>5 DEF Synced
  <2>2. fills'[o] = fills[o]
    BY <1>1, <1>2, <1>5 DEF Synced, Fills
  <2> QED BY <1>0, <1>3, <1>4, <2>1, <2>2, FillFrame DEF Frail
<1>6. CASE k \in DOMAIN snap[y]
  <2>1. k \in DOMAIN book /\ k # 0 /\ snap[y][k] \in TicketState
    BY <1>0, <1>6, BookType
  <2>2. /\ book[k].order = o /\ ~InFlight(k, o)
        /\ Frail(o) => book[k].state \notin {"OPEN", "COMPLETE"}
        /\ order[o].status = "EXECUTED" => book[k].state = "COMPLETE" /\ snap[y][k] = "COMPLETE"
    BY <1>0, <1>6, <2>1 DEF FillsReal, Tracked
  <2>3. order'[o].ticket = k /\ order'[o].status = MapStatus(snap[y][k])
    BY <1>0, <1>1, <1>2, <1>6 DEF Synced, OrderRow
  <2>4. fills'[o] = IF order[o].status # "EXECUTED" /\ order'[o].status = "EXECUTED"
                    THEN fills[o] + 1 ELSE fills[o]
    BY <1>1 DEF Fills
  <2>5. snap[y][k] # "OPEN" => book[k].state = snap[y][k]
    BY <1>0, <1>6 DEF SnapTrue
  <2>6. /\ snap[y][k] = "OPEN" => order'[o].status = "SENT"
        /\ snap[y][k] = "COMPLETE" <=> order'[o].status = "EXECUTED"
        /\ snap[y][k] \in {"REJECTED", "CANCELLED"} =>
             order'[o].status = snap[y][k]
    BY <2>1, <2>3 DEF MapStatus, TicketState
  <2>7. Tracked(o)'
    <3>1. Frail(o)' => book[k].state \notin {"OPEN", "COMPLETE"}
      BY <1>4, <2>1, <2>2, <2>5, <2>6 DEF Frail, TicketState
    <3>2. order'[o].status = "EXECUTED" => book[k].state = "COMPLETE"
      BY <2>5, <2>6
    <3> QED BY <1>0, <1>3, <1>4, <2>1, <2>2, <2>3, <3>1, <3>2 DEF Tracked
  <2>8. CASE order[o].status # "EXECUTED" /\ order'[o].status = "EXECUTED"
    <3>1. k \notin Filled(o)
      BY <2>8 DEF Filled
    <3>2. Filled(o)' = Filled(o) \cup {k}
      BY <1>0, <1>4, <2>1, <2>2, <2>3, <2>5, <2>6, <2>8 DEF Filled
    <3>3. IsFiniteSet(Filled(o))
      BY <1>0, TicketsFinite DEF Filled
    <3>4. Cardinality(Filled(o)') = Cardinality(Filled(o)) + 1 /\ Cardinality(Filled(o)) \in Nat
      BY <3>1, <3>2, <3>3, FS_AddElement, FS_CardinalityType
    <3> QED BY <1>0, <2>4, <2>7, <2>8, <3>4 DEF FillsReal
  <2>9. CASE ~(order[o].status # "EXECUTED" /\ order'[o].status = "EXECUTED")
    <3>1. order[o].status = "EXECUTED" => order'[o].status = "EXECUTED"
      BY <2>2, <2>6
    <3>2. Filled(o) \subseteq Filled(o)'
      BY <1>0, <1>4, <2>3, <3>1 DEF Filled
    <3>3. fills'[o] <= Cardinality(Filled(o)')
      BY <1>0, <2>4, <2>9, <3>2, FilledGrows DEF FillsReal
    <3> QED BY <2>7, <3>3 DEF FillsReal
  <2> QED BY <2>8, <2>9
<1> QED BY <1>5, <1>6
FillsAreReal == SentOwn /\ \A o \in Local \ twice : FillsReal(o)

\* A thread that takes up an order makes only that one active.
LEMMA BeginActive ==
  ASSUME NEW t, NEW o, NEW p, Active(o)', thread'[t].order = p, p # o,
         \A u \in Thread \ {t} : thread'[u] = thread[u]
  PROVE  Active(o)
BY DEF Active, Working, MyOrder

LEMMA FillStep ==
  ASSUME Counting, FillsAreReal, \A x, y \in Syncer : x = y, [Next]_vars,
         NEW o \in Local, o \notin twice'
  PROVE  FillsReal(o)'
<1>0. /\ TypeOK /\ TypeOK' /\ Counting' /\ Known /\ Reserved
      /\ o \in Order /\ FillsReal(o) /\ SentOwn /\ o \notin twice
  <2>1. Counting' /\ TypeOK /\ Known /\ Reserved
    BY CountingStep DEF Counting, Reserved
  <2>2. o \notin twice
    BY <2>1, TwiceGrows
  <2> QED BY <2>1, <2>2, ConstantsAssumption DEF Counting, Reserved, FillsAreReal
<1>1. ASSUME fills' = fills, snap' = snap,
             order'[o].ticket = order[o].ticket,
             \/ order'[o].status = order[o].status
             \/ Frail(o) /\ order'[o].status \notin {"SENT", "EXECUTED"},
             Active(o)' => Frail(o)
      PROVE  FillsReal(o)'
  BY <1>0, <1>1, FillFrame
<1>2. ASSUME thread' = thread PROVE Active(o)' <=> Active(o)
  BY <1>2 DEF Active, Working, MyOrder
<1>3. ASSUME fills' = fills, snap' = snap, thread' = thread, order'[o] = order[o]
      PROVE  FillsReal(o)'
  BY <1>1, <1>2, <1>3 DEF Frail
<1>4. ASSUME NEW p \in Order, order[p].status = "ABSENT", fills' = fills, snap' = snap,
             order'[p].ticket = 0, order'[p].status = "WAITING",
             \A q \in Order : q # p => order'[q] = order[q],
             p # o => (Active(o)' => Active(o))
      PROVE  FillsReal(o)'
  <2>1. CASE p = o
    BY <1>0, <1>4, <2>1, FillInsert
  <2>2. CASE p # o
    BY <1>0, <1>1, <1>4, <2>2 DEF Frail
  <2> QED BY <2>1, <2>2
<1>5. CASE Queue
  <2>1. ASSUME NEW p \in Order, Create(p) PROVE FillsReal(o)'
    <3>1. /\ order[p].status = "ABSENT" /\ order'[p].ticket = 0 /\ order'[p].status = "WAITING"
          /\ \A q \in Order : q # p => order'[q] = order[q]
      BY <1>0, <2>1 DEF Create, Insert, NoRow, TypeOK
    <3> QED BY <1>2, <1>4, <2>1, <3>1 DEF Create
  <2>2. ASSUME NEW p \in Order, NEW c \in Order, Requeue(p, c) PROVE FillsReal(o)'
    <3>1. /\ order[c].status = "ABSENT" /\ order'[c].ticket = 0 /\ order'[c].status = "WAITING"
          /\ \A q \in Order : q # c => order'[q] = order[q]
      BY <1>0, <2>2 DEF Requeue, Insert, NoRow, TypeOK
    <3> QED BY <1>2, <1>4, <2>2, <3>1 DEF Requeue
  <2>3. ASSUME NEW p \in Order, Refuse(p) PROVE FillsReal(o)'
    BY <1>3, <2>3 DEF Refuse
  <2>4. ASSUME NEW p \in Order, Patch(p) \/ EditGtt(p) PROVE FillsReal(o)'
    <3>1. /\ thread' = thread /\ fills' = fills /\ snap' = snap
          /\ order'[o].ticket = order[o].ticket
          /\ \/ order'[o] = order[o]
             \/ /\ order[o].status \notin {"SENT", "EXECUTED"}
                /\ order'[o].status \notin {"SENT", "EXECUTED"}
      <4>1. order[o] \in OrderRow
        BY <1>0 DEF TypeOK
      <4>2. CASE Patch(p)
        BY <1>0, <4>1, <4>2 DEF Patch, Set, TypeOK, OrderRow
      <4>3. CASE EditGtt(p)
        <5>1. /\ thread' = thread /\ fills' = fills /\ snap' = snap
              /\ order[p].status = "WAITING" /\ order \in [Order -> OrderRow]
              /\ \/ order' = [order EXCEPT ![p] = [@ EXCEPT !.gtt = TRUE]]
                 \/ order' = [order EXCEPT ![p] =
                      [@ EXCEPT !.gtt = FALSE, !.armed = FALSE, !.triggered = FALSE]]
          BY <1>0, <4>3 DEF EditGtt, TypeOK
        <5>2. CASE p # o
          BY <1>0, <5>1, <5>2
        <5>3. CASE p = o
          <6>1. \/ order'[o] = [order[o] EXCEPT !.gtt = TRUE]
                \/ order'[o] = [order[o] EXCEPT !.gtt = FALSE, !.armed = FALSE, !.triggered = FALSE]
            BY <1>0, <5>1, <5>3
          <6>2. order'[o].status = order[o].status /\ order'[o].ticket = order[o].ticket
            BY <4>1, <6>1 DEF OrderRow
          <6> QED BY <5>1, <5>3, <6>2
        <5> QED BY <5>2, <5>3
      <4> QED BY <2>4, <4>2, <4>3
    <3>2. Active(o)' => Active(o)
      BY <1>2, <3>1
    <3> QED BY <1>1, <3>1, <3>2 DEF Frail
  <2>5. ASSUME NEW r \in Request, NEW p \in Order, CreateAuto(r, p) PROVE FillsReal(o)'
    <3>1. /\ order[p].status = "ABSENT" /\ order'[p].ticket = 0 /\ order'[p].status = "WAITING"
          /\ \A q \in Order : q # p => order'[q] = order[q]
      BY <1>0, <2>5 DEF CreateAuto, Insert, NoRow, TypeOK
    <3>0. r \in Thread
      BY DEF Thread
    <3>2. thread'[r].order = p /\ \A u \in Thread \ {r} : thread'[u] = thread[u]
      BY <1>0, <2>5, <3>0, BeginMoves DEF CreateAuto
    <3> QED BY <1>4, <2>5, <3>1, <3>2, BeginActive DEF CreateAuto
  <2>6. ASSUME NEW r \in Request, NEW p \in Order, Execute(r, p) PROVE FillsReal(o)'
    <3>0. r \in Thread
      BY DEF Thread
    <3>1. thread'[r].order = p /\ \A u \in Thread \ {r} : thread'[u] = thread[u]
      BY <1>0, <2>6, <3>0, BeginMoves DEF Execute
    <3>2. order' = order /\ fills' = fills /\ snap' = snap
          /\ order[p].status \in {"WAITING", "SENDING"}
      BY <2>6 DEF Execute
    <3>3. Active(o)' => Frail(o)
      BY <3>1, <3>2, BeginActive DEF Frail
    <3> QED BY <1>1, <3>2, <3>3
  <2> QED BY <1>5, <2>1, <2>2, <2>3, <2>4, <2>5, <2>6 DEF Queue
<1>6. ASSUME NEW t \in Thread, Proceed(t) \/ Break(t) PROVE FillsReal(o)'
  <2>1. fills' = fills /\ snap' = snap /\ Executing(t)
    BY <1>6 DEF Proceed, Break, Reserve, Busy, PassRisk, RejectRisk, PauseAuto, Arm, FailEarly,
                Send, FailSend, Record, LoseResponse, Close, Abandon, Conclude, At, Executing
  <2>2. CASE Record(t) /\ o = MyOrder(t)
    BY <1>0, <2>2, RecordFill
  <2>3. /\ Executing(t) /\ MyOrder(t) \in Order
        /\ \A u \in Thread \ {t} : thread'[u] = thread[u]
        /\ thread'[t].pc = "idle" \/ thread'[t].order = MyOrder(t)
        /\ \A p \in Order : p # MyOrder(t) => order'[p] = order[p]
    BY <1>0, <1>6, ExecutionFrame
  <2>4. CASE o # MyOrder(t)
    <3>1. Active(o)' => Active(o)
      BY <2>3, <2>4 DEF Active, Working, MyOrder
    <3> QED BY <1>0, <1>1, <2>1, <2>3, <2>4, <3>1 DEF Frail
  <2>5. CASE ~Record(t) /\ o = MyOrder(t)
    <3>1. Active(o)' => Active(o)
      <4>1. ASSUME NEW u \in Thread, u # t PROVE Working(u, o)' => Working(u, o)
        BY <2>3, <4>1 DEF Working, MyOrder
      <4>2. thread'[t].pc \in {"reserving", "checking", "ready", "sent"} =>
              thread[t].pc \in {"reserving", "checking", "ready", "sent"}
        <5>1. CASE thread[t].pc \in {"closing", "failing"}
          <6>1. Close(t) \/ Abandon(t)
            BY <1>6, <5>1 DEF Proceed, Break, Reserve, Busy, PassRisk, RejectRisk, PauseAuto,
                 Arm, FailEarly, Send, FailSend, Record, LoseResponse, At
          <6> QED BY <1>0, <6>1 DEF Close, Abandon, Rest, Idle, TypeOK
        <5>2. thread[t] \in ThreadState /\ thread[t].pc # "idle"
          BY <1>0, <2>1 DEF TypeOK, Executing
        <5> QED BY <5>1, <5>2 DEF ThreadState
      <4> QED BY <2>5, <4>1, <4>2 DEF Active, Working, MyOrder
    <3>2. /\ order'[o].ticket = order[o].ticket
          /\ \/ order'[o].status = order[o].status
             \/ Frail(o) /\ order'[o].status \notin {"SENT", "EXECUTED"}
      BY <1>0, <1>6, <2>5, ExecutionRow
    <3> QED BY <1>1, <2>1, <3>1, <3>2 DEF Frail
  <2> QED BY <2>2, <2>4, <2>5
<1>7. CASE GttLoop
  <2>1. ASSUME NEW p \in Order, Trigger(p) PROVE FillsReal(o)'
    <3>0. Gtt \in Thread
      BY DEF Thread
    <3>1. thread'[Gtt].order = p /\ \A u \in Thread \ {Gtt} : thread'[u] = thread[u]
      BY <1>0, <2>1, <3>0, BeginMoves DEF Trigger
    <3>2. /\ fills' = fills /\ snap' = snap
          /\ order[p].status # "WAITING" => p \in twice'
          /\ order' = [order EXCEPT ![p] = [@ EXCEPT !.status = "SENDING", !.triggered = TRUE]]
      BY <2>1 DEF Trigger, Again
    <3>3. order[o] \in OrderRow /\ order \in [Order -> OrderRow]
      BY <1>0 DEF TypeOK
    <3>4. CASE p = o
      <4>1. /\ order'[o].ticket = order[o].ticket /\ order'[o].status = "SENDING"
            /\ order[o].status = "WAITING"
        BY <3>2, <3>3, <3>4 DEF OrderRow
      <4> QED BY <1>1, <3>2, <4>1 DEF Frail
    <3>5. CASE p # o
      <4>1. Active(o)' => Active(o)
        BY <3>1, <3>5, BeginActive
      <4> QED BY <1>0, <1>1, <3>2, <3>3, <3>5, <4>1 DEF Frail
    <3> QED BY <3>4, <3>5
  <2> QED BY <1>3, <1>7, <2>1 DEF GttLoop, Scan, PassBy
<1>8. ASSUME NEW y \in Syncer, SyncFetch(y) PROVE FillsReal(o)'
  <2>1. PICK local \in BOOLEAN :
          snap' = [snap EXCEPT ![y] =
            [k \in {i \in DOMAIN book : (book[i].order \in Local) = local} |-> book[k].state]]
    BY <1>8 DEF SyncFetch
  <2>2. order' = order /\ thread' = thread /\ fills' = fills /\ DOMAIN snap = Syncer
    BY <1>0, <1>8 DEF SyncFetch, TypeOK
  <2>3. \A x \in Syncer : \A k \in DOMAIN snap'[x] :
          snap'[x][k] = book[k].state \/ (k \in DOMAIN snap[x] /\ snap'[x][k] = snap[x][k])
    BY <2>1, <2>2
  <2> QED BY <1>0, <1>2, <2>2, <2>3, FillFrame DEF Frail
<1>9. ASSUME NEW y \in Syncer, SyncApply(y) PROVE FillsReal(o)'
  BY <1>0, <1>9, SyncFill
<1>10. CASE Crash
  <2>1. order' = order /\ fills' = fills /\ \A t \in Thread : thread'[t].pc = "idle"
    BY <1>10 DEF Crash, Idle
  <2>2. ~Active(o)'
    BY <2>1 DEF Active, Working
  <2>3. \A x \in Syncer : DOMAIN snap'[x] = {}
    <3>1. \A x \in Syncer : snap'[x] = Unfetched
      BY <1>10 DEF Crash
    <3> QED BY <3>1 DEF Unfetched
  <2> QED BY <1>0, <2>1, <2>2, <2>3, FillFrame
<1>11. CASE (\E k \in DOMAIN book : Settle(k)) \/ (\E s \in Scope : Expire(s)) \/ UNCHANGED vars
  BY <1>3, <1>11 DEF Settle, Expire, vars
<1> QED BY <1>5, <1>6, <1>7, <1>8, <1>9, <1>10, <1>11 DEF Next, BrokerAndSync

LEMMA FillsInit == Init => FillsAreReal
<1> SUFFICES ASSUME Init PROVE FillsAreReal
  OBVIOUS
<1>1. SentOwn
  BY DEF Init, SentOwn, At, Idle
<1>2. ASSUME NEW o \in Local PROVE FillsReal(o)
  <2>1. o \in Order /\ order[o].ticket = 0 /\ order[o].status = "ABSENT" /\ fills[o] = 0
    BY ConstantsAssumption DEF Init, NoRow
  <2>2. Filled(o) = {}
    BY DEF Init, Filled
  <2> QED BY <2>1, <2>2, FS_EmptySet DEF FillsReal, Tracked
<1> QED BY <1>1, <1>2 DEF FillsAreReal

LEMMA FillsCovered == Counting /\ FillsAreReal => FillsHaveTickets
<1> SUFFICES ASSUME Counting, FillsAreReal, NEW o \in Local \ twice
             PROVE  fills[o] <= Cardinality({k \in DOMAIN book :
                                  book[k].state = "COMPLETE" /\ book[k].order = o})
  BY DEF FillsHaveTickets
<1> DEFINE Done == {k \in DOMAIN book : book[k].state = "COMPLETE" /\ book[k].order = o}
<1>0. TypeOK /\ o \in Order /\ fills[o] \in Nat
  BY ConstantsAssumption DEF Counting, Reserved, TypeOK
<1>1. IsFiniteSet(Done) /\ Cardinality(Done) \in Nat
  BY <1>0, TicketsFinite
<1>2. Filled(o) \subseteq Done
  BY DEF Filled
<1>3. fills[o] <= Cardinality(Filled(o))
  BY DEF FillsAreReal, FillsReal
<1> HIDE DEF Done
<1>4. Cardinality(Filled(o)) <= Cardinality(Done) /\ Cardinality(Filled(o)) \in Nat
  BY <1>1, <1>2, FS_Subset, FS_CardinalityType
<1>5. fills[o] <= Cardinality(Done)
  BY <1>0, <1>1, <1>3, <1>4
<1> QED BY <1>5 DEF Done

\* For any number of orders, scopes, threads and faults, when status syncs do not overlap:
\* every fill booked in the portfolio at a local broker belongs to a ticket of that order
\* which was executed, unless the order was executed twice.
THEOREM FillsWereTraded ==
  ASSUME \A x, y \in Syncer : x = y
  PROVE  Spec => []FillsHaveTickets
<1> DEFINE Real == Counting /\ FillsAreReal
<1>1. Init => Real
  BY CountingInit, FillsInit
<1>2. Real /\ [Next]_vars => Real'
  <2> SUFFICES ASSUME Real, [Next]_vars PROVE Real'
    OBVIOUS
  <2>1. Counting' /\ SentOwn'
    BY CountingStep, SentOwnStep DEF Counting, Reserved, FillsAreReal
  <2>2. ASSUME NEW o \in Local, o \notin twice' PROVE FillsReal(o)'
    BY <2>2, FillStep
  <2> QED BY <2>1, <2>2 DEF FillsAreReal
<1>3. Real => FillsHaveTickets
  BY FillsCovered
<1> QED BY <1>1, <1>2, <1>3, PTL DEF Spec
=============================================================================
