-------------------------- MODULE ManagedRiskProofs --------------------------
(* Theorems about ManagedRisk, for every value of its constants. *)
EXTENDS ManagedRisk, SequenceTheorems, TLAPS

-----------------------------------------------------------------------------
(* The arithmetic of stops *)

LEMMA GainType ==
  ASSUME NEW side \in Side, NEW d \in Int
  PROVE  Gain(side, d) \in Int
BY DEF Gain

LEMMA FavourType ==
  ASSUME NEW side \in Side, NEW a \in Int, NEW b \in Int
  PROVE  /\ Favour(side, a, b) \in Int
         /\ AtLeast(side, Favour(side, a, b), a)
         /\ AtLeast(side, Favour(side, a, b), b)
BY DEF Favour, AtLeast, Side

LEMMA AtLeastTransitive ==
  ASSUME NEW side \in Side, NEW a \in Int, NEW b \in Int, NEW c \in Int,
         AtLeast(side, a, b), AtLeast(side, b, c)
  PROVE  AtLeast(side, a, c)
BY DEF AtLeast, Side

\* A ratcheted trail is a price, no worse than the trail before.
LEMMA RatchetMoves ==
  ASSUME NEW side \in Side, NEW entry \in Int, NEW plan \in Distances, NEW best \in Int,
         NEW trail \in Int \cup {NoPrice}
  PROVE  /\ RatchetTrail(side, entry, plan, best, trail) \in Int
         /\ trail # NoPrice =>
              AtLeast(side, RatchetTrail(side, entry, plan, best, trail), trail)
<1> DEFINE candidate == best - Gain(side, plan.trail)
           moved == IF trail = NoPrice THEN candidate ELSE Favour(side, trail, candidate)
<1>1. candidate \in Int /\ InitialStop(side, entry, plan) \in Int
  BY GainType DEF Distances, InitialStop
<1>2. moved \in Int /\ (trail # NoPrice => AtLeast(side, moved, trail))
  BY <1>1, FavourType
<1> HIDE DEF candidate
<1>3. RatchetTrail(side, entry, plan, best, trail)
        = Favour(side, moved, InitialStop(side, entry, plan))
  BY DEF RatchetTrail, candidate
<1> HIDE DEF moved
<1>4. /\ Favour(side, moved, InitialStop(side, entry, plan)) \in Int
      /\ AtLeast(side, Favour(side, moved, InitialStop(side, entry, plan)), moved)
  BY <1>1, <1>2, FavourType
<1>5. CASE trail = NoPrice
  BY <1>3, <1>4, <1>5
<1>6. CASE trail # NoPrice
  <2>1. trail \in Int
    BY <1>6
  <2> QED BY <2>1, <1>2, <1>3, <1>4, <1>6, AtLeastTransitive
<1> QED BY <1>5, <1>6

LEMMA StopStateMoves ==
  ASSUME NEW side \in Side, NEW entry \in Int, NEW plan \in Distances,
         NEW row \in Row, NEW ltp \in Int
  PROVE  LET update == UpdateStopState(side, entry, plan, row, ltp)
         IN  /\ update.best \in Int /\ update.active \in BOOLEAN
             /\ update.trail \in Int \cup {NoPrice}
             /\ row.trail # NoPrice => /\ update.trail \in Int
                                       /\ AtLeast(side, update.trail, row.trail)
<1> DEFINE best == Favour(side, row.best, ltp)
           active == TrailingActive(side, entry, plan, best, row.active)
           trail == IF active THEN RatchetTrail(side, entry, plan, best, row.trail)
                              ELSE row.trail
<1>1. row.best \in Int /\ row.trail \in Int \cup {NoPrice}
  BY DEF Row
<1>2. best \in Int
  BY <1>1, FavourType
<1>3. active \in BOOLEAN
  BY DEF TrailingActive
<1>4. \A p \in Int : AtLeast(side, p, p)
  BY DEF AtLeast
<1> HIDE DEF best, active
<1>5. /\ RatchetTrail(side, entry, plan, best, row.trail) \in Int
      /\ row.trail # NoPrice =>
           AtLeast(side, RatchetTrail(side, entry, plan, best, row.trail), row.trail)
  BY <1>1, <1>2, RatchetMoves
<1>6. /\ trail \in Int \cup {NoPrice}
      /\ row.trail # NoPrice => trail \in Int /\ AtLeast(side, trail, row.trail)
  BY <1>1, <1>4, <1>5
<1> HIDE DEF trail
<1>7. /\ UpdateStopState(side, entry, plan, row, ltp).best = best
      /\ UpdateStopState(side, entry, plan, row, ltp).active = active
      /\ UpdateStopState(side, entry, plan, row, ltp).trail = trail
  BY DEF UpdateStopState, best, active, trail
<1> QED BY <1>2, <1>3, <1>6, <1>7

-----------------------------------------------------------------------------
(* Type correctness *)

LEMMA NoRowType == NoRow \in Row /\ Unplanned \in Distances
BY DEF NoRow, Row, RowStatus, Unplanned, Distances

LEMMA NewRowType ==
  ASSUME NEW e \in Entry, NEW qty \in Nat, NEW price \in Int
  PROVE  NewRow(e, qty, price) \in Row /\ NewRow(e, qty, price).exit = 0
<1>1. PlanOf[e] \in Distances /\ SideOf[e] \in Side
  BY PlanOfAssumption, SideAssumption
<1> DEFINE plan == PlanOf[e]
           active == plan.trail > 0 /\ plan.act = 0
           trail == IF active THEN RatchetTrail(SideOf[e], price, plan, price, NoPrice)
                              ELSE NoPrice
<1>2. RatchetTrail(SideOf[e], price, plan, price, NoPrice) \in Int
  BY <1>1, RatchetMoves
<1>3. trail \in Int \cup {NoPrice} /\ active \in BOOLEAN
  BY <1>2
<1>4. \A a \in BOOLEAN, t \in Int \cup {NoPrice} :
        LET row == [NoRow EXCEPT !.status = "ACTIVE", !.qty = qty, !.entry = price,
                      !.plan = plan, !.best = price, !.active = a, !.trail = t]
        IN  row \in Row /\ row.exit = 0
  BY <1>1 DEF NoRow, Row, RowStatus
<1>5. NewRow(e, qty, price)
        = [NoRow EXCEPT !.status = "ACTIVE", !.qty = qty, !.entry = price,
             !.plan = plan, !.best = price, !.active = active, !.trail = trail]
  BY Zenon DEF NewRow
<1> HIDE DEF trail, active
<1> QED BY <1>3, <1>4, <1>5

LEMMA RowChanges ==
  ASSUME NEW row \in Row, NEW qty \in Nat \ {0}, NEW price \in Int
  PROVE  /\ Reduced(row, qty) \in Row /\ Reduced(row, qty).exit = row.exit
         /\ Grown(row, qty, price) \in Row /\ Grown(row, qty, price).exit = row.exit
<1>1. row.qty \in Nat /\ row.entry \in Int
  BY DEF Row
<1>2. row.qty > qty => row.qty - qty \in Nat
  BY <1>1
<1>3. row.qty + qty \in Nat /\ row.qty + qty > 0
  BY <1>1
<1>4. row.entry * row.qty + price * qty \in Int
  BY <1>1
<1>5. (row.entry * row.qty + price * qty) \div (row.qty + qty) \in Int
  BY <1>3, <1>4
<1> QED BY <1>1, <1>2, <1>3, <1>5 DEF Reduced, Grown, Row, RowStatus

LEMMA ColumnType ==
  ASSUME NEW S, NEW now \in S, NEW read, NEW new \in S
  PROVE  Column(now, read, new) \in S
BY DEF Column

LEMMA QuotedType ==
  ASSUME NEW now \in Row, NEW read \in Row, NEW update,
         update.best \in Int, update.active \in BOOLEAN,
         update.trail \in Int \cup {NoPrice}
  PROVE  /\ Quoted(now, read, update) \in Row
         /\ Quoted(now, read, update).exit = now.exit
         /\ Quoted(now, read, update).status = now.status
         /\ Quoted(now, read, update).trail = Column(now.trail, read.trail, update.trail)
<1>1. /\ Column(now.best, read.best, update.best) \in Int
      /\ Column(now.trail, read.trail, update.trail) \in Int \cup {NoPrice}
      /\ Column(now.active, read.active, update.active) \in BOOLEAN
  BY ColumnType DEF Row
<1> QED BY <1>1 DEF Quoted, Row

\* The rows table after one row is written that keeps its exit reference.
LEMMA RowWritten ==
  ASSUME rows \in [Entry -> Row], NEW e \in Entry, NEW row \in Row,
         rows' = [rows EXCEPT ![e] = row],
         row.exit = rows[e].exit \/ row.exit \in DOMAIN exits',
         DOMAIN exits \subseteq DOMAIN exits',
         \A x \in Entry : rows[x].exit \in {0} \cup DOMAIN exits
  PROVE  /\ rows' \in [Entry -> Row]
         /\ \A x \in Entry : rows'[x].exit \in {0} \cup DOMAIN exits'
OBVIOUS

LEMMA StatusType ==
  ASSUME NEW row \in Row, NEW status \in RowStatus
  PROVE  [row EXCEPT !.status = status] \in Row
         /\ [row EXCEPT !.status = status].exit = row.exit
BY DEF Row

LEMMA InitType == Init => TypeOK
<1> SUFFICES ASSUME Init PROVE TypeOK
  OBVIOUS
<1>1. Visiting \in Loop /\ Visiting.pc = "visiting" /\ Idle \in RequestState /\ Idle.pc = "idle"
  BY DEF Visiting, Loop, Idle, RequestState
<1>2. NoRow.exit = 0 /\ DOMAIN NoBatch = {}
  BY DEF NoRow, NoBatch
<1>3. exits \in Seq(ExitOrder)
  BY DEF Init
<1> QED BY <1>1, <1>2, <1>3, NoRowType, BoundAssumption DEF Init, TypeOK

LEMMA FillType ==
  ASSUME TypeOK, NEW e \in Entry, FillEntry(e)
  PROVE  TypeOK'
<1>1. PICK price \in Price : EnsureManagedRisk(e, price)
  BY DEF FillEntry
<1>2. price \in Int /\ QtyOf[e] \in Nat \ {0}
  BY PriceAssumption, QtyAssumption
<1>3. PICK other \in Entry \cup {NoEntry}, own \in Entry :
        LET reduced == IF other = NoEntry THEN rows
                       ELSE [rows EXCEPT ![other] = Reduced(@, QtyOf[e])]
            before  == IF other = NoEntry THEN 0 ELSE rows[other].qty
            left    == IF QtyOf[e] > before THEN QtyOf[e] - before ELSE 0
        IN  rows' = IF left = 0 \/ (SideOf[e] = "SELL" /\ ~Intraday) THEN reduced
                    ELSE [reduced EXCEPT ![own] =
                            IF own = e THEN NewRow(e, left, price) ELSE Grown(@, left, price)]
  BY <1>1 DEF EnsureManagedRisk, ActiveOn
<1> DEFINE reduced == IF other = NoEntry THEN rows
                      ELSE [rows EXCEPT ![other] = Reduced(@, QtyOf[e])]
           before == IF other = NoEntry THEN 0 ELSE rows[other].qty
           left == IF QtyOf[e] > before THEN QtyOf[e] - before ELSE 0
<1>4. before \in Nat
  BY DEF TypeOK, Row
<1>5. left \in Nat
  BY <1>2, <1>4
<1>6. /\ reduced \in [Entry -> Row]
      /\ \A x \in Entry : reduced[x].exit \in {0} \cup DOMAIN exits
  <2>1. CASE other = NoEntry
    BY <2>1 DEF TypeOK
  <2>2. CASE other # NoEntry
    <3>1. Reduced(rows[other], QtyOf[e]) \in Row
          /\ Reduced(rows[other], QtyOf[e]).exit = rows[other].exit
      BY <1>2, <2>2, RowChanges DEF TypeOK
    <3> QED BY <2>2, <3>1 DEF TypeOK
  <2> QED BY <2>1, <2>2
<1> DEFINE written == IF own = e THEN NewRow(e, left, price) ELSE Grown(reduced[own], left, price)
<1> HIDE DEF reduced, left
<1>7. ASSUME left # 0
      PROVE  written \in Row /\ (written.exit = reduced[own].exit \/ written.exit = 0)
  <2>1. left \in Nat \ {0} /\ reduced[own] \in Row
    BY <1>5, <1>6, <1>7
  <2> QED BY <1>2, <2>1, NewRowType, RowChanges
<1>8. rows' = reduced \/ (left # 0 /\ rows' = [reduced EXCEPT ![own] = written])
  BY <1>3 DEF reduced, left
<1> HIDE DEF written
<1>9. rows' \in [Entry -> Row] /\ \A x \in Entry : rows'[x].exit \in {0} \cup DOMAIN exits
  BY <1>6, <1>7, <1>8
<1> QED BY <1>9 DEF FillEntry, TypeOK
\* A new exit order and the row's reference to it.
LEMMA CreateType ==
  ASSUME TypeOK, NEW e \in Entry, NEW by \in {"loop", "request"}, CreateExit(e, by)
  PROVE  /\ exits' \in Seq(ExitOrder)
         /\ DOMAIN exits' = DOMAIN exits \cup {Len(exits) + 1}
         /\ exits'[Len(exits) + 1] = [row |-> e, by |-> by, status |-> "WAITING"]
         /\ \A x \in DOMAIN exits : exits'[x] = exits[x]
         /\ rows' \in [Entry -> Row]
         /\ \A x \in Entry : rows'[x].exit \in {0} \cup DOMAIN exits'
         /\ Len(exits) + 1 \in Nat \ {0}
<1> DEFINE new == [row |-> e, by |-> by, status |-> "WAITING"]
<1>1. new \in ExitOrder /\ exits \in Seq(ExitOrder) /\ exits' = Append(exits, new)
  BY DEF ExitOrder, TypeOK, CreateExit
<1>2. Len(exits) \in Nat /\ DOMAIN exits = 1 .. Len(exits)
  BY <1>1
<1>3. /\ exits' \in Seq(ExitOrder) /\ Len(exits') = Len(exits) + 1
      /\ exits'[Len(exits) + 1] = new
      /\ \A x \in 1 .. Len(exits) : exits'[x] = exits[x]
  BY <1>1, <1>2, AppendProperties
<1>4. DOMAIN exits' = DOMAIN exits \cup {Len(exits) + 1}
  BY <1>2, <1>3
<1>5. /\ [rows[e] EXCEPT !.exit = Len(exits) + 1] \in Row
      /\ [rows[e] EXCEPT !.exit = Len(exits) + 1].exit = Len(exits) + 1
  <2>1. rows[e] \in Row /\ Len(exits) + 1 \in Nat
    BY <1>2 DEF TypeOK
  <2>2. ASSUME NEW row \in Row, NEW n \in Nat
        PROVE  [row EXCEPT !.exit = n] \in Row /\ [row EXCEPT !.exit = n].exit = n
    BY DEF Row
  <2> QED BY <2>1, <2>2
<1>6. rows' = [rows EXCEPT ![e] = [rows[e] EXCEPT !.exit = Len(exits) + 1]]
  BY DEF CreateExit
<1>7. /\ rows' \in [Entry -> Row]
      /\ \A x \in Entry : rows'[x].exit \in {0} \cup DOMAIN exits'
  BY <1>4, <1>5, <1>6 DEF TypeOK
<1> HIDE DEF new
<1> QED BY <1>2, <1>3, <1>4, <1>7 DEF new

LEMMA SubmitType ==
  ASSUME exits \in Seq(ExitOrder), NEW x \in DOMAIN exits,
         NEW status \in {"WAITING", "SENT", "FAILED", "EXECUTED"},
         exits' = [exits EXCEPT ![x].status = status]
  PROVE  /\ exits' \in Seq(ExitOrder) /\ DOMAIN exits' = DOMAIN exits
         /\ \A y \in DOMAIN exits : exits'[y].row = exits[y].row /\ exits'[y].by = exits[y].by
<1>1. exits[x] \in ExitOrder
  OBVIOUS
<1>2. [exits[x] EXCEPT !.status = status] \in ExitOrder
  BY <1>1 DEF ExitOrder
<1>3. exits' = [exits EXCEPT ![x] = [exits[x] EXCEPT !.status = status]]
  OBVIOUS
<1>4. exits' \in Seq(ExitOrder) /\ Len(exits') = Len(exits)
  BY <1>2, <1>3, ExceptSeq
<1>5. DOMAIN exits' = DOMAIN exits
  BY <1>3
<1>6. \A y \in DOMAIN exits : exits'[y].row = exits[y].row /\ exits'[y].by = exits[y].by
  BY <1>1, <1>3 DEF ExitOrder
<1> QED BY <1>4, <1>5, <1>6

LEMMA ExitedType ==
  ASSUME TypeOK, NEW x, rows' = Exited(x)
  PROVE  /\ rows' \in [Entry -> Row]
         /\ \A e \in Entry : rows'[e].exit = rows[e].exit
<1>1. \A e \in Entry : rows[e] \in Row /\ "EXITED" \in RowStatus
  BY DEF TypeOK, RowStatus
<1>2. \A e \in Entry : /\ [rows[e] EXCEPT !.status = "EXITED"] \in Row
                       /\ [rows[e] EXCEPT !.status = "EXITED"].exit = rows[e].exit
  BY <1>1, StatusType
<1> QED BY <1>1, <1>2 DEF Exited

LEMMA FaultType == TypeOK /\ Fault => faults' \in 0 .. MaxFaults
BY BoundAssumption DEF TypeOK, Fault

LEMMA ReportType ==
  ASSUME TypeOK, NEW x \in DOMAIN exits, ExitFilled(x) \/ ExitRejected(x)
  PROVE  TypeOK'
<1>1. exits \in Seq(ExitOrder)
  BY DEF TypeOK
<1>2. exits' \in Seq(ExitOrder) /\ DOMAIN exits' = DOMAIN exits
  <2>1. PICK status \in {"EXECUTED", "FAILED"} : exits' = [exits EXCEPT ![x].status = status]
    BY DEF ExitFilled, ExitRejected
  <2> QED BY <1>1, <2>1, SubmitType
<1>3. rows' = Exited(x) \/ rows' = rows
  BY DEF ExitFilled, ExitRejected
<1>4. rows' \in [Entry -> Row] /\ \A e \in Entry : rows'[e].exit = rows[e].exit
  BY <1>3, ExitedType DEF TypeOK
<1>5. faults' \in 0 .. MaxFaults
  BY FaultType DEF ExitFilled, ExitRejected, TypeOK
<1>6. UNCHANGED <<loop, batch, req, seen, book, filled, asked>>
  BY DEF ExitFilled, ExitRejected, world
<1> QED BY <1>2, <1>4, <1>5, <1>6 DEF TypeOK

LEMMA VisitType ==
  ASSUME TypeOK, NEW e \in Entry, Visits(e)
  PROVE  /\ e \in DOMAIN batch /\ batch[e] \in Row
         /\ DOMAIN batch' = DOMAIN batch \ {e}
         /\ \A x \in DOMAIN batch' : batch'[x] = batch[x]
BY DEF TypeOK, Visits, Drop

LEMMA LoopVisitType ==
  ASSUME TypeOK, NEW e \in Entry, LoopVisit(e)
  PROVE  TypeOK'
<1>0. TypeOK /\ Visits(e)
  BY DEF LoopVisit, LoopReconcile, LoopRecover, LoopManualExit, LoopSkip, LoopQuote
<1>1. /\ e \in DOMAIN batch /\ batch[e] \in Row /\ rows[e] \in Row
      /\ DOMAIN batch' \subseteq Entry /\ \A x \in DOMAIN batch' : batch'[x] \in Row
      /\ \A x \in DOMAIN batch' : batch'[x].exit \in {0} \cup DOMAIN exits
  BY <1>0, VisitType DEF TypeOK
<1>2. CASE LoopReconcile(e)
  <2>1. rows' \in [Entry -> Row] /\ \A x \in Entry : rows'[x].exit = rows[x].exit
    BY <1>2, ExitedType DEF LoopReconcile
  <2> QED BY <1>1, <1>2, <2>1 DEF LoopReconcile, TypeOK, world
<1>3. CASE LoopRecover(e)
  <2>1. CreateExit(e, "loop")
    BY <1>3 DEF LoopRecover
  <2>2. loop' \in Loop /\ loop'.pc = "created" /\ loop'.row = e /\ loop'.exit = Len(exits) + 1
    BY <1>3, <2>1, CreateType DEF LoopRecover, Loop
  <2> QED BY <1>1, <1>3, <2>1, <2>2, CreateType DEF LoopRecover, TypeOK, world
<1>4. CASE LoopManualExit(e)
  <2>1. rows' = [rows EXCEPT ![e] = [rows[e] EXCEPT !.status = "EXITED"]]
    BY <1>4 DEF LoopManualExit
  <2>2. rows' \in [Entry -> Row] /\ \A x \in Entry : rows'[x].exit = rows[x].exit
    BY <1>1, <2>1, StatusType DEF TypeOK, RowStatus
  <2> QED BY <1>1, <1>4, <2>2 DEF LoopManualExit, TypeOK, world
<1>5. CASE LoopSkip(e)
  <2>1. faults' \in 0 .. MaxFaults
    BY <1>5, FaultType DEF LoopSkip, TypeOK
  <2> QED BY <1>1, <1>5, <2>1 DEF LoopSkip, TypeOK, world
<1>6. ASSUME NEW ltp \in Price, LoopQuote(e, ltp)
      PROVE  TypeOK'
  <2> DEFINE read == batch[e]
             update == UpdateStopState(SideOf[e], read.entry, read.plan, read, ltp)
             quoted == Quoted(rows[e], read, update)
             qty == Column(rows[e].qty, read.qty, BookQty(e, read))
  <2>1. ltp \in Int /\ SideOf[e] \in Side /\ read.entry \in Int /\ read.plan \in Distances
    BY <1>1, PriceAssumption, SideAssumption DEF Row
  <2>2. /\ update.best \in Int /\ update.active \in BOOLEAN
        /\ update.trail \in Int \cup {NoPrice}
    BY <1>1, <2>1, StopStateMoves
  <2>3. quoted \in Row /\ quoted.exit = rows[e].exit
    BY <1>1, <2>2, QuotedType
  <2>4. BookQty(e, read) \in Nat
    <3>1. CASE book = NoBook
      BY <1>1, <3>1 DEF BookQty, Row
    <3>2. CASE book # NoBook
      <4>1. Gain(SideOf[e], book) \in Int
        BY <3>2, <2>1, BookAssumption, GainType DEF TypeOK
      <4>2. ~(Gain(SideOf[e], book) <= 0)
        BY <1>6, <3>2 DEF LoopQuote, ClosedInBook
      <4> QED BY <3>2, <4>1, <4>2 DEF BookQty
    <3> QED BY <3>1, <3>2
  <2>5. rows[e].qty \in Nat
    BY <1>1 DEF Row
  <2>6. qty \in Nat
    BY <2>4, <2>5, ColumnType
  <2>7. rows' = [rows EXCEPT ![e] = [quoted EXCEPT !.qty = qty]]
    BY <1>6 DEF LoopQuote
  <2>8. loop' = loop \/ loop' = [pc |-> "triggered", row |-> e, exit |-> 0]
    BY <1>6 DEF LoopQuote
  <2> HIDE DEF quoted, qty, update
  <2>9. [quoted EXCEPT !.qty = qty] \in Row /\ [quoted EXCEPT !.qty = qty].exit = rows[e].exit
    BY <2>3, <2>6 DEF Row
  <2>10. rows' \in [Entry -> Row] /\ \A x \in Entry : rows'[x].exit = rows[x].exit
    BY <2>7, <2>9 DEF TypeOK
  <2>11. /\ loop' \in Loop /\ (loop'.pc = "visiting" \/ loop'.row \in Entry)
         /\ loop'.pc = "created" => loop'.exit \in DOMAIN exits
    BY <2>8 DEF TypeOK, Loop
  <2> QED BY <1>1, <1>6, <2>10, <2>11 DEF LoopQuote, TypeOK, world
<1> QED BY <1>2, <1>3, <1>4, <1>5, <1>6 DEF LoopVisit
LEMMA LoopType ==
  ASSUME TypeOK, LoopRead \/ LoopClaim \/ LoopCreate \/ LoopCreateFails \/ LoopSubmit
  PROVE  TypeOK'
<1>0. Visiting \in Loop /\ Visiting.pc = "visiting"
  BY DEF Visiting, Loop
<1>1. CASE LoopRead
  <2>1. /\ DOMAIN batch' \subseteq Entry /\ \A e \in DOMAIN batch' : batch'[e] \in Row
        /\ \A e \in DOMAIN batch' : batch'[e].exit \in {0} \cup DOMAIN exits
    BY <1>1 DEF LoopRead, TypeOK
  <2> QED BY <1>1, <2>1 DEF LoopRead, TypeOK, world
<1>2. CASE LoopClaim
  <2>1. CASE Claims(loop.row)
    <3>1. loop.row \in Entry /\ rows[loop.row] \in Row /\ loop \in Loop
      BY <1>2 DEF LoopClaim, TypeOK
    <3>2. rows' = [rows EXCEPT ![loop.row] = [rows[loop.row] EXCEPT !.status = "EXITING"]]
      BY <1>2, <2>1 DEF LoopClaim
    <3>3. rows' \in [Entry -> Row] /\ \A x \in Entry : rows'[x].exit = rows[x].exit
      BY <3>1, <3>2, StatusType DEF TypeOK, RowStatus
    <3>4. loop' = [loop EXCEPT !.pc = "claimed"]
      BY <1>2, <2>1 DEF LoopClaim
    <3>5. loop' \in Loop /\ loop'.pc = "claimed" /\ loop'.row = loop.row
      BY <3>1, <3>4 DEF Loop
    <3> QED BY <1>2, <3>1, <3>3, <3>5 DEF LoopClaim, TypeOK, world
  <2>2. CASE ~Claims(loop.row)
    BY <1>0, <1>2, <2>2 DEF LoopClaim, TypeOK, world
  <2> QED BY <2>1, <2>2
<1>3. CASE LoopCreate
  <2>1. loop.row \in Entry /\ CreateExit(loop.row, "loop") /\ loop \in Loop
    BY <1>3 DEF LoopCreate, TypeOK
  <2>2. /\ exits' \in Seq(ExitOrder)
        /\ DOMAIN exits' = DOMAIN exits \cup {Len(exits) + 1}
        /\ rows' \in [Entry -> Row]
        /\ \A x \in Entry : rows'[x].exit \in {0} \cup DOMAIN exits'
        /\ Len(exits) + 1 \in Nat
    BY <2>1, CreateType
  <2>3. loop' = [loop EXCEPT !.pc = "created", !.exit = Len(exits) + 1]
    BY <1>3 DEF LoopCreate
  <2>4. loop' \in Loop /\ loop'.row = loop.row /\ loop'.exit = Len(exits) + 1
    BY <2>1, <2>2, <2>3 DEF Loop
  <2> QED BY <1>3, <2>1, <2>2, <2>4 DEF LoopCreate, TypeOK, world
<1>4. CASE LoopCreateFails
  BY <1>0, <1>4, FaultType DEF LoopCreateFails, TypeOK, world
<1>5. CASE LoopSubmit
  <2>1. exits \in Seq(ExitOrder) /\ loop.exit \in DOMAIN exits
    BY <1>5 DEF LoopSubmit, TypeOK
  <2>2. exits' \in Seq(ExitOrder) /\ DOMAIN exits' = DOMAIN exits
    BY <1>5, <2>1, SubmitType DEF LoopSubmit, SubmitExit
  <2> QED BY <1>0, <1>5, <2>2 DEF LoopSubmit, TypeOK, world
<1> QED BY <1>1, <1>2, <1>3, <1>4, <1>5

LEMMA UsedType ==
  ASSUME NEW row \in Row, NEW op
  PROVE  Used(op, row) \in Row /\ Used(op, row).status = row.status
<1>1. row.status \in RowStatus
  BY DEF Row
<1> QED BY <1>1, NoRowType, StatusType DEF Used, Row, NoRow

\* A request takes its next step.
LEMMA RequestTypes ==
  ASSUME TypeOK, NEW r \in Request, req[r].pc # "idle"
  PROVE  /\ req[r].row \in Entry /\ rows[req[r].row] \in Row /\ seen[r] \in Row
         /\ \A pc \in {"mark", "create"} : req' = [req EXCEPT ![r].pc = pc] =>
              /\ req' \in [Request -> RequestState]
              /\ \A q \in Request : req'[q].pc = "idle" \/ req'[q].row \in Entry
              /\ \A q \in Request : req'[q].pc = "created" => req'[q].exit \in DOMAIN exits
         /\ Ends(r) =>
              /\ req' \in [Request -> RequestState] /\ seen' \in [Request -> Row]
              /\ \A q \in Request : req'[q].pc = "idle" \/ req'[q].row \in Entry
              /\ \A q \in Request : req'[q].pc = "created" => req'[q].exit \in DOMAIN exits
<1>1. req[r].row \in Entry /\ rows[req[r].row] \in Row /\ seen[r] \in Row
  BY DEF TypeOK
<1>2. ASSUME NEW pc \in {"mark", "create"}, req' = [req EXCEPT ![r].pc = pc]
      PROVE  /\ req' \in [Request -> RequestState]
             /\ \A q \in Request : req'[q].pc = "idle" \/ req'[q].row \in Entry
             /\ \A q \in Request : req'[q].pc = "created" => req'[q].exit \in DOMAIN exits
  BY <1>1, <1>2 DEF TypeOK, RequestState
<1>3. ASSUME Ends(r)
      PROVE  /\ req' \in [Request -> RequestState] /\ seen' \in [Request -> Row]
             /\ \A q \in Request : req'[q].pc = "idle" \/ req'[q].row \in Entry
             /\ \A q \in Request : req'[q].pc = "created" => req'[q].exit \in DOMAIN exits
  <2>1. Idle \in RequestState /\ Idle.pc = "idle"
    BY DEF Idle, RequestState
  <2> QED BY <1>3, <2>1, NoRowType DEF Ends, TypeOK
<1> QED BY <1>1, <1>2, <1>3

LEMMA AskType ==
  ASSUME TypeOK, NEW r \in Request, NEW op \in {"pause", "resume", "mark", "edit"},
         NEW e \in Entry, Ask(r, op, e)
  PROVE  TypeOK'
<1>1. [pc |-> op, row |-> e, exit |-> 0] \in RequestState
  BY DEF RequestState
<1>2. Used(op, rows[e]) \in Row
  BY UsedType DEF TypeOK
<1>3. req' \in [Request -> RequestState] /\ seen' \in [Request -> Row]
  BY <1>1, <1>2 DEF Ask, TypeOK
<1>4. asked' \in 0 .. MaxAsked
  BY BoundAssumption DEF Ask, TypeOK
<1>5. \A q \in Request : /\ req'[q].pc = "idle" \/ req'[q].row \in Entry
                         /\ req'[q].pc = "created" => req'[q].exit \in DOMAIN exits
  BY DEF Ask, TypeOK
<1> QED BY <1>3, <1>4, <1>5 DEF Ask, TypeOK, world

LEMMA SetStatusType ==
  ASSUME TypeOK, NEW r \in Request, NEW pc, pc # "idle", NEW status \in RowStatus,
         SetStatus(r, pc, status)
  PROVE  /\ rows' \in [Entry -> Row]
         /\ \A x \in Entry : /\ rows'[x].exit = rows[x].exit
                             /\ rows'[x].trail = rows[x].trail
                             /\ rows'[x] # rows[x] =>
                                  x = req[r].row /\ seen[r].status # status
<1> DEFINE e == req[r].row
           new == Column(rows[e].status, seen[r].status, status)
<1>1. e \in Entry /\ rows[e] \in Row /\ rows[e].status \in RowStatus
  BY RequestTypes DEF SetStatus, Row
<1>2. new \in RowStatus
  BY <1>1, ColumnType
<1>3. rows' = [rows EXCEPT ![e] = [rows[e] EXCEPT !.status = new]]
  BY DEF SetStatus
<1>4. new = rows[e].status \/ seen[r].status # status
  BY DEF Column
<1> HIDE DEF e, new
<1>5. /\ [rows[e] EXCEPT !.status = new] \in Row
      /\ [rows[e] EXCEPT !.status = new].exit = rows[e].exit
      /\ [rows[e] EXCEPT !.status = new].trail = rows[e].trail
      /\ new = rows[e].status => [rows[e] EXCEPT !.status = new] = rows[e]
  BY <1>1, <1>2 DEF Row
<1> QED BY <1>1, <1>3, <1>4, <1>5 DEF TypeOK, e

LEMMA RequestStepType ==
  ASSUME TypeOK, NEW r \in Request, RequestStep(r)
  PROVE  TypeOK'
<1>1. CASE Pause(r)
  BY <1>1, SetStatusType, RequestTypes DEF Pause, SetStatus, RowStatus, TypeOK, world
<1>2. CASE Resume(r)
  BY <1>2, SetStatusType, RequestTypes DEF Resume, SetStatus, RowStatus, TypeOK, world
<1>3. CASE RequestMark(r)
  BY <1>3, SetStatusType, RequestTypes DEF RequestMark, SetStatus, RowStatus, TypeOK, world
<1>4. CASE RequestCreate(r)
  <2>1. req[r].row \in Entry /\ CreateExit(req[r].row, "request") /\ req[r] \in RequestState
    BY <1>4, RequestTypes DEF RequestCreate, TypeOK
  <2>2. /\ exits' \in Seq(ExitOrder)
        /\ DOMAIN exits' = DOMAIN exits \cup {Len(exits) + 1}
        /\ rows' \in [Entry -> Row]
        /\ \A x \in Entry : rows'[x].exit \in {0} \cup DOMAIN exits'
        /\ Len(exits) + 1 \in Nat
    BY <2>1, CreateType
  <2>3. req' = [req EXCEPT ![r] = [req[r] EXCEPT !.pc = "created", !.exit = Len(exits) + 1]]
    BY <1>4 DEF RequestCreate, TypeOK
  <2>4. /\ [req[r] EXCEPT !.pc = "created", !.exit = Len(exits) + 1] \in RequestState
        /\ [req[r] EXCEPT !.pc = "created", !.exit = Len(exits) + 1].row = req[r].row
        /\ [req[r] EXCEPT !.pc = "created", !.exit = Len(exits) + 1].exit = Len(exits) + 1
    BY <2>1, <2>2 DEF RequestState
  <2>5. /\ req' \in [Request -> RequestState]
        /\ \A q \in Request : req'[q].pc = "idle" \/ req'[q].row \in Entry
        /\ \A q \in Request : req'[q].pc = "created" => req'[q].exit \in DOMAIN exits'
    BY <2>1, <2>2, <2>3, <2>4 DEF TypeOK
  <2> QED BY <1>4, <2>2, <2>5 DEF RequestCreate, TypeOK, world
<1>5. CASE RequestSubmit(r)
  <2>1. exits \in Seq(ExitOrder) /\ req[r].exit \in DOMAIN exits /\ req[r].pc # "idle"
    BY <1>5 DEF RequestSubmit, TypeOK
  <2>2. exits' \in Seq(ExitOrder) /\ DOMAIN exits' = DOMAIN exits
    BY <1>5, <2>1, SubmitType DEF RequestSubmit, SubmitExit
  <2> QED BY <1>5, <2>1, <2>2, RequestTypes DEF RequestSubmit, TypeOK, world
<1>6. ASSUME NEW plan \in Plan, NEW price \in Price \cup {seen[r].entry}, Edit(r, plan, price)
      PROVE  TypeOK'
  <2> DEFINE e == req[r].row
             read == seen[r]
             new == [plan EXCEPT !.tp = read.plan.tp]
             update == UpdateStopState(SideOf[e], read.entry, new, read, price)
             quoted == Quoted(rows[e], read, update)
             kept == Column(rows[e].plan, read.plan, new)
             row == [quoted EXCEPT !.plan = kept]
  <2>1. e \in Entry /\ rows[e] \in Row /\ read \in Row /\ req[r].pc # "idle"
    BY <1>6, RequestTypes DEF Edit
  <2>2. /\ price \in Int /\ SideOf[e] \in Side /\ read.entry \in Int
        /\ rows[e].plan \in Distances /\ read.plan \in Distances /\ plan \in Distances
    BY <2>1, PriceAssumption, SideAssumption, PlanAssumption DEF Row
  <2>3. new \in Distances
    BY <2>2 DEF Distances
  <2> HIDE DEF new
  <2>4. /\ update.best \in Int /\ update.active \in BOOLEAN
        /\ update.trail \in Int \cup {NoPrice}
    BY <2>1, <2>2, <2>3, StopStateMoves
  <2>5. quoted \in Row /\ quoted.exit = rows[e].exit
    BY <2>1, <2>4, QuotedType
  <2>6. kept \in Distances
    BY <2>2, <2>3, ColumnType
  <2>7. /\ rows' = [rows EXCEPT ![e] = row]
        /\ \/ /\ req' = [req EXCEPT ![r].pc = "mark"]
              /\ seen' = [seen EXCEPT ![r] = Used("mark", @)]
           \/ Ends(r)
    BY <1>6 DEF Edit, new
  <2> HIDE DEF quoted, kept
  <2>8. row \in Row /\ row.exit = rows[e].exit
    BY <2>5, <2>6 DEF Row
  <2> HIDE DEF row
  <2>9. rows' \in [Entry -> Row] /\ \A x \in Entry : rows'[x].exit = rows[x].exit
    BY <2>1, <2>7, <2>8 DEF TypeOK
  <2>10. Used("mark", read) \in Row
    BY <2>1, UsedType
  <2>11. /\ req' \in [Request -> RequestState] /\ seen' \in [Request -> Row]
         /\ \A q \in Request : req'[q].pc = "idle" \/ req'[q].row \in Entry
         /\ \A q \in Request : req'[q].pc = "created" => req'[q].exit \in DOMAIN exits
    BY <2>1, <2>7, <2>10, RequestTypes DEF TypeOK
  <2> QED BY <1>6, <2>9, <2>11 DEF Edit, TypeOK, world
<1> QED BY <1>1, <1>2, <1>3, <1>4, <1>5, <1>6 DEF RequestStep

LEMMA WorldType ==
  ASSUME TypeOK, SyncPositions \/ Crash
  PROVE  TypeOK'
<1>1. CASE SyncPositions
  BY <1>1 DEF SyncPositions, TypeOK
<1>2. CASE Crash
  <2>1. Visiting \in Loop /\ Visiting.pc = "visiting" /\ Idle \in RequestState /\ Idle.pc = "idle"
    BY DEF Visiting, Loop, Idle, RequestState
  <2>2. faults' \in 0 .. MaxFaults /\ DOMAIN NoBatch = {}
    BY <1>2, FaultType DEF Crash, NoBatch
  <2> QED BY <1>2, <2>1, <2>2, NoRowType DEF Crash, TypeOK, world
<1> QED BY <1>1, <1>2

\* Every step keeps the types.
LEMMA NextType == TypeOK /\ [Next]_vars => TypeOK'
<1> SUFFICES ASSUME TypeOK, [Next]_vars PROVE TypeOK'
  OBVIOUS
<1>1. CASE UNCHANGED vars
  BY <1>1 DEF vars, TypeOK
<1>2. CASE LoopStep
  BY <1>2, LoopType, LoopVisitType DEF LoopStep
<1>3. CASE Next /\ ~LoopStep
  BY <1>3, FillType, ReportType, LoopType, AskType, RequestStepType, WorldType DEF Next
<1> QED BY <1>1, <1>2, <1>3

\* The state of the managed exits is well formed in every reachable state:
\* quantities are never negative, and every reference to an exit order is to
\* one that exists.
THEOREM TypeCorrect == Spec => []TypeOK
<1> QED BY InitType, NextType, PTL DEF Spec
-----------------------------------------------------------------------------
(* One exit by the loop.  LoopExitsOnce says nothing of the copies the loop    *)
(* works on, so it is not inductive; what the copies and the loop's place in   *)
(* its pass tell about the exit orders is.                                     *)

\* Nothing knows an entry order before its fill.
Fresh ==
  \A e \in Entry \ filled :
    /\ rows[e] = NoRow /\ e \notin DOMAIN batch /\ loop.row # e
    /\ \A r \in Request : req[r].row # e
    /\ LoopExitsOf(e) = {}

\* A row whose exit the loop has made refers to an exit order.
Pinned == \A e \in Entry : LoopExitsOf(e) # {} => rows[e].exit # 0

\* The same of the rows the pass has still to visit.
PinnedInBatch == \A e \in DOMAIN batch : LoopExitsOf(e) # {} => batch[e].exit # 0

\* The row the loop is busy with has left the batch, and is claimed only while
\* it has no exit by the loop.
Busy ==
  loop.pc \in {"triggered", "claimed"} =>
    /\ loop.row \notin DOMAIN batch
    /\ loop.pc = "claimed" => LoopExitsOf(loop.row) = {}

\* A request that is about to write a status has read one that is not EXITED.
Answered ==
  \A r \in Request :
    req[r].pc \in {"pause", "resume", "mark", "edit"} => seen[r].status # "EXITED"

SingleExit ==
  TypeOK /\ Fresh /\ Pinned /\ PinnedInBatch /\ Busy /\ Answered /\ LoopExitsOnce

LEMMA SameExits ==
  ASSUME DOMAIN exits' = DOMAIN exits,
         \A x \in DOMAIN exits : exits'[x].row = exits[x].row /\ exits'[x].by = exits[x].by
  PROVE  \A e : LoopExitsOf(e)' = LoopExitsOf(e)
BY DEF LoopExitsOf

LEMMA NewExit ==
  ASSUME TypeOK, NEW e \in Entry, NEW by \in {"loop", "request"}, CreateExit(e, by)
  PROVE  /\ by = "request" => \A x : LoopExitsOf(x)' = LoopExitsOf(x)
         /\ by = "loop" =>
              /\ LoopExitsOf(e)' = LoopExitsOf(e) \cup {Len(exits) + 1}
              /\ \A x : x # e => LoopExitsOf(x)' = LoopExitsOf(x)
         /\ rows'[e].exit # 0
         /\ \A x \in Entry : x # e => rows'[x] = rows[x]
         /\ rows'[e].status = rows[e].status /\ rows'[e].trail = rows[e].trail
<1> DEFINE n == Len(exits) + 1
<1>1. /\ DOMAIN exits' = DOMAIN exits \cup {n}
      /\ exits'[n] = [row |-> e, by |-> by, status |-> "WAITING"]
      /\ \A x \in DOMAIN exits : exits'[x] = exits[x]
      /\ n \in Nat \ {0}
  BY CreateType
<1>2. n \notin DOMAIN exits
  <2>1. exits \in Seq(ExitOrder)
    BY DEF TypeOK
  <2> QED BY <2>1
<1>3. rows' = [rows EXCEPT ![e] = [rows[e] EXCEPT !.exit = n]] /\ rows[e] \in Row
  BY DEF CreateExit, TypeOK
<1> HIDE DEF n
<1>4. /\ rows'[e].exit = n /\ \A x \in Entry : x # e => rows'[x] = rows[x]
      /\ rows'[e].status = rows[e].status /\ rows'[e].trail = rows[e].trail
  BY <1>3 DEF TypeOK, Row
<1>5. by = "request" => \A x : LoopExitsOf(x)' = LoopExitsOf(x)
  BY <1>1 DEF LoopExitsOf
<1>6. by = "loop" => /\ LoopExitsOf(e)' = LoopExitsOf(e) \cup {n}
                     /\ \A x : x # e => LoopExitsOf(x)' = LoopExitsOf(x)
  BY <1>1, <1>2 DEF LoopExitsOf
<1> QED BY <1>1, <1>4, <1>5, <1>6 DEF n

\* What a step may do to the rows while no exit order is made.
LEMMA Kept ==
  ASSUME SingleExit, TypeOK', Fresh', \A e : LoopExitsOf(e)' = LoopExitsOf(e),
         \A e \in Entry : rows'[e].exit = rows[e].exit \/ LoopExitsOf(e) = {},
         DOMAIN batch' \subseteq DOMAIN batch, \A e \in DOMAIN batch' : batch'[e] = batch[e],
         Busy', Answered'
  PROVE  SingleExit'
<1>1. Pinned'
  BY DEF SingleExit, Pinned
<1>2. PinnedInBatch'
  BY DEF SingleExit, PinnedInBatch
<1>3. LoopExitsOnce'
  BY DEF SingleExit, LoopExitsOnce
<1> QED BY <1>1, <1>2, <1>3 DEF SingleExit

LEMMA ReducedGrown ==
  ASSUME NEW row \in Row, row.status = "ACTIVE", NEW qty \in Nat \ {0}, NEW price \in Int
  PROVE  /\ Reduced(row, qty).trail = row.trail /\ Reduced(row, qty).exit = row.exit
         /\ Grown(row, qty, price).trail = row.trail /\ Grown(row, qty, price).exit = row.exit
         /\ Grown(row, qty, price).status = "ACTIVE"
BY DEF Reduced, Grown, Row

\* A fill writes the row of its own order and rows that are ACTIVE.
LEMMA FillEffect ==
  ASSUME TypeOK, Fresh, NEW e \in Entry, FillEntry(e)
  PROVE  \A x \in Entry :
           \/ rows'[x] = rows[x]
           \/ x = e /\ rows[x] = NoRow /\ LoopExitsOf(x) = {}
           \/ /\ rows[x].status = "ACTIVE" /\ x \in filled
              /\ rows'[x].exit = rows[x].exit /\ rows'[x].trail = rows[x].trail
<1>1. PICK price \in Price : EnsureManagedRisk(e, price)
  BY DEF FillEntry
<1>2. price \in Int /\ QtyOf[e] \in Nat \ {0}
  BY PriceAssumption, QtyAssumption
<1>3. PICK other \in IF ActiveOn(Opposite(SideOf[e])) = {} THEN {NoEntry}
                      ELSE ActiveOn(Opposite(SideOf[e])),
           own \in IF ActiveOn(SideOf[e]) = {} THEN {e} ELSE ActiveOn(SideOf[e]) :
        LET reduced == IF other = NoEntry THEN rows
                       ELSE [rows EXCEPT ![other] = Reduced(@, QtyOf[e])]
            before  == IF other = NoEntry THEN 0 ELSE rows[other].qty
            left    == IF QtyOf[e] > before THEN QtyOf[e] - before ELSE 0
        IN  rows' = IF left = 0 \/ (SideOf[e] = "SELL" /\ ~Intraday) THEN reduced
                    ELSE [reduced EXCEPT ![own] =
                            IF own = e THEN NewRow(e, left, price) ELSE Grown(@, left, price)]
  BY <1>1 DEF EnsureManagedRisk
<1> DEFINE reduced == IF other = NoEntry THEN rows
                      ELSE [rows EXCEPT ![other] = Reduced(@, QtyOf[e])]
           before == IF other = NoEntry THEN 0 ELSE rows[other].qty
           left == IF QtyOf[e] > before THEN QtyOf[e] - before ELSE 0
           written == IF own = e THEN NewRow(e, left, price) ELSE Grown(reduced[own], left, price)
<1>4. e \notin filled /\ rows[e] = NoRow /\ LoopExitsOf(e) = {} /\ NoRow.status = "NONE"
  BY DEF FillEntry, Fresh, NoRow
<1>5. ASSUME NEW x \in Entry, rows[x].status = "ACTIVE"
      PROVE  x \in filled /\ rows[x] \in Row
  BY <1>4, <1>5 DEF Fresh, TypeOK, NoRow
<1>6. /\ Opposite(SideOf[e]) # SideOf[e]
      /\ other # NoEntry => /\ other \in Entry /\ rows[other].status = "ACTIVE"
                            /\ SideOf[other] # SideOf[e]
      /\ own = e \/ (own \in Entry /\ rows[own].status = "ACTIVE" /\ SideOf[own] = SideOf[e])
  BY <1>3, SideAssumption DEF ActiveOn, Opposite, Side
<1>7. /\ before \in Nat /\ left \in Nat
  <2>1. before \in Nat
    BY <1>5, <1>6 DEF Row
  <2> QED BY <1>2, <2>1
<1>8. \A x \in Entry :
        \/ reduced[x] = rows[x]
        \/ /\ x = other /\ other # NoEntry
           /\ reduced[x].exit = rows[x].exit /\ reduced[x].trail = rows[x].trail
  <2>1. CASE other = NoEntry
    BY <2>1
  <2>2. CASE other # NoEntry
    BY <1>2, <1>5, <1>6, <2>2, ReducedGrown DEF TypeOK
  <2> QED BY <2>1, <2>2
<1>9. /\ reduced = [x \in Entry |-> reduced[x]]
      /\ own # other
      /\ reduced[own] = rows[own]
  <2>1. own # other /\ own \in Entry
    BY <1>4, <1>6, SentinelAssumption
  <2>2. reduced[own] = rows[own]
    BY <1>8, <2>1
  <2>3. reduced = [x \in Entry |-> reduced[x]]
    BY <1>6 DEF TypeOK
  <2> QED BY <2>1, <2>2, <2>3
<1>10. rows' = reduced \/ (left # 0 /\ rows' = [reduced EXCEPT ![own] = written])
  BY <1>3
<1> HIDE DEF reduced, left, before
<1>11. left # 0 => own = e \/ (written.exit = rows[own].exit /\ written.trail = rows[own].trail)
  <2>1. CASE own # e /\ left # 0
    <3>1. left \in Nat \ {0} /\ rows[own] \in Row /\ written = Grown(rows[own], left, price)
      BY <1>5, <1>6, <1>7, <1>9, <2>1
    <3> QED BY <1>2, <1>6, <2>1, <3>1, ReducedGrown
  <2> QED BY <2>1
<1> HIDE DEF written
<1> SUFFICES ASSUME NEW x \in Entry
             PROVE  \/ rows'[x] = rows[x]
                    \/ x = e /\ rows[x] = NoRow /\ LoopExitsOf(x) = {}
                    \/ /\ rows[x].status = "ACTIVE" /\ x \in filled
                       /\ rows'[x].exit = rows[x].exit /\ rows'[x].trail = rows[x].trail
  OBVIOUS
<1>12. CASE rows'[x] = reduced[x]
  BY <1>5, <1>6, <1>8, <1>12
<1>13. CASE rows'[x] # reduced[x]
  <2>1. x = own /\ left # 0 /\ rows'[x] = written
    BY <1>9, <1>10, <1>13
  <2>2. CASE own = e
    BY <1>4, <2>1, <2>2
  <2>3. CASE own # e
    BY <1>5, <1>6, <1>11, <2>1, <2>3
  <2> QED BY <2>2, <2>3
<1> QED BY <1>12, <1>13
\* What ClosedStaysClosed and TrailRatchets say of one row.
Moves(x) ==
  /\ rows[x].status = "EXITED" /\ rows'[x].status # "EXITED"
       => \E r \in Request : req[r].row = x /\ seen[r].status # "EXITED"
  /\ rows[x].trail # NoPrice /\ ~Edited(x)
       => /\ rows'[x].trail # NoPrice
          /\ AtLeast(SideOf[x], rows'[x].trail, rows[x].trail)

LEMMA StillMoves ==
  ASSUME TypeOK, NEW x \in Entry, rows'[x].trail = rows[x].trail,
         rows[x].status = "EXITED" => rows'[x].status = "EXITED"
  PROVE  Moves(x)
<1>1. rows[x].trail # NoPrice => rows[x].trail \in Int
  BY DEF TypeOK, Row
<1>2. rows[x].trail # NoPrice => AtLeast(SideOf[x], rows[x].trail, rows[x].trail)
  BY <1>1 DEF AtLeast
<1> QED BY <1>2 DEF Moves

LEMMA FreshKept ==
  ASSUME SingleExit, filled' = filled,
         \A x \in Entry : rows'[x] = rows[x] \/ x \in filled,
         DOMAIN batch' \cap Entry \subseteq filled \cup DOMAIN batch,
         loop'.row \in {loop.row, NoEntry} \cup filled,
         \A r \in Request : req'[r].row \in {req[r].row, NoEntry} \cup filled,
         \A x \in Entry : LoopExitsOf(x)' = LoopExitsOf(x) \/ x \in filled
  PROVE  Fresh'
BY SentinelAssumption DEF SingleExit, Fresh

LEMMA ActiveFilled ==
  ASSUME SingleExit, NEW x \in Entry, rows[x].status # "NONE"
  PROVE  x \in filled
BY DEF SingleExit, Fresh, NoRow

LEMMA FillSingle ==
  ASSUME SingleExit, NEW e \in Entry, FillEntry(e)
  PROVE  SingleExit' /\ \A x \in Entry : Moves(x)
<1>1. TypeOK /\ Fresh
  BY DEF SingleExit
<1>2. TypeOK'
  BY <1>1, FillType
<1>3. \A x : LoopExitsOf(x)' = LoopExitsOf(x)
  BY DEF FillEntry, LoopExitsOf
<1>4. \A x \in Entry :
        \/ rows'[x] = rows[x]
        \/ x = e /\ rows[x] = NoRow /\ LoopExitsOf(x) = {}
        \/ /\ rows[x].status = "ACTIVE" /\ x \in filled
           /\ rows'[x].exit = rows[x].exit /\ rows'[x].trail = rows[x].trail
  BY <1>1, FillEffect
<1>5. Fresh'
  BY <1>1, <1>3, <1>4 DEF Fresh, FillEntry
<1>6. SingleExit'
  <2>1. Busy' /\ Answered'
    BY <1>3 DEF SingleExit, Busy, Answered, FillEntry
  <2> QED BY <1>2, <1>3, <1>4, <1>5, <2>1, Kept DEF FillEntry
<1>7. ASSUME NEW x \in Entry PROVE Moves(x)
  <2>1. CASE rows'[x] = rows[x]
    BY <1>1, <2>1, StillMoves
  <2>2. CASE rows[x] = NoRow
    BY <2>2 DEF Moves, NoRow
  <2>3. CASE rows[x].status = "ACTIVE" /\ rows'[x].trail = rows[x].trail
    BY <1>1, <2>3, StillMoves
  <2> QED BY <1>4, <2>1, <2>2, <2>3
<1> QED BY <1>6, <1>7

LEMMA ExitedEffect ==
  ASSUME TypeOK, NEW n, rows' = Exited(n)
  PROVE  \A x \in Entry : /\ rows'[x] = rows[x] \/ rows[x].status \in {"ACTIVE", "EXITING"}
                          /\ rows'[x].exit = rows[x].exit /\ rows'[x].trail = rows[x].trail
                          /\ rows[x].status = "EXITED" => rows'[x].status = "EXITED"
BY DEF Exited, TypeOK, Row

LEMMA ReportSingle ==
  ASSUME SingleExit, NEW n \in DOMAIN exits, ExitFilled(n) \/ ExitRejected(n)
  PROVE  SingleExit' /\ \A x \in Entry : Moves(x)
<1>1. TypeOK /\ TypeOK'
  BY ReportType DEF SingleExit
<1>2. \A x : LoopExitsOf(x)' = LoopExitsOf(x)
  <2>1. PICK status \in {"EXECUTED", "FAILED"} : exits' = [exits EXCEPT ![n].status = status]
    BY DEF ExitFilled, ExitRejected
  <2>2. exits \in Seq(ExitOrder)
    BY <1>1 DEF TypeOK
  <2> QED BY <2>1, <2>2, SubmitType, SameExits
<1>3. rows' = rows \/ rows' = Exited(n)
  BY DEF ExitFilled, ExitRejected
<1>4. \A x \in Entry : /\ rows'[x] = rows[x] \/ rows[x].status \in {"ACTIVE", "EXITING"}
                       /\ rows'[x].exit = rows[x].exit /\ rows'[x].trail = rows[x].trail
                       /\ rows[x].status = "EXITED" => rows'[x].status = "EXITED"
  BY <1>1, <1>3, ExitedEffect
<1>5. UNCHANGED <<loop, batch, req, seen, filled>>
  BY DEF ExitFilled, ExitRejected, world
<1>6. Fresh'
  BY <1>2, <1>4, <1>5, ActiveFilled, FreshKept
<1>7. Busy' /\ Answered'
  BY <1>2, <1>5 DEF SingleExit, Busy, Answered
<1>8. SingleExit'
  BY <1>1, <1>2, <1>4, <1>5, <1>6, <1>7, Kept
<1> QED BY <1>1, <1>4, <1>8, StillMoves

LEMMA BatchFilled ==
  ASSUME SingleExit, NEW e \in Entry, e \in DOMAIN batch
  PROVE  e \in filled
BY DEF SingleExit, Fresh

LEMMA VisitSingle ==
  ASSUME SingleExit, NEW e \in Entry, LoopVisit(e)
  PROVE  SingleExit' /\ \A x \in Entry : Moves(x)
<1>0. TypeOK /\ TypeOK' /\ Visits(e)
  BY LoopVisitType
     DEF SingleExit, LoopVisit, LoopReconcile, LoopRecover, LoopManualExit, LoopSkip, LoopQuote
<1>1. /\ e \in DOMAIN batch /\ e \in filled /\ batch[e] \in Row /\ rows[e] \in Row
      /\ DOMAIN batch' = DOMAIN batch \ {e} /\ \A x \in DOMAIN batch' : batch'[x] = batch[x]
  BY <1>0, VisitType, BatchFilled DEF TypeOK
<1>2. UNCHANGED <<req, seen, filled>> /\ loop.pc = "visiting"
  BY DEF LoopVisit, LoopReconcile, LoopRecover, LoopManualExit, LoopSkip, LoopQuote, world, Visits
<1>3. Answered'
  BY <1>2 DEF SingleExit, Answered
<1>4. CASE LoopRecover(e)
  <2>1. CreateExit(e, "loop") /\ batch[e].exit = 0
    BY <1>4 DEF LoopRecover
  <2>2. /\ LoopExitsOf(e)' = LoopExitsOf(e) \cup {Len(exits) + 1}
        /\ \A x : x # e => LoopExitsOf(x)' = LoopExitsOf(x)
        /\ rows'[e].exit # 0 /\ \A x \in Entry : x # e => rows'[x] = rows[x]
        /\ rows'[e].status = rows[e].status /\ rows'[e].trail = rows[e].trail
    BY <1>0, <2>1, NewExit
  <2>3. LoopExitsOf(e) = {}
    BY <1>1, <2>1 DEF SingleExit, PinnedInBatch
  <2>4. loop'.row = e /\ loop'.pc = "created"
    BY <1>4 DEF LoopRecover
  <2>5. Fresh'
    BY <1>1, <1>2, <2>2, <2>4, FreshKept
  <2>6. LoopExitsOnce' /\ Pinned' /\ PinnedInBatch' /\ Busy'
    BY <1>1, <2>2, <2>3, <2>4 DEF SingleExit, LoopExitsOnce, Pinned, PinnedInBatch, Busy
  <2>7. ASSUME NEW x \in Entry PROVE Moves(x)
    BY <1>0, <2>2, StillMoves
  <2> QED BY <1>0, <1>3, <2>5, <2>6, <2>7 DEF SingleExit
<1>5. ASSUME LoopReconcile(e) \/ LoopManualExit(e) \/ LoopSkip(e)
      PROVE  SingleExit' /\ \A x \in Entry : Moves(x)
  <2>1. UNCHANGED <<exits, loop>>
    BY <1>5 DEF LoopReconcile, LoopManualExit, LoopSkip
  <2>2. \A x : LoopExitsOf(x)' = LoopExitsOf(x)
    BY <2>1 DEF LoopExitsOf
  <2>3. \A x \in Entry : /\ rows'[x] = rows[x] \/ x \in filled
                         /\ rows'[x].exit = rows[x].exit /\ rows'[x].trail = rows[x].trail
                         /\ rows[x].status = "EXITED" => rows'[x].status = "EXITED"
    <3>1. CASE LoopReconcile(e)
      BY <1>0, <3>1, ExitedEffect, ActiveFilled DEF LoopReconcile
    <3>2. CASE LoopManualExit(e)
      BY <1>0, <1>1, <3>2 DEF LoopManualExit, TypeOK, Row
    <3>3. CASE LoopSkip(e)
      BY <3>3 DEF LoopSkip
    <3> QED BY <1>5, <3>1, <3>2, <3>3
  <2>4. Fresh'
    BY <1>1, <1>2, <2>1, <2>2, <2>3, FreshKept
  <2>5. Busy'
    BY <1>1, <2>1, <2>2 DEF SingleExit, Busy
  <2>6. SingleExit'
    BY <1>0, <1>1, <1>3, <2>2, <2>3, <2>4, <2>5, Kept
  <2> QED BY <1>0, <2>3, <2>6, StillMoves
<1>6. ASSUME NEW ltp \in Price, LoopQuote(e, ltp)
      PROVE  SingleExit' /\ \A x \in Entry : Moves(x)
  <2> DEFINE read == batch[e]
             update == UpdateStopState(SideOf[e], read.entry, read.plan, read, ltp)
             quoted == Quoted(rows[e], read, update)
             qty == Column(rows[e].qty, read.qty, BookQty(e, read))
             row == [quoted EXCEPT !.qty = qty]
  <2>1. ltp \in Int /\ SideOf[e] \in Side /\ read.entry \in Int /\ read.plan \in Distances
    BY <1>1, PriceAssumption, SideAssumption DEF Row
  <2>2. /\ update.best \in Int /\ update.active \in BOOLEAN
        /\ update.trail \in Int \cup {NoPrice}
        /\ read.trail # NoPrice => /\ update.trail \in Int
                                   /\ AtLeast(SideOf[e], update.trail, read.trail)
    BY <1>1, <2>1, StopStateMoves
  <2> HIDE DEF update
  <2>3. /\ quoted \in Row /\ quoted.exit = rows[e].exit /\ quoted.status = rows[e].status
        /\ quoted.trail = Column(rows[e].trail, read.trail, update.trail)
    <3>1. rows[e] \in Row /\ read \in Row
      BY <1>1
    <3> HIDE DEF read
    <3> QED BY <2>2, <3>1, QuotedType, ZenonT(60)
  <2>4. /\ rows' = [rows EXCEPT ![e] = row]
        /\ loop' = loop \/ loop' = [pc |-> "triggered", row |-> e, exit |-> 0]
        /\ UNCHANGED exits
    BY <1>6 DEF LoopQuote, update
  <2> HIDE DEF quoted, qty
  <2>5. row.exit = rows[e].exit /\ row.status = rows[e].status /\ row.trail = quoted.trail
    BY <2>3 DEF Row
  <2>6. \A x : LoopExitsOf(x)' = LoopExitsOf(x)
    BY <2>4 DEF LoopExitsOf
  <2>7. /\ rows'[e] = row /\ \A x \in Entry : x # e => rows'[x] = rows[x]
    BY <2>4 DEF TypeOK, SingleExit
  <2>8. Fresh'
    BY <1>1, <1>2, <2>4, <2>6, <2>7, FreshKept
  <2>9. Busy'
    BY <1>1, <1>2, <2>4, <2>6 DEF SingleExit, Busy
  <2> HIDE DEF row
  <2>10. SingleExit'
    BY <1>0, <1>1, <1>3, <2>5, <2>6, <2>7, <2>8, <2>9, Kept
  <2>11. ASSUME NEW x \in Entry PROVE Moves(x)
    <3>1. CASE x # e
      BY <1>0, <2>7, <3>1, StillMoves
    <3>2. CASE x = e /\ read.trail = rows[e].trail
      <4>1. CASE rows[e].trail = NoPrice
        BY <2>5, <2>7, <3>2, <4>1 DEF Moves
      <4>2. CASE rows[e].trail # NoPrice /\ update.trail = read.trail
        <5>1. quoted.trail = rows[e].trail
          BY <2>3, <4>2 DEF Column
        <5> QED BY <1>0, <2>5, <2>7, <3>2, <5>1, StillMoves
      <4>3. CASE rows[e].trail # NoPrice /\ update.trail # read.trail
        <5>1. quoted.trail = update.trail
          BY <2>3, <4>3 DEF Column
        <5>2. rows'[e].trail # NoPrice /\ AtLeast(SideOf[e], rows'[e].trail, rows[e].trail)
          BY <2>2, <2>5, <2>7, <3>2, <4>3, <5>1, NoPriceAssumption
        <5> QED BY <2>5, <2>7, <3>2, <5>2 DEF Moves
      <4> QED BY <4>1, <4>2, <4>3
    <3>3. CASE x = e /\ read.trail # rows[e].trail
      <4>1. Edited(e)
        BY <1>1, <3>3 DEF Edited
      <4> QED BY <2>5, <2>7, <3>3, <4>1 DEF Moves
    <3> QED BY <3>1, <3>2, <3>3
  <2> QED BY <2>10, <2>11
<1> QED BY <1>4, <1>5, <1>6 DEF LoopVisit
LEMMA ReadSingle ==
  ASSUME SingleExit, LoopRead
  PROVE  SingleExit' /\ \A x \in Entry : Moves(x)
<1>1. TypeOK /\ TypeOK'
  BY LoopType DEF SingleExit
<1>2. UNCHANGED <<rows, exits, loop, req, seen, filled>> /\ loop.pc = "visiting"
  BY DEF LoopRead, world
<1>3. \A x : LoopExitsOf(x)' = LoopExitsOf(x)
  BY <1>2 DEF LoopExitsOf
<1>4. /\ DOMAIN batch' \subseteq Entry
      /\ \A x \in DOMAIN batch' : batch'[x] = rows[x] /\ rows[x].status # "NONE"
  BY DEF LoopRead
<1>5. DOMAIN batch' \subseteq filled
  BY <1>4, ActiveFilled
<1>6. Fresh'
  BY <1>2, <1>3, <1>5, FreshKept
<1>7. PinnedInBatch' /\ Pinned' /\ LoopExitsOnce'
  BY <1>2, <1>3, <1>4 DEF SingleExit, PinnedInBatch, Pinned, LoopExitsOnce
<1>8. Busy' /\ Answered'
  BY <1>2, <1>3 DEF SingleExit, Busy, Answered
<1>9. SingleExit'
  BY <1>1, <1>6, <1>7, <1>8 DEF SingleExit
<1> QED BY <1>1, <1>2, <1>9, StillMoves

LEMMA LoopRowFilled ==
  ASSUME SingleExit, loop.pc # "visiting"
  PROVE  loop.row \in Entry /\ loop.row \in filled
BY DEF SingleExit, TypeOK, Fresh

LEMMA LoopSingle ==
  ASSUME SingleExit, LoopClaim \/ LoopCreate \/ LoopCreateFails \/ LoopSubmit
  PROVE  SingleExit' /\ \A x \in Entry : Moves(x)
<1>1. TypeOK /\ TypeOK'
  BY LoopType DEF SingleExit
<1>2. /\ UNCHANGED <<batch, req, seen, filled>> /\ loop.row \in Entry /\ loop.row \in filled
      /\ Visiting.row = NoEntry /\ Visiting.pc = "visiting"
  BY LoopRowFilled DEF LoopClaim, LoopCreate, LoopCreateFails, LoopSubmit, world, Visiting
<1>3. Answered'
  BY <1>2 DEF SingleExit, Answered
<1>4. CASE LoopClaim
  <2>1. \A x : LoopExitsOf(x)' = LoopExitsOf(x)
    BY <1>4 DEF LoopClaim, LoopExitsOf
  <2>2. \A x \in Entry : /\ rows'[x] = rows[x] \/ x = loop.row
                         /\ rows'[x].exit = rows[x].exit /\ rows'[x].trail = rows[x].trail
                         /\ rows[x].status = "EXITED" => rows'[x].status = "EXITED"
    <3>1. CASE rows' = rows
      BY <3>1
    <3>2. CASE /\ Claims(loop.row)
               /\ rows' = [rows EXCEPT ![loop.row] = [rows[loop.row] EXCEPT !.status = "EXITING"]]
      BY <1>1, <1>2, <3>2 DEF Claims, TypeOK, Row
    <3> QED BY <1>4, <3>1, <3>2 DEF LoopClaim
  <2>3. loop'.row \in {loop.row, NoEntry}
    BY <1>1, <1>2, <1>4 DEF LoopClaim, TypeOK, Loop
  <2>4. Fresh'
    BY <1>2, <2>1, <2>2, <2>3, FreshKept
  <2>5. loop'.pc = "claimed" => loop'.row = loop.row /\ rows[loop.row].exit = 0
    BY <1>1, <1>2, <1>4 DEF LoopClaim, Claims, TypeOK, Loop
  <2>6. loop'.pc # "triggered" /\ loop.pc = "triggered"
    BY <1>1, <1>2, <1>4 DEF LoopClaim, TypeOK, Loop
  <2>7. Busy'
    BY <1>2, <2>1, <2>5, <2>6 DEF SingleExit, Busy, Pinned
  <2>8. SingleExit'
    BY <1>1, <1>2, <1>3, <2>1, <2>2, <2>4, <2>7, Kept
  <2> QED BY <1>1, <2>2, <2>8, StillMoves
<1>5. CASE LoopCreate
  <2>1. PICK e \in Entry : e = loop.row
    BY <1>2
  <2>2. CreateExit(e, "loop") /\ loop.pc = "claimed"
    BY <1>5, <2>1 DEF LoopCreate
  <2>3. /\ LoopExitsOf(e)' = LoopExitsOf(e) \cup {Len(exits) + 1}
        /\ \A x : x # e => LoopExitsOf(x)' = LoopExitsOf(x)
        /\ rows'[e].exit # 0 /\ \A x \in Entry : x # e => rows'[x] = rows[x]
        /\ rows'[e].status = rows[e].status /\ rows'[e].trail = rows[e].trail
    BY <1>1, <2>2, NewExit
  <2>4. LoopExitsOf(e) = {} /\ e \notin DOMAIN batch
    BY <2>1, <2>2 DEF SingleExit, Busy
  <2>5. loop'.row = e /\ loop'.pc = "created"
    BY <1>1, <1>5, <2>1 DEF LoopCreate, TypeOK, Loop
  <2>6. Fresh'
    BY <1>2, <2>1, <2>3, <2>5, FreshKept
  <2>7. LoopExitsOnce' /\ Pinned' /\ PinnedInBatch' /\ Busy'
    BY <1>2, <2>3, <2>4, <2>5 DEF SingleExit, LoopExitsOnce, Pinned, PinnedInBatch, Busy
  <2>8. ASSUME NEW x \in Entry PROVE Moves(x)
    BY <1>1, <2>3, StillMoves
  <2> QED BY <1>1, <1>3, <2>6, <2>7, <2>8 DEF SingleExit
<1>6. ASSUME LoopCreateFails \/ LoopSubmit
      PROVE  SingleExit' /\ \A x \in Entry : Moves(x)
  <2>1. rows' = rows /\ loop' = Visiting
    BY <1>6 DEF LoopCreateFails, LoopSubmit
  <2>2. \A x : LoopExitsOf(x)' = LoopExitsOf(x)
    <3>1. CASE LoopCreateFails
      BY <3>1 DEF LoopCreateFails, LoopExitsOf
    <3>2. CASE LoopSubmit
      BY <1>1, <3>2, SubmitType, SameExits DEF LoopSubmit, SubmitExit, TypeOK
    <3> QED BY <1>6, <3>1, <3>2
  <2>3. Fresh'
    BY <1>2, <2>1, <2>2, FreshKept
  <2>4. Busy'
    BY <1>2, <2>1 DEF Busy
  <2>5. SingleExit'
    BY <1>1, <1>2, <1>3, <2>1, <2>2, <2>3, <2>4, Kept
  <2> QED BY <1>1, <2>1, <2>5, StillMoves
<1> QED BY <1>4, <1>5, <1>6

LEMMA AskSingle ==
  ASSUME SingleExit, NEW r \in Request, NEW op \in {"pause", "resume", "mark", "edit"},
         NEW e \in Entry, Ask(r, op, e)
  PROVE  SingleExit' /\ \A x \in Entry : Moves(x)
<1>1. TypeOK /\ TypeOK'
  BY AskType DEF SingleExit
<1>2. UNCHANGED <<rows, exits, loop, batch, filled>>
  BY DEF Ask, world
<1>3. \A x : LoopExitsOf(x)' = LoopExitsOf(x)
  BY <1>2 DEF LoopExitsOf
<1>4. rows[e].status \in {"ACTIVE", "PAUSED", "EXITING"} /\ rows[e] \in Row
  BY <1>1 DEF Ask, Accepts, TypeOK
<1>5. e \in filled
  BY <1>4, ActiveFilled
<1>6. \A q \in Request : req'[q].row = req[q].row \/ req'[q].row = e
  BY <1>1 DEF Ask, TypeOK
<1>7. Fresh'
  BY <1>2, <1>3, <1>5, <1>6, FreshKept
<1>8. Used(op, rows[e]).status = rows[e].status
  BY <1>4, UsedType
<1>9. Answered'
  BY <1>1, <1>4, <1>8 DEF SingleExit, Answered, Ask, TypeOK
<1>10. Busy'
  BY <1>2, <1>3 DEF SingleExit, Busy
<1>11. SingleExit'
  BY <1>1, <1>2, <1>3, <1>7, <1>9, <1>10, Kept
<1> QED BY <1>1, <1>2, <1>11, StillMoves

LEMMA RequestFilled ==
  ASSUME SingleExit, NEW r \in Request, req[r].pc # "idle"
  PROVE  req[r].row \in Entry /\ req[r].row \in filled
BY DEF SingleExit, TypeOK, Fresh

\* A request that has read the row writes its status, and forgets it or goes on.
LEMMA SetStatusSingle ==
  ASSUME SingleExit, TypeOK', NEW r \in Request,
         NEW pc \in {"pause", "resume", "mark"}, NEW status \in RowStatus,
         SetStatus(r, pc, status), UNCHANGED <<exits, loop, batch, filled>>,
         \A q \in Request : req'[q].row \in {req[q].row, NoEntry}, Answered'
  PROVE  SingleExit' /\ \A x \in Entry : Moves(x)
<1>1. req[r].row \in Entry /\ req[r].row \in filled /\ req[r].pc = pc /\ TypeOK
  BY RequestFilled DEF SetStatus, SingleExit
<1>2. seen[r].status # "EXITED"
  BY <1>1 DEF SingleExit, Answered
<1>3. \A x \in Entry : /\ rows'[x].exit = rows[x].exit /\ rows'[x].trail = rows[x].trail
                       /\ rows'[x] # rows[x] => x = req[r].row
  BY <1>1, SetStatusType
<1>4. \A x : LoopExitsOf(x)' = LoopExitsOf(x)
  BY DEF LoopExitsOf
<1>5. Fresh'
  BY <1>1, <1>3, <1>4, FreshKept
<1>6. Busy'
  BY <1>4 DEF SingleExit, Busy
<1>7. SingleExit'
  BY <1>3, <1>4, <1>5, <1>6, Kept
<1>8. ASSUME NEW x \in Entry PROVE Moves(x)
  <2>1. CASE rows'[x] = rows[x]
    BY <1>1, <2>1, StillMoves
  <2>2. CASE rows'[x] # rows[x]
    <3>1. x = req[r].row
      BY <1>3, <2>2
    <3>2. rows[x].trail # NoPrice => AtLeast(SideOf[x], rows[x].trail, rows[x].trail)
      BY SMTT(30), <1>1 DEF AtLeast, TypeOK, Row
    <3>3. rows'[x].trail = rows[x].trail
      BY <1>3
    <3>4. \E q \in Request : req[q].row = x /\ seen[q].status # "EXITED"
      BY <1>2, <3>1
    <3> QED BY <3>2, <3>3, <3>4 DEF Moves
  <2> QED BY <2>1, <2>2
<1> QED BY <1>7, <1>8

LEMMA RequestSingle ==
  ASSUME SingleExit, NEW r \in Request, RequestStep(r)
  PROVE  SingleExit' /\ \A x \in Entry : Moves(x)
<1>1. TypeOK /\ TypeOK' /\ Idle.row = NoEntry /\ Idle.pc = "idle"
  BY RequestStepType DEF SingleExit, Idle
<1>2. Ends(r) => /\ \A q \in Request : req'[q].row \in {req[q].row, NoEntry}
                 /\ Answered'
  BY <1>1 DEF Ends, SingleExit, Answered, TypeOK
<1>3. CASE Pause(r)
  BY <1>1, <1>2, <1>3, SetStatusSingle DEF Pause, RowStatus, world
<1>4. CASE Resume(r)
  BY <1>1, <1>2, <1>4, SetStatusSingle DEF Resume, RowStatus, world
<1>5. CASE RequestMark(r)
  <2>1. /\ \A q \in Request : req'[q].row \in {req[q].row, NoEntry}
        /\ Answered'
    BY <1>1, <1>5 DEF RequestMark, SingleExit, Answered, TypeOK, RequestState
  <2> QED BY <1>1, <1>5, <2>1, SetStatusSingle DEF RequestMark, RowStatus, world
<1>6. CASE RequestCreate(r)
  <2> DEFINE e == req[r].row
  <2>1. CreateExit(e, "request") /\ e \in Entry /\ e \in filled
    BY <1>6, RequestFilled DEF RequestCreate
  <2>2. /\ \A x : LoopExitsOf(x)' = LoopExitsOf(x)
        /\ rows'[e].exit # 0 /\ \A x \in Entry : x # e => rows'[x] = rows[x]
        /\ rows'[e].status = rows[e].status /\ rows'[e].trail = rows[e].trail
    BY <1>1, <2>1, NewExit
  <2>3. /\ UNCHANGED <<loop, batch, seen, filled>>
        /\ \A q \in Request : /\ req'[q].row = req[q].row
                              /\ req'[q].pc = req[q].pc \/ req'[q].pc = "created"
    BY <1>1, <1>6 DEF RequestCreate, TypeOK, RequestState, world
  <2>4. Fresh'
    BY <2>1, <2>2, <2>3, FreshKept
  <2>5. Busy' /\ Answered'
    BY <2>2, <2>3 DEF SingleExit, Busy, Answered
  <2>6. Pinned' /\ PinnedInBatch' /\ LoopExitsOnce'
    BY <2>2, <2>3 DEF SingleExit, Pinned, PinnedInBatch, LoopExitsOnce
  <2>7. ASSUME NEW x \in Entry PROVE Moves(x)
    BY <1>1, <2>2, StillMoves
  <2> QED BY <1>1, <2>4, <2>5, <2>6, <2>7 DEF SingleExit
<1>7. CASE RequestSubmit(r)
  <2>1. \A x : LoopExitsOf(x)' = LoopExitsOf(x)
    BY <1>1, <1>7, SubmitType, SameExits DEF RequestSubmit, SubmitExit, TypeOK
  <2>2. UNCHANGED <<rows, loop, batch, filled>> /\ Ends(r)
    BY <1>7 DEF RequestSubmit, world
  <2>3. Fresh'
    BY <1>2, <2>1, <2>2, FreshKept
  <2>4. Busy'
    BY <2>1, <2>2 DEF SingleExit, Busy
  <2>5. SingleExit'
    BY <1>1, <1>2, <2>1, <2>2, <2>3, <2>4, Kept
  <2> QED BY <1>1, <2>2, <2>5, StillMoves
<1>8. ASSUME NEW plan \in Plan, NEW price \in Price \cup {seen[r].entry}, Edit(r, plan, price)
      PROVE  SingleExit' /\ \A x \in Entry : Moves(x)
  <2> DEFINE e == req[r].row
             read == seen[r]
             new == [plan EXCEPT !.tp = read.plan.tp]
             update == UpdateStopState(SideOf[e], read.entry, new, read, price)
             quoted == Quoted(rows[e], read, update)
             kept == Column(rows[e].plan, read.plan, new)
             row == [quoted EXCEPT !.plan = kept]
  <2>1. /\ e \in Entry /\ e \in filled /\ rows[e] \in Row /\ read \in Row
        /\ req[r].pc = "edit" /\ read.status # "EXITED"
    BY <1>1, <1>8, RequestFilled DEF Edit, TypeOK, SingleExit, Answered
  <2>2. /\ price \in Int /\ SideOf[e] \in Side /\ read.entry \in Int
        /\ read.plan \in Distances /\ plan \in Distances
    BY <2>1, PriceAssumption, SideAssumption, PlanAssumption DEF Row
  <2>3. new \in Distances
    BY <2>2 DEF Distances
  <2> HIDE DEF new
  <2>4. /\ update.best \in Int /\ update.active \in BOOLEAN
        /\ update.trail \in Int \cup {NoPrice}
    BY <2>1, <2>2, <2>3, StopStateMoves
  <2> HIDE DEF update
  <2>5. quoted \in Row /\ quoted.exit = rows[e].exit /\ quoted.status = rows[e].status
    BY ZenonT(60), <2>1, <2>4, QuotedType
  <2>6. /\ rows' = [rows EXCEPT ![e] = row]
        /\ \/ /\ req' = [req EXCEPT ![r].pc = "mark"]
              /\ seen' = [seen EXCEPT ![r] = Used("mark", @)]
           \/ Ends(r)
        /\ UNCHANGED <<exits, loop, batch, filled>>
    BY <1>8 DEF Edit, new, update, world
  <2> HIDE DEF quoted, kept
  <2>7. row.exit = rows[e].exit /\ row.status = rows[e].status
    BY <2>5 DEF Row
  <2> HIDE DEF row
  <2>8. \A x : LoopExitsOf(x)' = LoopExitsOf(x)
    BY <2>6 DEF LoopExitsOf
  <2>9. \A x \in Entry : x # e => rows'[x] = rows[x]
    BY <2>6
  <2>10. rows'[e] = row
    BY <1>1, <2>1, <2>6 DEF TypeOK
  <2>11. Used("mark", read).status = read.status
    BY <2>1, UsedType
  <2>12. \A q \in Request : req'[q].row \in {req[q].row, NoEntry}
    <3>1. CASE Ends(r)
      BY <1>2, <3>1
    <3>2. CASE req' = [req EXCEPT ![r].pc = "mark"]
      BY <1>1, <3>2 DEF TypeOK, RequestState
    <3> QED BY <2>6, <3>1, <3>2
  <2>13. Answered'
    <3>1. CASE Ends(r)
      BY <1>2, <3>1
    <3>2. CASE /\ req' = [req EXCEPT ![r].pc = "mark"]
               /\ seen' = [seen EXCEPT ![r] = Used("mark", seen[r])]
      <4>1. \A q \in Request : q # r => req'[q] = req[q] /\ seen'[q] = seen[q]
        BY <3>2
      <4>2. seen'[r].status # "EXITED"
        BY <1>1, <2>1, <2>11, <3>2 DEF TypeOK
      <4> QED BY <4>1, <4>2 DEF SingleExit, Answered
    <3> QED BY <2>6, <3>1, <3>2
  <2>14. Fresh'
    BY <2>1, <2>6, <2>8, <2>9, <2>12, FreshKept
  <2>15. Busy'
    BY <2>6, <2>8 DEF SingleExit, Busy
  <2>16. \A x \in Entry : rows'[x].exit = rows[x].exit
    BY <2>7, <2>9, <2>10
  <2>17. SingleExit'
    BY <1>1, <2>6, <2>8, <2>13, <2>14, <2>15, <2>16, Kept
  <2>18. ASSUME NEW x \in Entry PROVE Moves(x)
    <3>1. CASE x # e
      BY <1>1, <2>9, <3>1, StillMoves
    <3>2. CASE x = e
      <4>1. Edited(e)
        BY <2>1 DEF Edited
      <4> QED BY <2>7, <2>10, <3>2, <4>1 DEF Moves
    <3> QED BY <3>1, <3>2
  <2> QED BY <2>17, <2>18
<1> QED BY <1>3, <1>4, <1>5, <1>6, <1>7, <1>8 DEF RequestStep

LEMMA WorldSingle ==
  ASSUME SingleExit, SyncPositions \/ Crash
  PROVE  SingleExit' /\ \A x \in Entry : Moves(x)
<1>1. TypeOK /\ TypeOK'
  BY WorldType DEF SingleExit
<1>2. UNCHANGED <<rows, exits, filled>>
  BY DEF SyncPositions, Crash, world
<1>3. \A x : LoopExitsOf(x)' = LoopExitsOf(x)
  BY <1>2 DEF LoopExitsOf
<1>4. /\ DOMAIN batch' \subseteq DOMAIN batch /\ \A x \in DOMAIN batch' : batch'[x] = batch[x]
      /\ loop'.row \in {loop.row, NoEntry}
      /\ loop' = loop \/ loop'.pc = "visiting"
      /\ \A r \in Request : /\ req'[r].row \in {req[r].row, NoEntry}
                            /\ \/ req'[r] = req[r] /\ seen'[r] = seen[r]
                               \/ req'[r].pc = "idle"
  BY DEF SyncPositions, Crash, NoBatch, Visiting, Idle
<1>5. Fresh'
  BY <1>2, <1>3, <1>4, FreshKept
<1>6. Busy' /\ Answered'
  BY <1>3, <1>4 DEF SingleExit, Busy, Answered
<1>7. SingleExit'
  BY <1>1, <1>2, <1>3, <1>4, <1>5, <1>6, Kept
<1> QED BY <1>1, <1>2, <1>7, StillMoves

LEMMA InitSingle == Init => SingleExit
<1> SUFFICES ASSUME Init PROVE SingleExit
  OBVIOUS
<1>1. \A e : LoopExitsOf(e) = {}
  BY DEF Init, LoopExitsOf
<1>2. /\ Visiting.row = NoEntry /\ Visiting.pc = "visiting" /\ Idle.row = NoEntry
      /\ Idle.pc = "idle" /\ DOMAIN NoBatch = {}
  BY DEF Visiting, Idle, NoBatch
<1>3. Fresh /\ Pinned /\ PinnedInBatch /\ Busy /\ Answered /\ LoopExitsOnce
  BY <1>1, <1>2, SentinelAssumption
     DEF Init, Fresh, Pinned, PinnedInBatch, Busy, Answered, LoopExitsOnce
<1> QED BY <1>3, InitType DEF SingleExit

LEMMA NextSingle ==
  ASSUME SingleExit, [Next]_vars
  PROVE  SingleExit' /\ \A x \in Entry : Moves(x)
<1>1. CASE UNCHANGED vars
  <2>1. SingleExit'
    BY <1>1 DEF vars, SingleExit, TypeOK, Fresh, Pinned, PinnedInBatch, Busy, Answered,
                LoopExitsOnce, LoopExitsOf
  <2> QED BY <1>1, <2>1, StillMoves DEF vars, SingleExit
<1>2. CASE LoopStep
  BY <1>2, ReadSingle, LoopSingle, VisitSingle DEF LoopStep
<1>3. CASE Next /\ ~LoopStep
  BY <1>3, FillSingle, ReportSingle, LoopSingle, AskSingle, RequestSingle, WorldSingle DEF Next
<1> QED BY <1>1, <1>2, <1>3

LEMMA AlwaysSingle == Spec => []SingleExit
<1>1. SingleExit /\ [Next]_vars => SingleExit'
  BY NextSingle
<1> QED BY <1>1, InitSingle, PTL DEF Spec

\* The loop makes at most one exit order for a position, for any number of
\* positions, requests, restarts and failures.
THEOREM ExitsAreSingle == Spec => []LoopExitsOnce
<1>1. SingleExit => LoopExitsOnce
  BY DEF SingleExit
<1> QED BY <1>1, AlwaysSingle, PTL

\* A closed position is reopened by nothing but a request that read it open.
THEOREM ClosedForGood == Spec => ClosedStaysClosed
<1> DEFINE Step == \A e \in Entry :
                     rows[e].status = "EXITED" /\ rows'[e].status # "EXITED"
                       => \E r \in Request : req[r].row = e /\ seen[r].status # "EXITED"
<1>1. SingleExit /\ [Next]_vars => [Step]_vars
  BY NextSingle DEF Moves
<1> HIDE DEF Step
<1>2. Spec => [][Step]_vars
  BY <1>1, AlwaysSingle, PTL DEF Spec
<1> QED BY <1>2 DEF ClosedStaysClosed, Step

\* A trail moves towards profit only, except by an edit.
THEOREM TrailsRatchet == Spec => TrailRatchets
<1> DEFINE Step == \A e \in Entry :
                     rows[e].trail # NoPrice /\ ~Edited(e)
                       => /\ rows'[e].trail # NoPrice
                          /\ AtLeast(SideOf[e], rows'[e].trail, rows[e].trail)
<1>1. SingleExit /\ [Next]_vars => [Step]_vars
  BY NextSingle DEF Moves
<1> HIDE DEF Step
<1>2. Spec => [][Step]_vars
  BY <1>1, AlwaysSingle, PTL DEF Spec
<1> QED BY <1>2 DEF TrailRatchets, Step
=============================================================================
