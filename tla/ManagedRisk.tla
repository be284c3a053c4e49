----------------------------- MODULE ManagedRisk -----------------------------
(* SigmaTrader-managed exits (services/managed_risk.py, api/managed_risk.py): *)
(* the rows of managed_risk_positions for one symbol and product, the         *)
(* background loop that watches prices and sends exit orders, the operator's  *)
(* requests on the same rows, and the fills that create, grow and close rows. *)
(*                                                                            *)
(* The database session keeps what it has read (expire_on_commit=False,       *)
(* db/session.py:54): a pass of the loop works on the batch it read at its    *)
(* start and a request on the row it read at its start, whatever was          *)
(* committed since.  `batch' and `seen' are those copies.  An UPDATE writes   *)
(* the columns whose value differs from the copy (Write).                     *)
EXTENDS StopRules, Sequences, FiniteSets

CONSTANTS
  Entry,        \* entry orders; a row is identified by its entry order
  SideOf, QtyOf,
  PlanOf,       \* the distances an entry's risk spec and profile resolve to
  Intraday,     \* whether the product is MIS
  Price, Plan,  \* quotes and fill prices, and the distances of a risk spec
  Request,      \* operator requests running at once
  Book,         \* net quantities the positions table may show
  NoEntry, NoBook,
  MaxAsked, MaxFaults  \* bounds: requests, and crashes and failures

ASSUME SideAssumption == SideOf \in [Entry -> Side]
ASSUME QtyAssumption == QtyOf \in [Entry -> Nat \ {0}]
ASSUME PriceAssumption == Price \subseteq Int
Distances == [stop : Nat \ {0}, trail : Nat, act : Nat, tp : Nat]
ASSUME PlanAssumption == Plan \subseteq Distances
ASSUME PlanOfAssumption == PlanOf \in [Entry -> Distances]
ASSUME SentinelAssumption == NoEntry \notin Entry /\ NoBook \notin Int
ASSUME BookAssumption == Book \subseteq Int
ASSUME BoundAssumption == MaxAsked \in Nat /\ MaxFaults \in Nat

VARIABLES
  rows,    \* managed_risk_positions
  exits,   \* the exit orders, in the order they were created
  loop,    \* what the loop is doing
  batch,   \* the rows of its pass that it has not visited, as it read them
  req,     \* what each operator request is doing
  seen,    \* the row as each request read it
  book,    \* the synced positions table
  filled,  \* entry orders that are filled
  asked, faults

vars == <<rows, exits, loop, batch, req, seen, book, filled,
          asked, faults>>
world == <<book, filled>>

RowStatus == {"NONE", "ACTIVE", "PAUSED", "EXITING", "EXITED"}
Row == [status : RowStatus, qty : Nat, entry : Int, plan : Distances, best : Int,
        trail : Int \cup {NoPrice}, active : BOOLEAN, exit : Nat]
ExitOrder == [row : Entry, by : {"loop", "request"},
              status : {"WAITING", "SENT", "FAILED", "EXECUTED"}]
Loop == [pc : {"visiting", "triggered", "claimed", "created"},
         row : Entry \cup {NoEntry}, exit : Nat]
RequestState == [pc : {"idle", "pause", "resume", "edit", "mark", "create", "created"},
                 row : Entry \cup {NoEntry}, exit : Nat]

Visiting == [pc |-> "visiting", row |-> NoEntry, exit |-> 0]
Idle == [pc |-> "idle", row |-> NoEntry, exit |-> 0]
NoBatch == [e \in {} |-> 0]
Drop(e) == [x \in DOMAIN batch \ {e} |-> batch[x]]

Exists(e) == rows[e].status # "NONE"
\* A fault of the process, or of one database write or quote.
Fault == faults < MaxFaults /\ faults' = faults + 1

\* A column is written when its new value differs from the one read.
Column(now, read, new) == IF new = read THEN now ELSE new

Unplanned == [stop |-> 1, trail |-> 0, act |-> 0, tp |-> 0]
NoRow == [status |-> "NONE", qty |-> 0, entry |-> 0, plan |-> Unplanned,
          best |-> 0, trail |-> NoPrice, active |-> FALSE, exit |-> 0]

Init ==
  /\ rows = [e \in Entry |-> NoRow]
  /\ exits = << >>
  /\ loop = Visiting /\ batch = NoBatch
  /\ req = [r \in Request |-> Idle]
  /\ seen = [r \in Request |-> NoRow]
  /\ book = NoBook
  /\ filled = {}
  /\ asked = 0 /\ faults = 0

-----------------------------------------------------------------------------
(* Fills of entry orders *)

\* The fill first reduces an ACTIVE row of the other side; what is left opens
\* a row or grows the ACTIVE row of its own side.  Delivery sales open nothing.
ActiveOn(side) == {e \in Entry : rows[e].status = "ACTIVE" /\ SideOf[e] = side}

Reduced(row, qty) ==
  IF row.qty > qty THEN [row EXCEPT !.qty = @ - qty]
                   ELSE [row EXCEPT !.qty = 0, !.status = "EXITED"]

NewRow(e, qty, price) ==
  LET plan   == PlanOf[e]
      active == plan.trail > 0 /\ plan.act = 0
  IN  [NoRow EXCEPT !.status = "ACTIVE", !.qty = qty, !.entry = price, !.plan = plan,
         !.best = price, !.active = active,
         !.trail = IF active THEN RatchetTrail(SideOf[e], price, plan, price, NoPrice)
                             ELSE NoPrice]

Grown(row, qty, price) ==
  [row EXCEPT !.qty = @ + qty,
              !.entry = (@ * row.qty + price * qty) \div (row.qty + qty)]

EnsureManagedRisk(e, price) ==
  \E other \in IF ActiveOn(Opposite(SideOf[e])) = {} THEN {NoEntry}
               ELSE ActiveOn(Opposite(SideOf[e])),
     own \in IF ActiveOn(SideOf[e]) = {} THEN {e} ELSE ActiveOn(SideOf[e]) :
    LET reduced == IF other = NoEntry THEN rows
                   ELSE [rows EXCEPT ![other] = Reduced(@, QtyOf[e])]
        before  == IF other = NoEntry THEN 0 ELSE rows[other].qty
        left    == IF QtyOf[e] > before THEN QtyOf[e] - before ELSE 0
    IN  rows' = IF left = 0 \/ (SideOf[e] = "SELL" /\ ~Intraday) THEN reduced
                ELSE [reduced EXCEPT ![own] =
                        IF own = e THEN NewRow(e, left, price) ELSE Grown(@, left, price)]

FillEntry(e) ==
  /\ e \notin filled
  /\ filled' = filled \cup {e}
  /\ \E price \in Price : EnsureManagedRisk(e, price)
  /\ UNCHANGED <<exits, loop, batch, req, seen, book, asked, faults>>

-----------------------------------------------------------------------------
(* Exit orders *)

\* _mark_exit_executed
Exited(x) ==
  [e \in Entry |->
    IF rows[e].exit = x /\ rows[e].status \in {"ACTIVE", "EXITING"}
    THEN [rows[e] EXCEPT !.status = "EXITED"] ELSE rows[e]]

\* _create_exit_order: the order and the row's reference to it are one commit.
CreateExit(e, by) ==
  /\ exits' = Append(exits, [row |-> e, by |-> by, status |-> "WAITING"])
  /\ rows' = [rows EXCEPT ![e].exit = Len(exits) + 1]

\* execute_order_internal, and its handlers: an order that it leaves WAITING is
\* FAILED.
SubmitExit(x) ==
  \E status \in {"SENT", "FAILED"} : exits' = [exits EXCEPT ![x].status = status]

\* The broker reports an execution.  The report is committed before the row is
\* marked; a process that dies in between leaves the row to the loop.
ExitFilled(x) ==
  /\ exits[x].status = "SENT"
  /\ exits' = [exits EXCEPT ![x].status = "EXECUTED"]
  /\ \/ rows' = Exited(x) /\ UNCHANGED faults
     \/ rows' = rows /\ Fault
  /\ UNCHANGED <<loop, batch, req, seen, book, filled, asked>>

ExitRejected(x) ==
  /\ exits[x].status = "SENT"
  /\ exits' = [exits EXCEPT ![x].status = "FAILED"]
  /\ UNCHANGED <<rows, loop, batch, req, seen, world, asked, faults>>

-----------------------------------------------------------------------------
(* The loop *)

\* Mutant: only ACTIVE rows are read.
LoopReadActive ==
  /\ loop.pc = "visiting" /\ DOMAIN batch = {}
  /\ ActiveOn("BUY") \cup ActiveOn("SELL") # {}
  /\ batch' = [e \in ActiveOn("BUY") \cup ActiveOn("SELL") |-> rows[e]]
  /\ UNCHANGED <<rows, exits, loop, req, seen, world, asked, faults>>

LoopRead ==
  /\ loop.pc = "visiting" /\ DOMAIN batch = {}
  /\ \E e \in Entry : rows[e].status \in {"ACTIVE", "EXITING"}
  /\ batch' = [e \in {x \in Entry : rows[x].status \in {"ACTIVE", "EXITING"}} |-> rows[e]]
  /\ UNCHANGED <<rows, exits, loop, req, seen, world, asked, faults>>

Visits(e) == loop.pc = "visiting" /\ e \in DOMAIN batch /\ batch' = Drop(e)

\* An exit order that is executed closes its row, whoever missed to.
IsExecuted(row) == row.exit # 0 /\ exits[row.exit].status = "EXECUTED"

LoopReconcile(e) ==
  /\ Visits(e) /\ IsExecuted(batch[e])
  /\ rows' = Exited(batch[e].exit)
  /\ UNCHANGED <<exits, loop, req, seen, world, asked, faults>>

\* Mutant: every EXITING row gets an order.
LoopRecoverAny(e) ==
  /\ Visits(e) /\ batch[e].status = "EXITING"
  /\ CreateExit(e, "loop")
  /\ loop' = [pc |-> "created", row |-> e, exit |-> Len(exits) + 1]
  /\ UNCHANGED <<req, seen, world, asked, faults>>

\* A row marked EXITING by a run that never made its order.
LoopRecover(e) ==
  /\ Visits(e) /\ batch[e].status = "EXITING" /\ batch[e].exit = 0
  /\ CreateExit(e, "loop")
  /\ loop' = [pc |-> "created", row |-> e, exit |-> Len(exits) + 1]
  /\ UNCHANGED <<req, seen, world, asked, faults>>

\* _mark_manual_exit_if_position_closed
ClosedInBook(e) == book # NoBook /\ Gain(SideOf[e], book) <= 0
BookQty(e, row) == IF book = NoBook THEN row.qty ELSE Gain(SideOf[e], book)

LoopManualExit(e) ==
  /\ Visits(e) /\ ~IsExecuted(batch[e]) /\ batch[e].status = "ACTIVE" /\ ClosedInBook(e)
  /\ rows' = [rows EXCEPT ![e].status = "EXITED"]
  /\ UNCHANGED <<exits, loop, req, seen, world, asked, faults>>

\* Nothing to do for the row, or no quote for it, or its order cannot be made.
LoopSkip(e) ==
  /\ Visits(e) /\ ~IsExecuted(batch[e])
  /\ IF batch[e].status = "EXITING" /\ batch[e].exit # 0
     THEN UNCHANGED faults
     ELSE ~(batch[e].status = "ACTIVE" /\ ClosedInBook(e)) /\ Fault
  /\ UNCHANGED <<rows, exits, loop, req, seen, world, asked>>

\* The columns of row `now' after an update computed from the copy `read'.
Quoted(now, read, update) ==
  [now EXCEPT !.best = Column(@, read.best, update.best),
              !.trail = Column(@, read.trail, update.trail),
              !.active = Column(@, read.active, update.active)]

LoopQuote(e, ltp) ==
  /\ Visits(e) /\ ~IsExecuted(batch[e]) /\ batch[e].status = "ACTIVE" /\ ~ClosedInBook(e)
  /\ LET read   == batch[e]
         update == UpdateStopState(SideOf[e], read.entry, read.plan, read, ltp)
         hit    == update.triggered \/ TakeProfitHit(SideOf[e], read.entry, read.plan, ltp)
     IN  /\ rows' = [rows EXCEPT ![e] =
                      [Quoted(rows[e], read, update) EXCEPT
                        !.qty = Column(rows[e].qty, read.qty, BookQty(e, read))]]
         /\ loop' = IF hit THEN [pc |-> "triggered", row |-> e, exit |-> 0] ELSE loop
  /\ UNCHANGED <<exits, req, seen, world, asked, faults>>

\* Mutant: the compare-and-set does not compare the status.
ClaimsUnlessExit(e) == rows[e].exit = 0

\* Compare-and-set to avoid duplicate exits.
Claims(e) == rows[e].status = "ACTIVE" /\ rows[e].exit = 0

LoopClaim ==
  /\ loop.pc = "triggered"
  /\ IF Claims(loop.row)
     THEN /\ rows' = [rows EXCEPT ![loop.row].status = "EXITING"]
          /\ loop' = [loop EXCEPT !.pc = "claimed"]
     ELSE rows' = rows /\ loop' = Visiting
  /\ UNCHANGED <<exits, batch, req, seen, world, asked, faults>>

\* Mutant: the new order's id is not handed on.
LoopCreateForgets ==
  /\ loop.pc = "claimed"
  /\ CreateExit(loop.row, "loop")
  /\ loop' = [loop EXCEPT !.pc = "created"]
  /\ UNCHANGED <<batch, req, seen, world, asked, faults>>

\* A session of its own: the row is read again.
LoopCreate ==
  /\ loop.pc = "claimed"
  /\ CreateExit(loop.row, "loop")
  /\ loop' = [loop EXCEPT !.pc = "created", !.exit = Len(exits) + 1]
  /\ UNCHANGED <<batch, req, seen, world, asked, faults>>

LoopCreateFails ==
  /\ loop.pc = "claimed" /\ Fault
  /\ loop' = Visiting
  /\ UNCHANGED <<rows, exits, batch, req, seen, world, asked>>

LoopSubmit ==
  /\ loop.pc = "created"
  /\ SubmitExit(loop.exit)
  /\ loop' = Visiting
  /\ UNCHANGED <<rows, batch, req, seen, world, asked, faults>>

-----------------------------------------------------------------------------
(* The operator's requests *)

Ends(r) == req' = [req EXCEPT ![r] = Idle] /\ seen' = [seen EXCEPT ![r] = NoRow]

\* Each handler reads the row and refuses the statuses it does not accept.
Accepts(op, row) ==
  CASE op = "pause"  -> row.status = "ACTIVE"
    [] op = "resume" -> row.status = "PAUSED"
    [] op = "mark"   -> row.status \in {"ACTIVE", "PAUSED", "EXITING"} /\ row.exit = 0
    [] op = "edit"   -> row.status \in {"ACTIVE", "PAUSED", "EXITING"}

\* The columns a handler uses of the row it has read.
Used(op, row) ==
  IF op = "edit" THEN row
  ELSE [NoRow EXCEPT !.status = row.status]

\* "mark" is the exit endpoint: it marks the row, then creates the order.
\* A resume follows a pause, so that the bound need not count it.
Ask(r, op, e) ==
  /\ req[r].pc = "idle"
  /\ \/ op = "resume" /\ asked' = asked
     \/ op # "resume" /\ asked < MaxAsked /\ asked' = asked + 1
  /\ Accepts(op, rows[e])
  /\ req' = [req EXCEPT ![r] = [pc |-> op, row |-> e, exit |-> 0]]
  /\ seen' = [seen EXCEPT ![r] = Used(op, rows[e])]
  /\ UNCHANGED <<rows, exits, loop, batch, world, faults>>

SetStatus(r, pc, status) ==
  /\ req[r].pc = pc
  /\ rows' = [rows EXCEPT ![req[r].row].status = Column(@, seen[r].status, status)]

Pause(r) ==
  /\ SetStatus(r, "pause", "PAUSED") /\ Ends(r)
  /\ UNCHANGED <<exits, loop, batch, world, asked, faults>>

Resume(r) ==
  /\ SetStatus(r, "resume", "ACTIVE") /\ Ends(r)
  /\ UNCHANGED <<exits, loop, batch, world, asked, faults>>

RequestMark(r) ==
  /\ SetStatus(r, "mark", "EXITING")
  /\ req' = [req EXCEPT ![r].pc = "create"]
  /\ UNCHANGED <<exits, loop, batch, seen, world, asked, faults>>

\* A new risk spec is applied to the last quote the row has seen, which is its
\* entry price or some quote; a stop it puts beyond that price exits at once.
Edit(r, plan, price) ==
  /\ req[r].pc = "edit"
  /\ LET e      == req[r].row
         read   == seen[r]
         new    == [plan EXCEPT !.tp = read.plan.tp]
         update == UpdateStopState(SideOf[e], read.entry, new, read, price)
         exit   == read.status = "ACTIVE" /\ update.triggered /\ read.exit = 0
     IN  /\ rows' = [rows EXCEPT ![e] =
                      [Quoted(rows[e], read, update) EXCEPT
                        !.plan = Column(rows[e].plan, read.plan, new)]]
         /\ IF exit THEN /\ req' = [req EXCEPT ![r].pc = "mark"]
                         /\ seen' = [seen EXCEPT ![r] = Used("mark", @)]
            ELSE Ends(r)
  /\ UNCHANGED <<exits, loop, batch, world, asked, faults>>

RequestCreate(r) ==
  /\ req[r].pc = "create"
  /\ CreateExit(req[r].row, "request")
  /\ req' = [req EXCEPT ![r].pc = "created", ![r].exit = Len(exits) + 1]
  /\ UNCHANGED <<loop, batch, seen, world, asked, faults>>

RequestSubmit(r) ==
  /\ req[r].pc = "created"
  /\ SubmitExit(req[r].exit)
  /\ Ends(r)
  /\ UNCHANGED <<rows, loop, batch, world, asked, faults>>

-----------------------------------------------------------------------------
(* The world around *)

\* The positions table is refreshed from the broker, where the operator and
\* other programs trade the symbol too.
SyncPositions ==
  /\ filled # {} /\ book' \in Book \ {book}
  /\ UNCHANGED <<rows, exits, loop, batch, req, seen, filled, asked, faults>>

\* The process restarts: what its threads held in memory is gone.
Crash ==
  /\ Fault
  /\ loop' = Visiting /\ batch' = NoBatch
  /\ req' = [r \in Request |-> Idle] /\ seen' = [r \in Request |-> NoRow]
  /\ UNCHANGED <<rows, exits, world, asked>>

LoopVisit(e) ==
  \/ LoopReconcile(e) \/ LoopRecover(e) \/ LoopManualExit(e)
  \/ LoopSkip(e)
  \/ \E ltp \in Price : LoopQuote(e, ltp)
LoopStep ==
  \/ LoopRead \/ LoopClaim \/ LoopCreate \/ LoopSubmit
  \/ \E e \in Entry : LoopVisit(e)

RequestStep(r) ==
  \/ Pause(r) \/ Resume(r) \/ RequestMark(r) \/ RequestCreate(r) \/ RequestSubmit(r)
  \/ \E plan \in Plan, price \in Price \cup {seen[r].entry} : Edit(r, plan, price)

Next ==
  \/ \E e \in Entry : FillEntry(e)
  \/ \E x \in DOMAIN exits : ExitFilled(x) \/ ExitRejected(x)
  \/ LoopStep \/ LoopCreateFails
  \/ \E r \in Request :
       \/ \E op \in {"pause", "resume", "mark", "edit"}, e \in Entry : Ask(r, op, e)
       \/ RequestStep(r)
  \/ SyncPositions \/ Crash

\* The loop thread polls for ever.
Fairness == WF_vars(LoopStep)

Spec == Init /\ [][Next]_vars
FairSpec == Spec /\ Fairness

-----------------------------------------------------------------------------
(* Properties *)

TypeOK ==
  /\ rows \in [Entry -> Row]
  /\ exits \in Seq(ExitOrder)
  /\ loop \in Loop
  /\ DOMAIN batch \subseteq Entry /\ \A e \in DOMAIN batch : batch[e] \in Row
  /\ req \in [Request -> RequestState] /\ seen \in [Request -> Row]
  /\ book \in Book \cup {NoBook}
  /\ filled \subseteq Entry
  /\ asked \in 0..MaxAsked /\ faults \in 0..MaxFaults
  /\ \A e \in Entry : rows[e].exit \in {0} \cup DOMAIN exits
  /\ \A e \in DOMAIN batch : batch[e].exit \in {0} \cup DOMAIN exits
  /\ loop.pc = "visiting" \/ loop.row \in Entry
  /\ loop.pc = "created" => loop.exit \in DOMAIN exits
  /\ \A r \in Request : req[r].pc = "idle" \/ req[r].row \in Entry
  /\ \A r \in Request : req[r].pc = "created" => req[r].exit \in DOMAIN exits

LoopExitsOf(e) == {x \in DOMAIN exits : exits[x].row = e /\ exits[x].by = "loop"}

\* The loop makes at most one exit order for a position, whatever it remembers
\* of a row, whatever requests and fills write meanwhile, and across restarts
\* (compare-and-set, managed_risk.py:1199; recovery, managed_risk.py:1074).
LoopExitsOnce ==
  \A e \in Entry : \A x, y \in LoopExitsOf(e) : x = y

\* A closed position stays closed: only a request that read the row before it
\* was closed can write another status over EXITED, never the loop, a fill or
\* a late execution report.
ClosedStaysClosed ==
  [][\A e \in Entry :
       rows[e].status = "EXITED" /\ rows'[e].status # "EXITED"
         => \E r \in Request : req[r].row = e /\ seen[r].status # "EXITED"]_vars

\* The trail of a position ratchets: no quote, fill, report or restart moves it
\* away from profit, unless the operator edits its risk spec or did so after the
\* pass in progress had read the row.
Edited(e) ==
  \/ \E r \in Request : req[r].pc = "edit" /\ req[r].row = e
  \/ e \in DOMAIN batch /\ <<batch[e].plan, batch[e].trail>> # <<rows[e].plan, rows[e].trail>>
TrailRatchets ==
  [][\A e \in Entry :
       rows[e].trail # NoPrice /\ ~Edited(e)
         => /\ rows'[e].trail # NoPrice
            /\ AtLeast(SideOf[e], rows'[e].trail, rows[e].trail)]_vars

\* The loop settles what a dead thread left behind: a position marked EXITING
\* that never got its exit order, and one whose exit was executed and that was
\* not closed.  A paused position waits for the operator.
Unsettled(e) ==
  \/ rows[e].status = "EXITING" /\ rows[e].exit = 0
  \/ rows[e].status \in {"ACTIVE", "EXITING"} /\ IsExecuted(rows[e])
LoopSettles == \A e \in Entry : Unsettled(e) ~> ~Unsettled(e)

\* "reconcile its outcome and/or ensure it's submitted (idempotent to restarts)"
\* (managed_risk.py:1064): an exit order that the loop has made gets submitted.
WaitingExit(e) == \E x \in LoopExitsOf(e) : exits[x].status = "WAITING"
ExitsSubmitted == \A e \in Entry : WaitingExit(e) ~> ~WaitingExit(e)
=============================================================================
