------------------------------ MODULE AiExecution ------------------------------
(* Execution of trade plans by the AI trading manager: the engine with its    *)
(* idempotency records (services/ai_trading_manager/execution/engine.py and   *)
(* idempotency_store.py), the automation that runs armed playbooks once per   *)
(* window of their cadence (automation/runner.py), and run-now               *)
(* (api/ai_trading_manager.py, playbooks.py).                                 *)
(*                                                                            *)
(* A plan is the set of its symbols, one order intent each.  Polling the      *)
(* broker after the orders changes nothing and is left out, as are dry runs,  *)
(* whose keys are their own and which place no orders.                        *)
EXTENDS Integers

CONSTANTS
  Playbook,
  Caller,       \* requests to run a playbook now
  Ticker,       \* the automation's thread
  Scrip,        \* symbols
  Tradeplans,   \* the plans a playbook can have, sets of symbols
  Approval,     \* messages that authorize trading, numbers
  LastWindow,      \* bound: cadence windows
  MaxEdits, MaxBreaks   \* bounds: user edits, crashes and broker failures

ASSUME TradeplansAssumption == Tradeplans \subseteq (SUBSET Scrip) \ {{}}
ASSUME ApprovalAssumption == /\ Approval \subseteq Nat \ {0} /\ Ticker \notin Caller
                             /\ LastWindow \in Nat \ {0} /\ MaxEdits \in Nat /\ MaxBreaks \in Nat

VARIABLES
  book,      \* the playbooks: their plan, who armed them, the window they are due in
  window,    \* the current window
  record,    \* the idempotency records by key
  done,      \* the run rows: per playbook the windows and the approvals run
  agent,     \* the ticker and the callers
  placed,    \* orders at the broker by key and symbol
  fell,      \* history: keys whose record was met while it was still empty
  edits, breaks

aiVars == <<book, window, record, done, agent, placed, fell, edits, breaks>>

Agent == Caller \cup {Ticker}
AiKey == [kind : {"auto"}, p : Playbook, by : Approval, at : 1..LastWindow]
       \cup [kind : {"run"}, p : Playbook, by : Approval, at : {0}]
Playbooks == [plan : Tradeplans, by : Approval \cup {0}, next : 1..LastWindow + 1]
\* `result' is whether the record holds a result yet.
NoRecord == [plan |-> {}, status |-> "none", result |-> FALSE]
Resting == [pc |-> "rest", key |-> CHOOSE k \in AiKey : TRUE, plan |-> {}, due |-> {},
            view |-> [p \in Playbook |-> CHOOSE b \in Playbooks : TRUE], at |-> 0]

AiInit ==
  /\ book \in [Playbook -> {b \in Playbooks : b.by = 0 /\ b.next = 1}]
  /\ window = 1
  /\ record = [k \in AiKey |-> NoRecord]
  /\ done = [p \in Playbook |-> {}]
  /\ agent = [a \in Agent |-> Resting]
  /\ placed = [k \in AiKey |-> [s \in Scrip |-> 0]]
  /\ fell = {} /\ edits = 0 /\ breaks = 0

-----------------------------------------------------------------------------
(* The user and the clock *)

Edit == /\ edits < MaxEdits /\ edits' = edits + 1
        /\ UNCHANGED <<window, record, done, agent, placed, fell, breaks>>

\* Plausible bug: arming leaves the next run where it was.
ArmInPlace(p) == Edit /\ \E m \in Approval : book' = [book EXCEPT ![p].by = m]
\* set_playbook_armed: arming puts the next run one cadence off.
Arm(p) == /\ Edit
          /\ \E m \in Approval : book' = [book EXCEPT ![p].by = m, ![p].next = window + 1]
Disarm(p) == Edit /\ book[p].by # 0 /\ book' = [book EXCEPT ![p].by = 0]
\* upsert_trade_plan
EditPlan(p) == Edit /\ \E plan \in Tradeplans \ {book[p].plan} : book' = [book EXCEPT ![p].plan = plan]

WindowEnds ==
  /\ window < LastWindow /\ window' = window + 1
  /\ UNCHANGED <<book, record, done, agent, placed, fell, edits, breaks>>

-----------------------------------------------------------------------------
(* The engine: execute_to_broker                                             *)

EngineOnly == UNCHANGED <<book, window, done, edits>>
To(a, pc) == agent' = [agent EXCEPT ![a].pc = pc]

\* Plausible bug: only a confirmed record answers a repeated request.
BeginUnlessConfirmed(a) ==
  /\ agent[a].pc = "begin"
  /\ LET k == agent[a].key
         plan == agent[a].plan
         old == record[k]
     IN  IF old.status = "none"
         THEN /\ record' = [record EXCEPT ![k] = [plan |-> plan, status |-> "NEW", result |-> FALSE]]
              /\ To(a, "submit") /\ fell' = fell
         ELSE /\ record' = record
              /\ To(a, IF old.status = "CONFIRMED" THEN "ran" ELSE IF old.plan = plan THEN "submit" ELSE "mismatch")
              /\ fell' = IF old.result THEN fell ELSE fell \cup {k}
  /\ EngineOnly /\ UNCHANGED <<placed, breaks>>

\* begin: creates the record, or meets the one that exists.  A result that it
\* holds already is the answer.
Begin(a) ==
  /\ agent[a].pc = "begin"
  /\ LET k == agent[a].key
         plan == agent[a].plan
         old == record[k]
     IN  IF old.status = "none"
         THEN /\ record' = [record EXCEPT ![k] = [plan |-> plan, status |-> "NEW", result |-> FALSE]]
              /\ To(a, "submit") /\ fell' = fell
         ELSE /\ record' = record
              /\ To(a, IF old.result THEN "ran" ELSE IF old.plan = plan THEN "submit" ELSE "mismatch")
              /\ fell' = IF old.result THEN fell ELSE fell \cup {k}
  /\ EngineOnly /\ UNCHANGED <<placed, breaks>>

Mark(k, st) == record' = [record EXCEPT ![k].status = st, ![k].result = TRUE]

PlanDiffers(a) ==
  /\ agent[a].pc = "mismatch"
  /\ Mark(agent[a].key, "FAILED") /\ To(a, "ran")
  /\ EngineOnly /\ UNCHANGED <<placed, fell, breaks>>

Submit(a) ==
  /\ agent[a].pc = "submit"
  /\ Mark(agent[a].key, "SUBMITTED") /\ To(a, "place")
  /\ EngineOnly /\ UNCHANGED <<placed, fell, breaks>>

\* One order; `plan' is what is left to place.  A failing call, which may have
\* reached the broker, ends the execution: a FAILED run, or the caller's request.
Place(a) ==
  /\ agent[a].pc = "place"
  /\ \E s \in agent[a].plan :
       LET once == [placed EXCEPT ![agent[a].key][s] = @ + 1]
       IN  \/ /\ placed' = once /\ breaks' = breaks
              /\ agent' = [agent EXCEPT ![a].plan = @ \ {s}]
           \/ /\ breaks < MaxBreaks /\ breaks' = breaks + 1
              /\ placed' \in {placed, once} /\ To(a, IF a = Ticker THEN "ran" ELSE "rest")
  /\ EngineOnly /\ UNCHANGED <<record, fell>>

\* Plausible bug: a failed order does not keep the execution from being confirmed.
ConfirmEarly(a) ==
  /\ agent[a].pc = "place"
  /\ Mark(agent[a].key, "CONFIRMED") /\ To(a, "ran")
  /\ EngineOnly /\ UNCHANGED <<placed, fell, breaks>>
Confirm(a) ==
  /\ agent[a].pc = "place" /\ agent[a].plan = {}
  /\ Mark(agent[a].key, "CONFIRMED") /\ To(a, "ran")
  /\ EngineOnly /\ UNCHANGED <<placed, fell, breaks>>

Engine(a) == Begin(a) \/ PlanDiffers(a) \/ Submit(a) \/ Place(a) \/ Confirm(a)

-----------------------------------------------------------------------------
(* The automation: run_automation_tick                                        *)

TickOnly == UNCHANGED <<window, record, placed, fell, edits, breaks>>

\* The due playbooks are read once, and used as they were read.
Tick ==
  /\ agent[Ticker].pc = "rest"
  /\ LET due == {p \in Playbook : book[p].by # 0 /\ book[p].next <= window}
     IN  /\ due # {}
         /\ agent' = [agent EXCEPT ![Ticker] = [@ EXCEPT !.pc = "tick", !.due = due, !.view = book, !.at = window]]
  /\ TickOnly /\ UNCHANGED <<book, done>>

\* A playbook of the list: run already in this window; run without orders (vetoed
\* by the risk gate, no plan, dry run); or executed.  A failing snapshot ends the tick.
Ran(p) == agent[Ticker].at \in done[p]
Later(p) == book' = [book EXCEPT ![p].next = agent[Ticker].at + 1]
TickPlaybook(p) ==
  LET me == agent[Ticker]
      rest == [me EXCEPT !.due = @ \ {p}]
  IN  /\ me.pc = "tick" /\ p \in me.due
      /\ \/ /\ Ran(p) /\ Later(p) /\ done' = done
            /\ agent' = [agent EXCEPT ![Ticker] = rest]
         \/ /\ ~Ran(p) /\ done' = [done EXCEPT ![p] = @ \cup {me.at}] /\ Later(p)
            /\ agent' = [agent EXCEPT ![Ticker] = rest]
         \/ /\ ~Ran(p) /\ UNCHANGED <<book, done>>
            /\ agent' = [agent EXCEPT ![Ticker] =
                 [rest EXCEPT !.pc = "begin", !.plan = book[p].plan,
                              !.key = [kind |-> "auto", p |-> p, by |-> me.view[p].by, at |-> me.at]]]
         \/ ~Ran(p) /\ UNCHANGED <<book, done>> /\ agent' = [agent EXCEPT ![Ticker] = Resting]
      /\ TickOnly

\* create_playbook_run, and in a commit of its own the next run.
TickRecords ==
  /\ agent[Ticker].pc = "ran"
  /\ done' = [done EXCEPT ![agent[Ticker].key.p] = @ \cup {agent[Ticker].at}]
  /\ To(Ticker, "moved") /\ TickOnly /\ UNCHANGED book
TickMoves ==
  /\ agent[Ticker].pc = "moved"
  /\ Later(agent[Ticker].key.p) /\ To(Ticker, "tick")
  /\ TickOnly /\ UNCHANGED done
TickEnds ==
  /\ agent[Ticker].pc = "tick" /\ agent[Ticker].due = {}
  /\ agent' = [agent EXCEPT ![Ticker] = Resting]
  /\ TickOnly /\ UNCHANGED <<book, done>>

-----------------------------------------------------------------------------
(* run-now, by the approval given or by that of the arming *)

RunPlaybook(c, p) ==
  /\ agent[c].pc = "rest"
  /\ \E m \in Approval :
       agent' = [agent EXCEPT ![c] = [@ EXCEPT !.pc = "begin", !.plan = book[p].plan,
                   !.key = [kind |-> "run", p |-> p, by |-> m, at |-> 0]]]
  /\ edits < MaxEdits /\ edits' = edits + 1
  /\ UNCHANGED <<book, window, record, done, placed, fell, breaks>>

\* The run row, and touch_playbook_after_run.
RunNowEnds(c) ==
  /\ agent[c].pc = "ran"
  /\ book' = [book EXCEPT ![agent[c].key.p].next = window + 1]
  /\ agent' = [agent EXCEPT ![c] = Resting]
  /\ TickOnly /\ UNCHANGED done

AiCrash ==
  /\ breaks < MaxBreaks /\ breaks' = breaks + 1
  /\ agent' = [a \in Agent |-> Resting] /\ agent' # agent
  /\ UNCHANGED <<book, window, record, done, placed, fell, edits>>

AiNext ==
  \/ \E p \in Playbook : Arm(p) \/ Disarm(p) \/ EditPlan(p) \/ TickPlaybook(p)
  \/ \E a \in Agent : Engine(a)
  \/ \E c \in Caller : RunNowEnds(c) \/ \E p \in Playbook : RunPlaybook(c, p)
  \/ WindowEnds \/ Tick \/ TickRecords \/ TickMoves \/ TickEnds \/ AiCrash

AiSpec == AiInit /\ [][AiNext]_aiVars

-----------------------------------------------------------------------------
(* Properties *)

RecordStatus == {"none", "NEW", "SUBMITTED", "CONFIRMED", "FAILED"}
AiTypeOK ==
  /\ book \in [Playbook -> Playbooks] /\ window \in 1..LastWindow
  /\ \A k \in AiKey : /\ record[k].plan \in Tradeplans \cup {{}} /\ record[k].status \in RecordStatus
                    /\ record[k].result \in BOOLEAN
  /\ placed \in [AiKey -> [Scrip -> Nat]] /\ fell \subseteq AiKey
  /\ \A a \in Agent : agent[a].pc \in {"rest", "begin", "mismatch", "submit", "place", "ran", "tick", "moved"}

\* However often a plan is executed under one key, by requests at once, after
\* failures of the broker or after a crash, each of its orders is placed once,
\* and never one of another plan, unless a request met the record while it was
\* still empty.
KeyPlacesOnce ==
  \A k \in AiKey \ fell : \A s \in Scrip :
    placed[k][s] <= IF s \in record[k].plan THEN 1 ELSE 0

\* A confirmed execution has placed all its orders.
ConfirmedIsComplete ==
  \A k \in AiKey : record[k].status = "CONFIRMED" =>
    \A s \in record[k].plan : placed[k][s] >= 1

\* The idempotency key of execute_to_broker keeps what it promises: an execution
\* repeated under it places nothing twice, and its success is a whole one.
ExecutionIsIdempotent == KeyPlacesOnce /\ ConfirmedIsComplete

\* The automation trades a playbook once in a window of its cadence, through
\* crashes at any point, edits of the plan, and arming it again by another
\* message, which gives the execution another key.
OneExecutionPerWindow ==
  \A p \in Playbook, w \in 1..LastWindow, s \in Scrip, m, n \in Approval :
    LET orders(by) == placed[[kind |-> "auto", p |-> p, by |-> by, at |-> w]][s]
    IN  IF m = n THEN orders(m) <= 1 ELSE orders(m) = 0 \/ orders(n) = 0

\* No execution of a plan is repeated: neither under its key, nor by the
\* automation that chooses the keys.
PlansExecuteOnce == ExecutionIsIdempotent /\ OneExecutionPerWindow
=============================================================================
