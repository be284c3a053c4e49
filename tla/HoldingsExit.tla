----------------------------- MODULE HoldingsExit -----------------------------
(* Holdings exit automation: subscriptions that sell a holding when its price *)
(* reaches a target (api/holdings_exit_subscriptions.py), and the loop that   *)
(* settles their orders and evaluates them                                    *)
(* (services/holdings_exit_engine.py).                                        *)
(*                                                                            *)
(* The loop works on the rows it has read at the start of each phase and      *)
(* writes back the columns that it has changed; the user's calls come between *)
(* any two of its steps.  Prices are left out: whether a target is met is a   *)
(* choice.  The cooldown is left out: only Resume leads back to ACTIVE, and   *)
(* it clears the cooldown.  A row created after a deletion can get the id of    *)
(* the deleted one, as in SQLite.                                             *)
EXTENDS Integers, Sequences, FiniteSets

CONSTANTS
  Sub,          \* subscriptions
  User,         \* users with a broker connection
  Owner,        \* whose a subscription is; NoUser in single-user installations
  NoUser,
  Terms,        \* the sizes a user can ask for, a set of records
  Stock,        \* what each user holds at the start
  MaxTickets, MaxCalls, MaxAborts   \* bounds: orders, user calls, crashes

ASSUME OwnerAssumption == Owner \in [Sub -> User \cup {NoUser}] /\ NoUser \notin User
ASSUME TermsAssumption == Terms # {} /\ Terms \subseteq [pct : BOOLEAN, value : Nat, min : Nat]
ASSUME StockAssumption == Stock \in Nat /\ MaxTickets \in Nat /\ MaxCalls \in Nat /\ MaxAborts \in Nat

VARIABLES
  subs,       \* the subscription rows
  tickets,   \* the orders created, in their order
  stock,     \* what each user holds at the broker
  enabled,   \* the feature is switched on
  pass,      \* the loop
  let_go,    \* history: orders whose subscription was resumed or deleted
  grants,    \* history: how often a subscription was created or resumed
  calls, aborts

hexVars == <<subs, tickets, stock, enabled, pass, let_go, grants, calls, aborts>>

HexStatus == {"ACTIVE", "PAUSED", "ORDER_CREATED", "COMPLETED", "ERROR"}
Row == [status : HexStatus \cup {"none"}, pending : 0..MaxTickets, terms : Terms]
Absent == [status |-> "none", pending |-> 0, terms |-> CHOOSE t \in Terms : TRUE]
HexAsleep == [pc |-> "idle", work |-> {}, view |-> [s \in Sub |-> Absent], user |-> NoUser, stock |-> 0]

HexInit ==
  /\ subs = [s \in Sub |-> Absent]
  /\ tickets = <<>>
  /\ stock = [u \in User |-> Stock]
  /\ enabled = TRUE
  /\ pass = HexAsleep
  /\ let_go = {} /\ grants = [s \in Sub |-> 0]
  /\ calls = 0 /\ aborts = 0

-----------------------------------------------------------------------------
(* The user.  The calls of the API need the feature switched on.              *)

Call(s) == /\ enabled /\ calls < MaxCalls /\ calls' = calls + 1
           /\ UNCHANGED <<tickets, stock, enabled, pass, aborts>>
Exists(s) == subs[s].status # "none"
Waits(s) == Exists(s) /\ subs[s].status # "COMPLETED"
LetGo(s) == let_go' = let_go \cup ({subs[s].pending} \ {0})

\* Creating one that exists returns it as it is.
HexCreate(s) ==
  /\ Call(s) /\ ~Exists(s)
  /\ \E t \in Terms : subs' = [subs EXCEPT ![s] = [status |-> "ACTIVE", pending |-> 0, terms |-> t]]
  /\ grants' = [grants EXCEPT ![s] = @ + 1]
  /\ UNCHANGED let_go

HexPatch(s) ==
  /\ Call(s) /\ subs[s].status \in {"ACTIVE", "PAUSED", "ERROR"}
  /\ \E t \in Terms \ {subs[s].terms} : subs' = [subs EXCEPT ![s].terms = t]
  /\ UNCHANGED <<let_go, grants>>

\* Plausible bug: pausing forgets the order.
HexPauseForgets(s) ==
  /\ Call(s) /\ Waits(s)
  /\ subs' = [subs EXCEPT ![s].status = "PAUSED", ![s].pending = 0]
  /\ UNCHANGED <<let_go, grants>>
HexPause(s) ==
  /\ Call(s) /\ Waits(s)
  /\ subs' = [subs EXCEPT ![s].status = "PAUSED"]
  /\ UNCHANGED <<let_go, grants>>

HexResume(s) ==
  /\ Call(s) /\ Waits(s)
  /\ subs' = [subs EXCEPT ![s].status = "ACTIVE", ![s].pending = 0]
  /\ LetGo(s)
  /\ grants' = [grants EXCEPT ![s] = @ + 1]

HexDelete(s) ==
  /\ Call(s) /\ Exists(s)
  /\ subs' = [subs EXCEPT ![s] = Absent]
  /\ LetGo(s)
  /\ UNCHANGED grants

HexSwitch ==
  /\ calls < MaxCalls /\ calls' = calls + 1
  /\ enabled' = ~enabled
  /\ UNCHANGED <<subs, tickets, stock, pass, let_go, grants, aborts>>

-----------------------------------------------------------------------------
(* Orders wait for the user, who executes or cancels them (OrderExecution).   *)

TicketEnds(i) ==
  /\ tickets[i].status = "open"
  /\ \E st \in {"filled", "failed"} :
       /\ tickets' = [tickets EXCEPT ![i].status = st]
       /\ stock' = IF st = "failed" THEN stock
                   ELSE [stock EXCEPT ![Owner[tickets[i].sub]] =
                           IF tickets[i].qty <= @ THEN @ - tickets[i].qty ELSE 0]
  /\ UNCHANGED <<subs, enabled, pass, let_go, grants, calls, aborts>>

-----------------------------------------------------------------------------
(* The loop: process_holdings_exit_once                                       *)

\* What a commit leaves of a row: the columns changed since it was read.
Saved(s, new) ==
  [f \in {"status", "pending", "terms"} |->
     IF new[f] # pass.view[s][f] THEN new[f] ELSE subs[s][f]]
Handled(s) == pass' = [pass EXCEPT !.work = @ \ {s}]
\* A commit of a row that is gone is an exception: it ends the pass.
Gives(s, new) == IF Exists(s) THEN subs' = [subs EXCEPT ![s] = Saved(s, new)] /\ Handled(s)
                 ELSE subs' = subs /\ pass' = HexAsleep
LoopOnly == UNCHANGED <<stock, enabled, let_go, grants, calls, aborts>>

\* Plausible bug: the loop stands still while the feature is switched off.
HexBeginEnabled ==
  /\ pass.pc = "idle" /\ enabled
  /\ pass' = [pass EXCEPT !.pc = "settle", !.view = subs,
                          !.work = {s \in Sub : subs[s].pending # 0}]
  /\ UNCHANGED <<subs, tickets>> /\ LoopOnly
HexBegin ==
  /\ pass.pc = "idle"
  /\ pass' = [pass EXCEPT !.pc = "settle", !.view = subs,
                          !.work = {s \in Sub : subs[s].pending # 0}]
  /\ UNCHANGED <<subs, tickets>> /\ LoopOnly

\* Plausible bug: a failed order arms its subscription again.
EndedRetries(st) == IF st = "filled" THEN "COMPLETED" ELSE "ACTIVE"
Ended(st) == IF st = "filled" THEN "COMPLETED" ELSE "ERROR"
\* _reconcile_pending_orders
HexSettle(s) ==
  /\ pass.pc = "settle" /\ s \in pass.work
  /\ LET old == pass.view[s]
         st == tickets[old.pending].status
     IN  Gives(s, IF st = "open" THEN old
                  ELSE [old EXCEPT !.status = Ended(st), !.pending = 0])
  /\ UNCHANGED tickets /\ LoopOnly

\* The rows to evaluate; those without a user end in ERROR.
DueSubs == {s \in Sub : subs[s].status = "ACTIVE" /\ subs[s].pending = 0}
HexDue ==
  /\ pass.pc = "settle" /\ pass.work = {}
  /\ pass' = IF ~enabled THEN HexAsleep
             ELSE [pass EXCEPT !.pc = "groups", !.view = subs,
                               !.work = {s \in DueSubs : Owner[s] # NoUser}]
  /\ subs' = [s \in Sub |-> IF enabled /\ s \in DueSubs /\ Owner[s] = NoUser
                           THEN [subs[s] EXCEPT !.status = "ERROR"] ELSE subs[s]]
  /\ UNCHANGED tickets /\ LoopOnly

\* One broker call per user.  Without a client its rows are passed over; a call
\* that fails ends the pass for everybody.
GroupOf(u) == {s \in pass.work : Owner[s] = u}
HexGroup(u) ==
  /\ pass.pc = "groups" /\ GroupOf(u) # {}
  /\ \/ pass' = [pass EXCEPT !.work = @ \ GroupOf(u)]
     \/ pass' = [pass EXCEPT !.pc = "rows", !.user = u, !.stock = stock[u]]
     \/ pass' = HexAsleep
  /\ UNCHANGED <<subs, tickets>> /\ LoopOnly

HexNextGroup ==
  /\ \/ pass.pc = "rows" /\ GroupOf(pass.user) = {} /\ pass' = [pass EXCEPT !.pc = "groups", !.user = NoUser, !.stock = 0]
     \/ pass.pc = "groups" /\ pass.work = {} /\ pass' = HexAsleep
  /\ UNCHANGED <<subs, tickets>> /\ LoopOnly

\* Plausible bug: the quantity asked for is not held to the holding.
ExitQtyUncapped(held, t) ==
  LET asked == IF t.pct THEN (held * t.value) \div 100 ELSE t.value
  IN  IF asked > t.min THEN asked ELSE t.min
\* _compute_exit_qty
ExitQty(held, t) ==
  LET asked == IF t.pct THEN (held * t.value) \div 100 ELSE t.value
      least == IF asked > t.min THEN asked ELSE t.min
  IN  IF least < held THEN least ELSE held

\* _evaluate_active_subscriptions, the row's part: nothing left to sell; no quote
\* or target not met; no target; the order, in one commit with the row.
HexEvaluate(s) ==
  /\ pass.pc = "rows" /\ s \in GroupOf(pass.user)
  /\ LET old == pass.view[s]
         qty == ExitQty(pass.stock, old.terms)
         stays == tickets' = tickets
     IN  \/ pass.stock = 0 /\ Gives(s, [old EXCEPT !.status = "COMPLETED"]) /\ stays
         \/ pass.stock > 0 /\ Gives(s, old) /\ stays
         \/ pass.stock > 0 /\ Gives(s, [old EXCEPT !.status = "ERROR"]) /\ stays
         \/ /\ qty > 0 /\ Len(tickets) < MaxTickets
            /\ Gives(s, [old EXCEPT !.status = "ORDER_CREATED", !.pending = Len(tickets) + 1])
            /\ tickets' = IF Exists(s)
                          THEN Append(tickets, [sub |-> s, qty |-> qty, status |-> "open"])
                          ELSE tickets
  /\ LoopOnly

HexCrash ==
  /\ pass.pc # "idle" /\ aborts < MaxAborts
  /\ pass' = HexAsleep /\ aborts' = aborts + 1
  /\ UNCHANGED <<subs, tickets, stock, enabled, let_go, grants, calls>>

HexUser(s) == HexCreate(s) \/ HexPatch(s) \/ HexPause(s) \/ HexResume(s) \/ HexDelete(s)
HexLoop == \/ HexBegin \/ HexDue \/ HexNextGroup
           \/ \E s \in Sub : HexSettle(s) \/ HexEvaluate(s)
           \/ \E u \in User : HexGroup(u)
HexNext == \/ \E s \in Sub : HexUser(s)
           \/ HexSwitch \/ HexLoop \/ HexCrash
           \/ \E i \in 1..Len(tickets) : TicketEnds(i)

\* The loop's thread runs on.
HexFairness == WF_hexVars(HexLoop)
HexSpec == HexInit /\ [][HexNext]_hexVars /\ HexFairness

-----------------------------------------------------------------------------
(* Properties *)

Ticket == [sub : Sub, qty : 1..Stock, status : {"open", "filled", "failed"}]
HexTypeOK ==
  /\ subs \in [Sub -> Row] /\ stock \in [User -> 0..Stock]
  /\ \A i \in 1..Len(tickets) : tickets[i] \in Ticket
  /\ enabled \in BOOLEAN /\ let_go \subseteq 1..Len(tickets)
  /\ pass.pc \in {"idle", "settle", "groups", "rows"} /\ pass.work \subseteq Sub
  /\ pass.view \in [Sub -> Row] /\ pass.stock \in 0..Stock

\* However the loop's passes, its crashes and the user's calls interleave, a
\* subscription creates at most one order per creation or Resume by the user.
OneTicketPerGrant ==
  \A s \in Sub : Cardinality({i \in 1..Len(tickets) : tickets[i].sub = s}) <= grants[s]

\* An order that has not ended is the pending one of its subscription, unless a
\* Resume or a deletion has let go of it: the loop will learn how it ends.
TicketsAreTracked ==
  \A i \in 1..Len(tickets) :
    tickets[i].status = "open" => subs[tickets[i].sub].pending = i \/ i \in let_go

\* The loop of the holdings exits gives every grant one order, and none is lost.
GrantsGiveTickets == OneTicketPerGrant /\ TicketsAreTracked

\* The end of a pending order reaches its subscription, also while the feature is
\* switched off and whatever the brokers answer: again and again, no subscription
\* waits for an order that has ended.
TicketsSettle ==
  []<>(\A s \in Sub : subs[s].pending # 0 => tickets[subs[s].pending].status = "open")
=============================================================================
