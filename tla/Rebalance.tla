------------------------------- MODULE Rebalance -------------------------------
(* Rebalancing of a portfolio group towards its target weights: the plan      *)
(* (services/rebalance.py) and its execution as a run with an idempotency     *)
(* key (api/rebalance.py).                                                    *)
(*                                                                            *)
(* Numbers are exact where the code has floats: weights are multiples of      *)
(* 1/Whole, and values that the code divides by the sum of the weights are    *)
(* kept multiplied by it.  Prices stay what they are.  Rotation and risk      *)
(* methods, which choose other weights, and targets other than groups, which  *)
(* have no runs, are left out.                                                *)
EXTENDS Integers, Sequences, FiniteSets, FiniteSetsExt

CONSTANTS
  Share,       \* the members of the group
  Whole,       \* the weight of the whole portfolio
  Desks,       \* prices (0: unknown), holdings, weights and policies to plan with
  RunKey,      \* idempotency keys
  Clerk,       \* request threads
  MaxRequests, MaxLapses   \* bounds: requests; crashes and failures

NoWeight == -1
Policy == [budget : Nat, least : Nat, most : Nat, band : Nat, rel : Nat]
Desk == [price : [Share -> Nat], held : [Share -> Nat], own : [Share -> Nat],
         weight : [Share -> Nat \cup {NoWeight}], policy : Policy]
ASSUME DeskAssumption == Desks \subseteq Desk
ASSUME RebAssumption == /\ Share # {} /\ IsFiniteSet(Share)
                        /\ Whole \in Nat \ {0} /\ MaxRequests \in Nat /\ MaxLapses \in Nat

VARIABLES
  desk,      \* prices, weights and policy
  held,      \* holdings at the broker
  own,       \* the group's reference quantities
  runs,      \* the run rows by key
  clerk,     \* what each request is doing
  bids,      \* the orders created, in their order
  requests, lapses

rebVars == <<desk, held, own, runs, clerk, bids, requests, lapses>>

NoRun == [status |-> "none", own |-> [s \in Share |-> 0], held |-> [s \in Share |-> 0]]
NoClerk == [pc |-> "idle", key |-> {}, trades |-> {}, run |-> NoRun]

RebInit ==
  /\ desk \in Desks
  /\ held = desk.held /\ own = desk.own
  /\ runs = [k \in RunKey |-> NoRun]
  /\ clerk = [c \in Clerk |-> NoClerk]
  /\ bids = <<>> /\ requests = 0 /\ lapses = 0

-----------------------------------------------------------------------------
(* The plan *)

Total(f) == SumFunctionOnSet(f, Share)
Positive(n) == IF n > 0 THEN n ELSE 0

\* _normalize_target_weights: the weights, and what they sum up to.  Members
\* without a weight share what the others leave.
Given == [s \in Share |-> Positive(desk.weight[s])]
Unweighted == {s \in Share : desk.weight[s] = NoWeight}
Weights ==
  IF Total(Given) = 0 THEN [s \in Share |-> 1]
  ELSE IF Total(Given) >= Whole \/ Unweighted = {} THEN Given
  ELSE [s \in Share |-> IF s \in Unweighted THEN Whole - Total(Given) ELSE Given[s] * Cardinality(Unweighted)]
Sum == Total(Weights)

Value(q) == [s \in Share |-> q[s] * desk.price[s]]
Abs(n) == IF n >= 0 THEN n ELSE -n
Greater(m, n) == IF m >= n THEN m ELSE n

\* By how much each member is off its target, times the sum of the weights, when
\* the group has the quantities q.
Off(q) ==
  LET weights == Weights
      sum == Sum
      values == Value(q)
      whole == Total(values)
  IN  [s \in Share |-> weights[s] * whole - sum * values[s]]

\* Plausible bug: a trade is rounded up to whole shares.
SharesUp(off, turnover, sum, price) ==
  IF desk.policy.budget * sum >= turnover THEN (Abs(off) + sum * price - 1) \div (sum * price)
  ELSE (Abs(off) * desk.policy.budget) \div (turnover * price)
\* All trades are scaled down so that buys and sells fit the budget.
Shares(off, turnover, sum, price) ==
  IF desk.policy.budget * sum >= turnover THEN Abs(off) \div (sum * price)
  ELSE (Abs(off) * desk.policy.budget) \div (turnover * price)

Notional(t) == t.qty * desk.price[t.sym]

\* _preview_rebalance_single_broker: the trades towards the targets.
Proposed(off, sum, whole, stock) ==
  LET far(s) == /\ Abs(off[s]) * Whole >= desk.policy.band * sum * whole
                /\ Abs(off[s]) * 100 >= desk.policy.rel * Weights[s] * whole
      moved == {s \in Share : off[s] # 0 /\ desk.price[s] # 0 /\ far(s)}
      turnover == Greater(SumFunction([s \in moved |-> Positive(off[s])]),
                         SumFunction([s \in moved |-> Positive(-off[s])]))
      shares == [s \in moved |-> Shares(off[s], turnover, sum, desk.price[s])]
      trades == {[sym |-> s, side |-> IF off[s] > 0 THEN "BUY" ELSE "SELL",
                  qty |-> IF off[s] < 0 /\ stock[s] < shares[s] THEN stock[s] ELSE shares[s]] : s \in moved}
  IN  {t \in trades : t.qty > 0 /\ Notional(t) >= desk.policy.least}

\* The largest trades are kept; equals in any order.
Plan(trades) ==
  {T \in SUBSET trades :
     /\ Cardinality(T) = Cardinality(trades) \/ Cardinality(T) = desk.policy.most
     /\ Cardinality(T) <= desk.policy.most
     /\ \A t \in T, u \in trades \ T : Notional(t) >= Notional(u)}

-----------------------------------------------------------------------------
(* rebalance_execute *)

DeskOnly == UNCHANGED <<desk, held, own, lapses>>

\* A run of the same key is the answer, finished or not.
RebRequest(c, k) ==
  /\ clerk[c].pc = "idle"
  /\ requests < MaxRequests /\ requests' = requests + 1
  /\ clerk' = IF runs[k].status # "none" THEN clerk
              ELSE [clerk EXCEPT ![c] = [NoClerk EXCEPT !.pc = "plan", !.key = {k}]]
  /\ UNCHANGED <<runs, bids>> /\ DeskOnly

\* A portfolio without value is an error.
RebPlan(c) ==
  /\ clerk[c].pc = "plan"
  /\ IF Total(Value(own)) = 0 THEN clerk' = [clerk EXCEPT ![c] = NoClerk]
     ELSE \E off \in {Off(own)}, whole \in {Total(Value(own))} :
          \E T \in Plan(Proposed(off, Sum, whole, held)) :
            clerk' = [clerk EXCEPT ![c].pc = "run", ![c].trades = T,
                        ![c].run = [status |-> "CREATED", own |-> own, held |-> held]]
  /\ UNCHANGED <<runs, bids, requests>> /\ DeskOnly

\* Plausible bug: the run's key is not unique.
RebRunAnyway(c, k) ==
  /\ clerk[c].pc = "run" /\ clerk[c].key = {k}
  /\ runs' = [runs EXCEPT ![k] = clerk[c].run]
  /\ clerk' = [clerk EXCEPT ![c].pc = "trade"]
  /\ UNCHANGED <<bids, requests>> /\ DeskOnly

\* The key is unique: a second run is an error.
RebRun(c, k) ==
  /\ clerk[c].pc = "run" /\ clerk[c].key = {k}
  /\ IF runs[k].status # "none"
     THEN runs' = runs /\ clerk' = [clerk EXCEPT ![c] = NoClerk]
     ELSE /\ runs' = [runs EXCEPT ![k] = clerk[c].run]
          /\ clerk' = [clerk EXCEPT ![c].pc = "trade"]
  /\ UNCHANGED <<bids, requests>> /\ DeskOnly

\* An order and its link to the run; an AUTO order is executed at once.
RebTrade(c, k, t) ==
  /\ clerk[c].pc = "trade" /\ clerk[c].key = {k} /\ t \in clerk[c].trades
  /\ bids' = Append(bids, [key |-> k, trade |-> t, done |-> FALSE])
  /\ clerk' = [clerk EXCEPT ![c].trades = @ \ {t}]
  /\ UNCHANGED <<runs, requests>> /\ DeskOnly

RebDone(c, k) ==
  /\ clerk[c].pc = "trade" /\ clerk[c].key = {k} /\ clerk[c].trades = {}
  /\ runs' = [runs EXCEPT ![k].status = "EXECUTED"]
  /\ clerk' = [clerk EXCEPT ![c] = NoClerk]
  /\ UNCHANGED <<bids, requests>> /\ DeskOnly

\* An exception between two orders ends the run as FAILED; a crash leaves it CREATED.
RebFails(c, k) ==
  /\ clerk[c].pc = "trade" /\ clerk[c].key = {k}
  /\ lapses < MaxLapses /\ lapses' = lapses + 1
  /\ runs' \in {runs, [runs EXCEPT ![k].status = "FAILED"]}
  /\ clerk' = [clerk EXCEPT ![c] = NoClerk]
  /\ UNCHANGED <<desk, held, own, bids, requests>>

\* An order is filled, and booked for the group.
BidFills(i) ==
  /\ ~bids[i].done /\ bids' = [bids EXCEPT ![i].done = TRUE]
  /\ LET t == bids[i].trade
         moved(n) == IF t.side = "BUY" THEN n + t.qty ELSE Positive(n - t.qty)
     IN  held' = [held EXCEPT ![t.sym] = moved(@)] /\ own' = [own EXCEPT ![t.sym] = moved(@)]
  /\ UNCHANGED <<desk, runs, clerk, requests, lapses>>

RebNext ==
  \/ \E c \in Clerk : RebPlan(c)
  \/ \E c \in Clerk, k \in RunKey :
       \/ RebRequest(c, k) \/ RebRun(c, k) \/ RebDone(c, k) \/ RebFails(c, k)
       \/ \E t \in clerk[c].trades : RebTrade(c, k, t)
  \/ \E i \in 1..Len(bids) : BidFills(i)

RebSpec == RebInit /\ [][RebNext]_rebVars

-----------------------------------------------------------------------------
(* Properties *)

Trade == [sym : Share, side : {"BUY", "SELL"}, qty : Nat \ {0}]
RebTypeOK ==
  /\ held \in [Share -> Nat] /\ own \in [Share -> Nat]
  /\ \A k \in RunKey : /\ runs[k].status \in {"none", "CREATED", "EXECUTED", "FAILED"}
                       /\ {runs[k].own, runs[k].held} \subseteq [Share -> Nat]
  /\ \A c \in Clerk : /\ clerk[c].pc \in {"idle", "plan", "run", "trade"}
                      /\ clerk[c].trades \subseteq Trade /\ clerk[c].key \subseteq RunKey
  /\ \A i \in 1..Len(bids) : bids[i] \in [key : RunKey, trade : Trade, done : BOOLEAN]

BidsOf(k) == {i \in 1..Len(bids) : bids[i].key = k}
Spent(k, side) ==
  SumFunction([i \in {j \in BidsOf(k) : bids[j].trade.side = side} |-> Notional(bids[i].trade)])

\* Through repeated, overlapping and failing requests, the orders created under
\* one key trade a symbol once, keep buys and sells each within the budget, and
\* bring no member past the target that the run was planned with; nothing is sold
\* that was not held then.
KeyKeepsPlan ==
  \A k \in RunKey :
    /\ Spent(k, "BUY") <= desk.policy.budget /\ Spent(k, "SELL") <= desk.policy.budget
    /\ \A i, j \in BidsOf(k) : i # j => bids[i].trade.sym # bids[j].trade.sym
    /\ \A i \in BidsOf(k) :
         LET t == bids[i].trade
             off == Off(runs[k].own)[t.sym]
         IN  /\ (t.side = "BUY") = (off > 0)
             /\ Sum * Notional(t) <= Abs(off)
             /\ t.side = "SELL" => t.qty <= runs[k].held[t.sym]
=============================================================================
