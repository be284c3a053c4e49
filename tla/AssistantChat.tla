---------------------------- MODULE AssistantChat ----------------------------
(* One thread of the assistant (backend/app/services/ai_toolcalling): requests *)
(* that let a language model call tools, the approvals the user gives for what *)
(* costs credits or shows the portfolio to a remote model, and the orders the  *)
(* model may place.  Whatever the model asks for is possible; the conditions   *)
(* are those of orchestrator.py, trust_policy.py, lsg_policy.py, the approvals *)
(* of api/ai_trading_manager.py and the requests of api/ai_chat.py.            *)
EXTENDS Integers, FiniteSets

CONSTANTS
  Message,      \* what the user says, each an authorization of its own
  Chat,         \* requests being served
  ChatSetups,   \* [remote, detail, limit, explicit]: provider, portfolio detail,
                \* searches, the messages that ask for an execution
  Query,        \* what the model searches for
  Extra,        \* how many searches one approval allows
  MaxTurns,     \* bound on the tool calls
  MaxTalks, MaxPlans, MaxApprovals, MaxFlips, MaxDeaths

ASSUME ChatSetupsAssumption ==
  ChatSetups \subseteq [remote : BOOLEAN, detail : {"OFF", "DIGEST_ONLY", "FULL_SANITIZED"},
                        limit : Nat, explicit : SUBSET Message]
ASSUME ChatAssumption == Message # {} /\ IsFiniteSet(Chat) /\ Extra \subseteq Nat /\ MaxPlans \in Nat

VARIABLES
  chatSetup,  \* the installation and the user
  thread,     \* the row ai_tm_thread_state
  talk,       \* each request: its step, message, plan or query, and what it had read
  kept,       \* messages stored in the thread
  asked,      \* kinds of approval that were asked for
  approver,   \* an approval request: none, or the row's extra as it read it
  cached,     \* searches answered within the last two minutes
  trading,    \* executions are enabled
  proposed,   \* number of plans proposed
  planKeys,   \* idempotency records: messages with a plan
  bought,     \* orders at the broker, by message and plan
  spent,      \* searches sent
  shown,      \* portfolio reads a remote model got by `allow once'
  granted,    \* [extra, once]: what the user allowed
  crossed,    \* two runs searched at once, or on a state of the row that was not
              \* its last, or wrote over one
  expired,    \* searches that went on a cache entry which ended just then
  tally       \* [talks, turns, approvals, flips, deaths, lost]: bounds and lost searches

chatVars == <<chatSetup, thread, talk, kept, asked, approver, cached, trading, proposed,
              planKeys, bought, spent, shown, granted, crossed, expired, tally>>

NoApprover == -1
NewThread == [calls |-> 0, extra |-> 0, once |-> FALSE, session |-> FALSE]
NoTalk == [pc |-> "idle", msg |-> CHOOSE m \in Message : TRUE, item |-> 0,
           view |-> NewThread, trading |-> FALSE]

ChatInit ==
  /\ chatSetup \in ChatSetups
  /\ thread = NewThread
  /\ talk = [c \in Chat |-> NoTalk]
  /\ kept = {} /\ asked = {} /\ approver = NoApprover
  /\ cached = {} /\ trading = TRUE
  /\ proposed = 0 /\ planKeys = {}
  /\ bought = [m \in Message |-> [p \in 1..MaxPlans |-> 0]]
  /\ spent = 0 /\ shown = 0 /\ granted = [extra |-> 0, once |-> 0]
  /\ crossed = FALSE /\ expired = 0
  /\ tally = [talks |-> 0, turns |-> 0, approvals |-> 0, flips |-> 0, deaths |-> 0, lost |-> 0]

\* What only the listed group of variables changes leaves these alone.
installed == <<chatSetup, trading>>
deals == <<proposed, planKeys, bought>>
consents == <<asked, approver, granted>>
meters == <<spent, shown, crossed, expired>>

Talking == {c \in Chat : talk[c].pc # "idle"}
\* The model calls a tool.
AtTurn(c) == /\ talk[c].pc = "turn" /\ tally.turns < MaxTurns
             /\ tally' = [tally EXCEPT !.turns = @ + 1]
Goes(c, pc, item) == [talk EXCEPT ![c].pc = pc, ![c].item = item]
Answered(c, view) == [talk EXCEPT ![c].pc = "turn", ![c].item = 0, ![c].view = view]

\* run_chat begins: settings and thread state are read once, for all of the run.
StartTalk(c, m) ==
  /\ talk[c].pc = "idle" /\ tally.talks < MaxTalks
  /\ talk' = [talk EXCEPT ![c] = [pc |-> "turn", msg |-> m, item |-> 0, view |-> thread,
                                  trading |-> trading]]
  /\ tally' = [tally EXCEPT !.talks = @ + 1]
  /\ UNCHANGED <<installed, thread, kept, cached, deals, consents, meters>>

\* A new message; a message stored in the thread, run again from its beginning.
Ask(c, m) == /\ m \notin kept /\ \A d \in Talking : talk[d].msg # m
             /\ \A p \in 1..MaxPlans : <<m, p>> \notin planKeys
             /\ StartTalk(c, m)
TalkResume(c, m) == m \in kept /\ StartTalk(c, m)

\* The run is over, with an answer or with a question to the user; only now is
\* its message stored.
EndsTalk(c) == /\ talk' = [talk EXCEPT ![c] = NoTalk]
               /\ kept' = kept \cup {talk[c].msg}
Finish(c) ==
  /\ talk[c].pc = "turn"
  /\ EndsTalk(c)
  /\ UNCHANGED <<installed, thread, cached, deals, consents, meters, tally>>

\* tavily_budget_decision, on the view of the run.
WithinBudget(view) == chatSetup.limit > 0 /\ (view.calls < chatSetup.limit \/ view.extra > 0)

Stale(view) == view.calls # thread.calls \/ view.extra # thread.extra

\* A search: answered from the cache, within the budget, or the user is asked.
CallSearch(c, q) ==
  /\ AtTurn(c)
  /\ IF q \in cached \/ WithinBudget(talk[c].view)
     THEN talk' = Goes(c, "send", q) /\ UNCHANGED <<kept, asked>>
     ELSE EndsTalk(c) /\ asked' = asked \cup {"search"}
  /\ UNCHANGED <<installed, thread, cached, deals, approver, granted, meters>>

\* The gateway may refuse it (arguments, rate); the executor looks into the cache
\* again, then sends the search.
SendSearch(c, admitted) ==
  LET q == talk[c].item IN
  /\ talk[c].pc = "send"
  /\ IF ~admitted \/ q \in cached
     THEN talk' = Answered(c, talk[c].view) /\ UNCHANGED <<spent, crossed, expired>>
     ELSE /\ talk' = Goes(c, "searching", q)
          /\ spent' = spent + 1
          /\ crossed' = (crossed \/ Stale(talk[c].view) 
                         \/ \E d \in Chat : talk[d].pc = "searching")
          /\ expired' = IF WithinBudget(talk[c].view) THEN expired ELSE expired + 1
  /\ UNCHANGED <<installed, thread, kept, cached, deals, consents, shown, tally>>

\* Plausible bug: an approved search does not use up its approval.
CountedForever(view) == [view EXCEPT !.calls = @ + 1]

\* The state after a search, counted whether it succeeded or not.
CountedSearch(view) ==
  LET over == view.calls + 1 > chatSetup.limit IN
  [view EXCEPT !.calls = @ + 1, !.extra = IF over /\ @ > 0 THEN @ - 1 ELSE @]

\* patch_thread_state replaces the fields it is given, with the run's values.
SearchAnswers(c, ok) ==
  LET view == talk[c].view
      count == CountedSearch(view)
      next == [thread EXCEPT !.calls = count.calls, !.extra = count.extra]
  IN
  /\ talk[c].pc = "searching"
  /\ thread' = next
  /\ talk' = Answered(c, next)
  /\ cached' = IF ok THEN cached \cup {talk[c].item} ELSE cached
  /\ crossed' = (crossed \/ Stale(view))
  /\ UNCHANGED <<installed, kept, deals, consents, spent, shown, expired, tally>>

\* A portfolio read.  A remote model needs the user's approval; then the gateway
\* lets it through only when the detail level is FULL_SANITIZED.
CallRead(c) ==
  LET view == talk[c].view IN
  /\ AtTurn(c)
  /\ IF ~chatSetup.remote
     THEN talk' = Answered(c, view) /\ UNCHANGED <<kept, asked>>
     ELSE IF chatSetup.detail = "OFF" \/ ~(view.session \/ view.once)
     THEN EndsTalk(c) /\ asked' = IF chatSetup.detail = "OFF" THEN asked ELSE asked \cup {"read"}
     ELSE /\ talk' = IF chatSetup.detail = "FULL_SANITIZED" THEN Goes(c, "reading", 0)
                     ELSE Answered(c, view)
          /\ UNCHANGED <<kept, asked>>
  /\ UNCHANGED <<installed, thread, cached, deals, approver, granted, meters>>

\* `Allow once' is used up by a read that succeeds.
ReadAnswers(c, ok) ==
  LET view == talk[c].view
      uses == ok /\ ~view.session /\ view.once
      next == [thread EXCEPT !.once = FALSE]
  IN
  /\ talk[c].pc = "reading"
  /\ IF uses
     THEN /\ thread' = next /\ talk' = Answered(c, next)
          /\ crossed' = (crossed \/ thread.once # view.once)
     ELSE /\ talk' = Answered(c, view) /\ UNCHANGED <<thread, crossed>>
  /\ shown' = IF ok /\ ~view.session THEN shown + 1 ELSE shown
  /\ UNCHANGED <<installed, kept, cached, deals, consents, spent, expired, tally>>

\* propose_trade_plan: a plan with an id of its own, each time.
ProposePlan(c) ==
  /\ AtTurn(c) /\ proposed < MaxPlans
  /\ proposed' = proposed + 1
  /\ talk' = Answered(c, talk[c].view)
  /\ UNCHANGED <<installed, thread, kept, cached, planKeys, bought, consents, meters>>

\* Plausible bug: a plan is executed again when the model asks again.
ExecuteAgain(c, p, passes) ==
  LET m == talk[c].msg IN
  /\ AtTurn(c) /\ p <= proposed
  /\ IF passes /\ m \in chatSetup.explicit /\ talk[c].trading
     THEN planKeys' = planKeys \cup {<<m, p>>} /\ talk' = Goes(c, "placing", p)
     ELSE talk' = Answered(c, talk[c].view) /\ UNCHANGED planKeys
  /\ UNCHANGED <<installed, thread, kept, cached, proposed, bought, consents, meters>>

\* execute_trade_plan: vetoed, by the risk gate too, answered from the record of
\* its key, or begun.
\* No other request comes in between the record's creation and its SUBMITTED.
ExecutePlan(c, p, passes) ==
  LET m == talk[c].msg
      key == <<m, p>>
  IN
  /\ AtTurn(c) /\ p <= proposed
  /\ IF passes /\ m \in chatSetup.explicit /\ talk[c].trading /\ key \notin planKeys
     THEN planKeys' = planKeys \cup {key} /\ talk' = Goes(c, "placing", p)
     ELSE talk' = Answered(c, talk[c].view) /\ UNCHANGED planKeys
  /\ UNCHANGED <<installed, thread, kept, cached, proposed, bought, consents, meters>>

\* place_order: taken or refused, its answer heard or lost; a run goes on after
\* any of these.
PlaceAnswers(c, taken) ==
  /\ talk[c].pc = "placing"
  /\ bought' = IF taken THEN [bought EXCEPT ![talk[c].msg][talk[c].item] = @ + 1] ELSE bought
  /\ talk' = Answered(c, talk[c].view)
  /\ UNCHANGED <<installed, thread, kept, cached, proposed, planKeys, consents, meters, tally>>

\* POST /approvals on more searches: what is read of the row is written later.
ApproveRead ==
  /\ "search" \in asked /\ approver = NoApprover /\ tally.approvals < MaxApprovals
  /\ approver' = thread.extra
  /\ tally' = [tally EXCEPT !.approvals = @ + 1]
  /\ UNCHANGED <<installed, thread, talk, kept, asked, granted, cached, deals, meters>>

ApproveSearches(n) ==
  /\ approver # NoApprover
  /\ thread' = [thread EXCEPT !.extra = approver + n]
  /\ granted' = [granted EXCEPT !.extra = @ + n]
  /\ approver' = NoApprover
  /\ crossed' = (crossed \/ thread.extra # approver)
  /\ UNCHANGED <<installed, talk, kept, asked, cached, deals, spent, shown, expired, tally>>

\* POST /approvals on the portfolio: once, for the session, or denied.
ApproveDetail(decision) ==
  /\ "read" \in asked /\ tally.approvals < MaxApprovals
  /\ tally' = [tally EXCEPT !.approvals = @ + 1]
  /\ thread' = IF decision = "once" THEN [thread EXCEPT !.once = TRUE]
               ELSE [thread EXCEPT !.once = FALSE, !.session = (decision = "session")]
  /\ granted' = IF decision = "once" THEN [granted EXCEPT !.once = @ + 1] ELSE granted
  /\ UNCHANGED <<installed, talk, kept, asked, approver, cached, deals, meters>>

\* The operator's kill switch.
FlipTrading ==
  /\ tally.flips < MaxFlips
  /\ trading' = ~trading
  /\ tally' = [tally EXCEPT !.flips = @ + 1]
  /\ UNCHANGED <<chatSetup, thread, talk, kept, cached, deals, consents, meters>>

CacheExpires(q) ==
  /\ q \in cached
  /\ cached' = cached \ {q}
  /\ UNCHANGED <<installed, thread, talk, kept, deals, consents, meters, tally>>

\* The process dies: the cache and the searches under way are forgotten.
ChatDies ==
  /\ tally.deaths < MaxDeaths /\ Talking # {}
  /\ tally' = [tally EXCEPT !.deaths = @ + 1,
                            !.lost = @ + Cardinality({c \in Chat : talk[c].pc = "searching"})]
  /\ talk' = [c \in Chat |-> NoTalk]
  /\ approver' = NoApprover /\ cached' = {}
  /\ UNCHANGED <<installed, thread, kept, asked, granted, deals, meters>>

ChatNext ==
  \/ \E c \in Chat :
       \/ \E m \in Message : Ask(c, m) \/ TalkResume(c, m)
       \/ Finish(c) \/ CallRead(c) \/ ProposePlan(c)
       \/ \E q \in Query : CallSearch(c, q)
       \/ \E p \in 1..MaxPlans, ok \in BOOLEAN : ExecutePlan(c, p, ok)
       \/ \E ok \in BOOLEAN : SendSearch(c, ok) \/ SearchAnswers(c, ok) \/ ReadAnswers(c, ok) \/ PlaceAnswers(c, ok)
  \/ ApproveRead
  \/ \E n \in Extra : ApproveSearches(n)
  \/ \E d \in {"once", "session", "deny"} : ApproveDetail(d)
  \/ FlipTrading
  \/ \E q \in Query : CacheExpires(q)
  \/ ChatDies

ChatSpec == ChatInit /\ [][ChatNext]_chatVars

ChatTypeOK ==
  /\ chatSetup \in ChatSetups
  /\ thread.calls \in 0..spent /\ thread.extra \in 0..granted.extra
  /\ \A c \in Chat : talk[c].pc \in {"idle", "turn", "send", "searching", "reading", "placing"}
  /\ kept \subseteq Message /\ asked \subseteq {"search", "read"}
  /\ planKeys \subseteq Message \X (1..proposed)

\* Searches go beyond the limit only as far as the user allowed, whatever is
\* repeated, resumed, denied or cached, counting those whose run died under way
\* and those sent on a cache entry that ended just then.
BudgetHolds == ~crossed => spent <= chatSetup.limit + granted.extra + tally.lost + expired

\* A remote model reads the portfolio once for each `allow once'.
ReadsAreGranted == ~crossed => shown <= granted.once

\* A plan is placed once under one message, and under no message that did not
\* ask for it, however often the model or a resumed run asks again.
PlansPlacedOnce ==
  \A m \in Message, p \in 1..MaxPlans :
    bought[m][p] <= 1 /\ (bought[m][p] > 0 => m \in chatSetup.explicit)

\* Nothing costs more, shows more or buys more than the user allowed, as long as
\* no run and no approval writes over a state of the thread it has not seen.
ChatKeepsToGrants == BudgetHolds /\ ReadsAreGranted /\ PlansPlacedOnce
=============================================================================
