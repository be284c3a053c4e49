--------------------------- MODULE AiExecutionProofs ---------------------------
(* Theorems about AiExecution and AssistantChat, for every value of their     *)
(* constants: a plan is never executed twice under one idempotency key, nor by *)
(* the automation in one window of its cadence; and the assistant keeps to    *)
(* what the user granted.                                                     *)
EXTENDS AiExecution, AssistantChat, FiniteSetTheorems, TLAPS

-----------------------------------------------------------------------------
(* The inductive invariant, in named parts *)

AutoKeys == [kind : {"auto"}, p : Playbook, by : Approval, at : 1..LastWindow]
RunKeys == [kind : {"run"}, p : Playbook, by : Approval, at : {0}]
AutoKey(p, m, w) == [kind |-> "auto", p |-> p, by |-> m, at |-> w]

AiPc == {"rest", "begin", "mismatch", "submit", "place", "ran", "tick", "moved"}
Working == {"begin", "mismatch", "submit", "place", "ran"}
Active == {"mismatch", "submit", "place"}
AgentType == [pc : AiPc, key : AiKey \cup {Resting.key}, plan : SUBSET Scrip, due : SUBSET Playbook,
              view : [Playbook -> Playbooks] \cup {Resting.view}, at : Nat]
RecordType == [plan : Tradeplans \cup {{}}, status : RecordStatus, result : BOOLEAN]

AiTyped ==
  /\ book \in [Playbook -> Playbooks] /\ window \in 1..LastWindow
  /\ record \in [AiKey -> RecordType]
  /\ done \in [Playbook -> SUBSET (1..LastWindow)]
  /\ agent \in [Agent -> AgentType]
  /\ placed \in [AiKey -> [Scrip -> Nat]]
  /\ fell \subseteq AiKey /\ edits \in Nat /\ breaks \in Nat

\* Callers use the keys of run-now, the ticker those of its window; a playbook
\* it executes is no longer on its list.
KeysFit ==
  /\ \A c \in Caller : /\ agent[c].pc \in Working \cup {"rest"}
                       /\ agent[c].pc # "rest" => agent[c].key \in RunKeys
  /\ LET t == agent[Ticker] IN
       /\ t.pc # "rest" => /\ t.at \in 1..window /\ t.view \in [Playbook -> Playbooks]
                           /\ \A p \in t.due : t.view[p].by \in Approval
       /\ t.pc \in Working \cup {"moved"} =>
            /\ t.key \in AutoKeys /\ t.key.at = t.at /\ t.key.p \notin t.due
  /\ \A a \in Agent : agent[a].pc \in {"begin", "mismatch", "submit"} => agent[a].plan \in Tradeplans

\* What an agent that is executing knows of its record.
RecordsFit ==
  /\ \A k \in AiKey : record[k].status = "none" => ~record[k].result /\ record[k].plan = {}
  /\ \A a \in Agent :
       LET k == agent[a].key IN
       /\ agent[a].pc \in Active => record[k].status # "none"
       /\ agent[a].pc = "submit" => agent[a].plan = record[k].plan
       /\ agent[a].pc = "place" => /\ agent[a].plan \subseteq record[k].plan /\ record[k].result
                                   /\ \A s \in record[k].plan \ agent[a].plan : placed[k][s] >= 1

\* Keys that one agent at a time executes: those never met while empty, and the
\* automation's, which only the ticker uses.
Lone(k) == k \in AiKey /\ (k \notin fell \/ k \in AutoKeys)
LoneAgents ==
  \A a, b \in Agent : /\ agent[a].pc \in Active /\ agent[b].pc \in Active
                      /\ agent[a].key = agent[b].key /\ Lone(agent[a].key)
                      => a = b
LonePlaces ==
  \A k \in AiKey : Lone(k) =>
    /\ ~record[k].result => \A s \in Scrip : placed[k][s] = 0
    /\ \A s \in Scrip : placed[k][s] <= IF s \in record[k].plan THEN 1 ELSE 0
    /\ \A a \in Agent : agent[a].key = k =>
         /\ agent[a].pc \in {"submit", "mismatch"} => ~record[k].result
         /\ agent[a].pc = "place" => \A s \in agent[a].plan : placed[k][s] = 0

\* The window of an execution that has begun is over for every other approval:
\* run, or due for the same approval only, or behind the next run.
Begun(p, m, w) == record[AutoKey(p, m, w)].status # "none"
Settled(p, m, w) == book[p].by \in {0, m} \/ book[p].next > w
WindowsFit ==
  \A p \in Playbook, m \in Approval, w \in 1..LastWindow : Begun(p, m, w) =>
    /\ w <= IF agent[Ticker].pc = "rest" THEN window ELSE agent[Ticker].at
    /\ \A n \in Approval : Begun(p, n, w) => n = m
    /\ w \in done[p] \/ Settled(p, m, w)
TickFits ==
  LET t == agent[Ticker] IN
  /\ t.pc # "rest" => \A p \in t.due :
       /\ Settled(p, t.view[p].by, t.at)
       /\ \A m \in Approval : Begun(p, m, t.at) => t.at \in done[p] \/ m = t.view[p].by
  /\ t.pc = "begin" =>
       /\ Settled(t.key.p, t.key.by, t.at)
       /\ \A m \in Approval : Begun(t.key.p, m, t.at) => m = t.key.by

AiInv == AiTyped /\ KeysFit /\ RecordsFit /\ LoneAgents /\ LonePlaces /\ WindowsFit /\ TickFits
            /\ ConfirmedIsComplete

-----------------------------------------------------------------------------
(* What the steps' updates do, fact by fact *)

LEMMA KeysApart ==
  /\ AiKey = AutoKeys \cup RunKeys
  /\ \A k \in AutoKeys : k \notin RunKeys
BY DEF AiKey, AutoKeys, RunKeys

LEMMA AutoKeyFields ==
  ASSUME NEW k \in AutoKeys
  PROVE  k.p \in Playbook /\ k.by \in Approval /\ k.at \in 1..LastWindow /\ k = AutoKey(k.p, k.by, k.at)
BY DEF AutoKeys, AutoKey

\* Agent a, and no other, is at pc with plan left to place.
Moves(a, pc, plan) ==
  /\ agent' \in [Agent -> AgentType]
  /\ \A b \in Agent : b # a => agent'[b] = agent[b]
  /\ agent'[a].pc = pc /\ agent'[a].plan = plan /\ agent'[a].key = agent[a].key
  /\ agent'[a].at = agent[a].at /\ agent'[a].due = agent[a].due /\ agent'[a].view = agent[a].view

LEMMA ToMoves ==
  ASSUME agent \in [Agent -> AgentType], NEW a \in Agent, NEW pc \in AiPc, To(a, pc)
  PROVE  Moves(a, pc, agent[a].plan)
BY DEF To, Moves, AgentType

LEMMA PlacedMoves ==
  ASSUME agent \in [Agent -> AgentType], NEW a \in Agent, NEW s \in Scrip,
         agent' = [agent EXCEPT ![a].plan = @ \ {s}]
  PROVE  Moves(a, agent[a].pc, agent[a].plan \ {s})
BY DEF Moves, AgentType

\* The record of k, and no other, is marked.
Marks(k, st) ==
  /\ record' \in [AiKey -> RecordType]
  /\ \A j \in AiKey : j # k => record'[j] = record[j]
  /\ record'[k].plan = record[k].plan /\ record'[k].status = st /\ record'[k].result = TRUE

LEMMA MarkMarks ==
  ASSUME record \in [AiKey -> RecordType], NEW k \in AiKey, NEW st \in RecordStatus, Mark(k, st)
  PROVE  Marks(k, st)
BY DEF Mark, Marks, RecordType

\* A step that leaves the engine's state alone, and takes no agent into an execution,
\* keeps what is known of the executions.
LEMMA Quiet ==
  ASSUME RecordsFit, LoneAgents, LonePlaces, ConfirmedIsComplete,
         UNCHANGED <<record, placed, fell>>,
         \A a \in Agent : agent'[a] = agent[a] \/ agent'[a].pc \notin Active
  PROVE  RecordsFit' /\ LoneAgents' /\ LonePlaces' /\ ConfirmedIsComplete'
<1>1. RecordsFit'
  BY DEF RecordsFit, Active
<1>2. LoneAgents'
  BY DEF LoneAgents, Lone
<1>3. LonePlaces'
  BY DEF LonePlaces, Lone, Active
<1>4. ConfirmedIsComplete'
  BY DEF ConfirmedIsComplete
<1> QED BY <1>1, <1>2, <1>3, <1>4

-----------------------------------------------------------------------------
(* The invariant holds at first *)

LEMMA InitHolds ==
  ASSUME AiInit
  PROVE  AiInv
<1>1. AiTyped
  <2>1. Resting \in AgentType /\ NoRecord \in RecordType
    BY DEF Resting, AgentType, AiPc, NoRecord, RecordType, RecordStatus
  <2>2. book \in [Playbook -> Playbooks]
    BY DEF AiInit
  <2> QED BY <2>1, <2>2, ApprovalAssumption DEF AiInit, AiTyped
<1>2. \A a \in Agent : agent[a].pc = "rest"
  BY DEF AiInit, Resting
<1>3. \A k \in AiKey : record[k] = NoRecord /\ \A s \in Scrip : placed[k][s] = 0
  BY DEF AiInit
<1>4. Ticker \in Agent /\ Caller \subseteq Agent
  BY DEF Agent
<1>5. KeysFit
  BY <1>2, <1>4 DEF KeysFit, Working
<1>6. RecordsFit
  BY <1>2, <1>3 DEF RecordsFit, NoRecord, Active
<1>7. LoneAgents
  BY <1>2 DEF LoneAgents, Active
<1>8. LonePlaces
  BY <1>2, <1>3 DEF LonePlaces, NoRecord
<1>9. \A p \in Playbook, m \in Approval, w \in 1..LastWindow : ~Begun(p, m, w)
  BY <1>3 DEF Begun, NoRecord, AutoKey, AiKey
<1>10. WindowsFit /\ TickFits
  BY <1>2, <1>4, <1>9 DEF WindowsFit, TickFits
<1>11. ConfirmedIsComplete
  BY <1>3 DEF ConfirmedIsComplete, NoRecord
<1> QED BY <1>1, <1>5, <1>6, <1>7, <1>8, <1>10, <1>11 DEF AiInv

-----------------------------------------------------------------------------
(* The user and the clock *)

\* An edit of the book that settles no less than before.
LEMMA BookMoves ==
  ASSUME AiInv, UNCHANGED <<agent, window, record, done, placed, fell>>,
         book' \in [Playbook -> Playbooks], edits' \in Nat, breaks' \in Nat,
         \A p \in Playbook : \/ book'[p].by \in {0, book[p].by} /\ book'[p].next = book[p].next
                             \/ book'[p].next = window + 1
  PROVE  AiInv'
<1> USE DEF AiInv
<1>1. AiTyped'
  BY DEF AiTyped
<1>2. KeysFit'
  BY DEF KeysFit
<1>3. RecordsFit' /\ LoneAgents' /\ LonePlaces' /\ ConfirmedIsComplete'
  BY Quiet
<1>4. \A p \in Playbook, m \in Approval, w \in 1..LastWindow :
        w <= window /\ Settled(p, m, w) => Settled(p, m, w)'
  BY DEF Settled, AiTyped
<1>5. agent[Ticker].pc # "rest" => agent[Ticker].at \in 1..window /\ agent[Ticker].at \in 1..LastWindow
  BY ApprovalAssumption DEF KeysFit, AiTyped
<1>6. WindowsFit'
  BY <1>4, <1>5, ApprovalAssumption DEF WindowsFit, Begun, AiTyped
<1>7. TickFits'
  <2>1. agent[Ticker].pc # "rest" => \A p \in agent[Ticker].due :
           p \in Playbook /\ agent[Ticker].view[p].by \in Approval
    BY DEF KeysFit, AiTyped, AgentType, Agent
  <2>2. agent[Ticker].pc = "begin" => agent[Ticker].key.p \in Playbook /\ agent[Ticker].key.by \in Approval
    BY AutoKeyFields DEF KeysFit, Working
  <2> QED BY <1>4, <1>5, <2>1, <2>2 DEF TickFits, Begun, AiTyped
<1> QED BY <1>1, <1>2, <1>3, <1>6, <1>7

LEMMA UserKeeps ==
  ASSUME AiInv, NEW p \in Playbook, Arm(p) \/ Disarm(p) \/ EditPlan(p)
  PROVE  AiInv'
<1>1. /\ UNCHANGED <<agent, window, record, done, placed, fell>>
      /\ edits' \in Nat /\ breaks' \in Nat
  BY DEF Arm, Disarm, EditPlan, Edit, AiInv, AiTyped
<1>2. book \in [Playbook -> Playbooks] /\ window + 1 \in 1..LastWindow + 1
  BY ApprovalAssumption DEF AiInv, AiTyped
<1>3. CASE Arm(p)
  <2>1. PICK m \in Approval : book' = [book EXCEPT ![p].by = m, ![p].next = window + 1]
    BY <1>3 DEF Arm
  <2>2. book' \in [Playbook -> Playbooks]
    BY <1>2, <2>1 DEF Playbooks
  <2>3. \A q \in Playbook : book'[q] = book[q] \/ book'[q].next = window + 1
    BY <1>2, <2>1 DEF Playbooks
  <2> QED BY <1>1, <2>2, <2>3, BookMoves
<1>4. CASE Disarm(p)
  <2>1. book' \in [Playbook -> Playbooks]
    BY <1>2, <1>4 DEF Disarm, Playbooks
  <2>2. \A q \in Playbook : book'[q].by \in {0, book[q].by} /\ book'[q].next = book[q].next
    BY <1>2, <1>4 DEF Disarm, Playbooks
  <2> QED BY <1>1, <2>1, <2>2, BookMoves
<1>5. CASE EditPlan(p)
  <2>1. PICK plan \in Tradeplans : book' = [book EXCEPT ![p].plan = plan]
    BY <1>5 DEF EditPlan
  <2>2. book' \in [Playbook -> Playbooks]
    BY <1>2, <2>1 DEF Playbooks
  <2>3. \A q \in Playbook : book'[q].by = book[q].by /\ book'[q].next = book[q].next
    BY <1>2, <2>1 DEF Playbooks
  <2> QED BY <1>1, <2>2, <2>3, BookMoves
<1> QED BY <1>3, <1>4, <1>5

LEMMA WindowKeeps ==
  ASSUME AiInv, WindowEnds
  PROVE  AiInv'
<1> USE DEF AiInv, WindowEnds
<1>1. AiTyped' /\ window' = window + 1
  BY ApprovalAssumption DEF AiTyped
<1>2. KeysFit'
  BY <1>1, ApprovalAssumption DEF KeysFit, AiTyped
<1>3. RecordsFit' /\ LoneAgents' /\ LonePlaces' /\ ConfirmedIsComplete'
  BY Quiet
<1>4. WindowsFit'
  BY <1>1, ApprovalAssumption DEF WindowsFit, Begun, Settled, AiTyped
<1>5. TickFits'
  BY DEF TickFits, Begun, Settled
<1> QED BY <1>1, <1>2, <1>3, <1>4, <1>5

-----------------------------------------------------------------------------
(* The engine *)

LEMMA BegunKey ==
  ASSUME NEW p \in Playbook, NEW m \in Approval, NEW w \in 1..LastWindow
  PROVE  AutoKey(p, m, w) \in AutoKeys /\ AutoKey(p, m, w) \in AiKey
BY DEF AutoKey, AutoKeys, AiKey

\* An agent that executes has a key of its kind.
LEMMA WorkersKey ==
  ASSUME AiInv, NEW a \in Agent, agent[a].pc \in Working
  PROVE  /\ agent[a].key \in AiKey
         /\ agent[a].key \in AutoKeys => a = Ticker
         /\ a = Ticker => agent[a].key \in AutoKeys
BY KeysApart DEF AiInv, KeysFit, Agent, Working

\* A step of an execution that has begun keeps the windows.
LEMMA EngineKeepsWindows ==
  ASSUME AiInv, NEW a \in Agent, agent[a].pc \in Active, NEW pc, NEW plan, Moves(a, pc, plan),
         pc \in {"place", "ran"} \/ (pc = "rest" /\ a # Ticker),
         UNCHANGED <<book, window, done>>,
         \A k \in AiKey : record'[k].status = "none" <=> record[k].status = "none"
  PROVE  KeysFit' /\ WindowsFit' /\ TickFits'
<1>1. Ticker \in Agent /\ Caller \subseteq Agent /\ Ticker \notin Caller
  BY ApprovalAssumption DEF Agent
<1>2. KeysFit'
  <2>1. agent[a].pc \in Working /\ pc \in Working \cup {"rest"}
    BY DEF Working, Active
  <2>2. \A c \in Caller : /\ agent'[c].pc \in Working \cup {"rest"}
                          /\ agent'[c].pc # "rest" => agent'[c].key \in RunKeys
    BY <1>1, <2>1 DEF AiInv, KeysFit, Moves, Active
  <2>3. agent'[Ticker].pc # "rest" => agent[Ticker].pc # "rest"
    BY <1>1 DEF Moves, Active
  <2>4. agent'[Ticker].pc \in Working \cup {"moved"} => agent[Ticker].pc \in Working \cup {"moved"}
    BY <1>1, <2>1 DEF Moves
  <2>5. /\ agent'[Ticker].at = agent[Ticker].at /\ agent'[Ticker].view = agent[Ticker].view
        /\ agent'[Ticker].due = agent[Ticker].due /\ agent'[Ticker].key = agent[Ticker].key
    BY <1>1 DEF Moves
  <2>6. \A b \in Agent : agent'[b].pc \in {"begin", "mismatch", "submit"} =>
          agent'[b].plan \in Tradeplans
    BY DEF AiInv, KeysFit, Moves
  <2> QED BY <2>2, <2>3, <2>4, <2>5, <2>6 DEF AiInv, KeysFit
<1>3. \A p \in Playbook, m \in Approval, w \in 1..LastWindow : Begun(p, m, w)' <=> Begun(p, m, w)
  BY BegunKey DEF Begun, AutoKey
<1>4. \A p, m, w : Settled(p, m, w)' <=> Settled(p, m, w)
  BY DEF Settled
<1>5. /\ agent'[Ticker].pc = "rest" <=> agent[Ticker].pc = "rest"
      /\ agent'[Ticker].at = agent[Ticker].at /\ agent'[Ticker].view = agent[Ticker].view
      /\ agent'[Ticker].due = agent[Ticker].due /\ agent'[Ticker].key = agent[Ticker].key
      /\ agent'[Ticker].pc = "begin" => agent[Ticker].pc = "begin"
  BY <1>1 DEF Moves, Active
<1>6. WindowsFit'
  BY <1>3, <1>4, <1>5 DEF AiInv, WindowsFit
<1>7. TickFits'
  <2>1. agent[Ticker].pc # "rest" => /\ agent[Ticker].at \in 1..LastWindow
                                     /\ \A p \in agent[Ticker].due : p \in Playbook
    BY <1>1, ApprovalAssumption DEF AiInv, KeysFit, AiTyped, AgentType
  <2>2. agent[Ticker].pc = "begin" => agent[Ticker].key.p \in Playbook
    BY <1>1, AutoKeyFields DEF AiInv, KeysFit, Working
  <2> QED BY <1>3, <1>4, <1>5, <2>1, <2>2 DEF AiInv, TickFits
<1> QED BY <1>2, <1>6, <1>7

\* What LoneAgents and LonePlaces ask of the key of an agent at work.
LEMMA AtWork ==
  ASSUME AiInv, NEW a \in Agent, agent[a].pc \in Active, Lone(agent[a].key)
  PROVE  /\ \A b \in Agent : agent[b].pc \in Active /\ agent[b].key = agent[a].key => b = a
         /\ agent[a].key \in AiKey
BY DEF AiInv, LoneAgents, Lone

\* A record is marked and its agent moves on.
LEMMA MarkingKeeps ==
  ASSUME AiInv, NEW a \in Agent, agent[a].pc \in Active,
         NEW pc \in {"place", "ran"}, NEW st \in RecordStatus \ {"none"},
         To(a, pc), Mark(agent[a].key, st),
         UNCHANGED <<book, window, done, edits, placed, fell, breaks>>,
         pc = "place" => agent[a].pc = "submit",
         st = "CONFIRMED" => agent[a].pc = "place" /\ agent[a].plan = {}
  PROVE  AiInv'
<1> DEFINE k == agent[a].key
<1>1. k \in AiKey
  BY WorkersKey DEF Working, Active
<1>2. Moves(a, pc, agent[a].plan)
  BY ToMoves DEF AiPc, AiInv, AiTyped
<1>3. Marks(k, st)
  BY <1>1, MarkMarks DEF AiInv, AiTyped
<1> HIDE DEF k
<1>4. k = agent[a].key
  BY DEF k
<1>5. AiTyped'
  BY <1>2, <1>3 DEF AiInv, AiTyped, Moves, Marks
<1>6. record[k].status # "none"
  BY <1>4 DEF AiInv, RecordsFit
<1>7. \A j \in AiKey : record'[j].status = "none" <=> record[j].status = "none"
  BY <1>1, <1>3, <1>6 DEF Marks
<1>8. KeysFit' /\ WindowsFit' /\ TickFits'
  BY <1>2, <1>7, EngineKeepsWindows
<1>9. \A j \in AiKey : /\ record'[j].plan = record[j].plan
                       /\ record[j].result => record'[j].result
  BY <1>1, <1>3 DEF Marks
<1>10. \A b \in Agent : agent[b].pc \in Working => agent[b].key \in AiKey
  BY WorkersKey
<1>11. RecordsFit'
  <2>1. \A j \in AiKey : record'[j].status = "none" => ~record'[j].result /\ record'[j].plan = {}
    BY <1>1, <1>3 DEF Marks, AiInv, RecordsFit
  <2>2. ASSUME NEW b \in Agent, b # a
        PROVE  LET j == agent'[b].key IN
               /\ agent'[b].pc \in Active => record'[j].status # "none"
               /\ agent'[b].pc = "submit" => agent'[b].plan = record'[j].plan
               /\ agent'[b].pc = "place" =>
                    /\ agent'[b].plan \subseteq record'[j].plan /\ record'[j].result
                    /\ \A s \in record'[j].plan \ agent'[b].plan : placed'[j][s] >= 1
    <3>1. agent'[b] = agent[b]
      BY <1>2, <2>2 DEF Moves
    <3>2. agent[b].pc \in Active => agent[b].key \in AiKey
      BY <1>10 DEF Working, Active
    <3> QED BY <1>7, <1>9, <3>1, <3>2 DEF AiInv, RecordsFit, Active
  <2>3. agent'[a].pc \in Active =>
          /\ agent'[a].pc = "place" /\ record'[k].status # "none" /\ record'[k].result
          /\ agent'[a].plan = record'[k].plan
    BY <1>2, <1>3, <1>4 DEF Moves, Marks, Active, AiInv, RecordsFit
  <2> QED BY <2>1, <2>2, <2>3, <1>2, <1>4 DEF RecordsFit, Moves, Active
<1>12. LoneAgents'
  <2>1. \A b \in Agent : agent'[b].key = agent[b].key /\ (agent'[b].pc \in Active => agent[b].pc \in Active)
    BY <1>2 DEF Moves
  <2> QED BY <2>1 DEF AiInv, LoneAgents, Lone
<1>13. LonePlaces'
  <2> SUFFICES ASSUME NEW j \in AiKey, Lone(j)
               PROVE  /\ ~record'[j].result => \A s \in Scrip : placed[j][s] = 0
                      /\ \A s \in Scrip : placed[j][s] <= IF s \in record'[j].plan THEN 1 ELSE 0
                      /\ \A b \in Agent : agent'[b].key = j =>
                           /\ agent'[b].pc \in {"submit", "mismatch"} => ~record'[j].result
                           /\ agent'[b].pc = "place" => \A s \in agent'[b].plan : placed[j][s] = 0
    BY DEF LonePlaces, Lone
  <2>1. \A b \in Agent : b # a => agent'[b] = agent[b]
    BY <1>2 DEF Moves
  <2>2. CASE j # k
    <3>1. record'[j] = record[j]
      BY <1>3, <2>2 DEF Marks
    <3>2. agent'[a].key # j
      BY <1>2, <1>4, <2>2 DEF Moves
    <3> QED BY <2>1, <3>1, <3>2 DEF AiInv, LonePlaces
  <2>3. CASE j = k
    <3>1. record'[k].result /\ record'[k].plan = record[k].plan
      BY <1>3 DEF Marks
    <3>2. \A s \in Scrip : placed[k][s] <= IF s \in record[k].plan THEN 1 ELSE 0
      BY <1>1, <2>3 DEF AiInv, LonePlaces
    <3>3. \A b \in Agent : b # a /\ agent'[b].key = k => agent'[b].pc \notin Active
      BY <1>4, <2>1, <2>3, AtWork
    <3>4. agent'[a].pc \notin {"submit", "mismatch"} /\ agent'[a].plan \subseteq Scrip
      BY <1>2 DEF Moves, AgentType
    <3>5. agent'[a].pc = "place" => \A s \in agent'[a].plan : placed[k][s] = 0
      <4>1. agent'[a].pc = "place" => agent[a].pc = "submit"
        BY <1>2 DEF Moves
      <4>2. agent[a].pc = "submit" => ~record[k].result
        BY <1>1, <1>4, <2>3 DEF AiInv, LonePlaces
      <4>3. ~record[k].result => \A s \in Scrip : placed[k][s] = 0
        BY <1>1, <2>3 DEF AiInv, LonePlaces
      <4> QED BY <4>1, <4>2, <4>3, <3>4
    <3> QED BY <2>3, <3>1, <3>2, <3>3, <3>4, <3>5 DEF Active
  <2> QED BY <2>2, <2>3
<1>14. ConfirmedIsComplete'
  <2>1. \A j \in AiKey : j # k => record'[j] = record[j]
    BY <1>3 DEF Marks
  <2>2. record'[k].status = "CONFIRMED" => \A s \in record'[k].plan : placed[k][s] >= 1
    BY <1>3, <1>4 DEF Marks, AiInv, RecordsFit
  <2> QED BY <1>3, <2>1, <2>2 DEF AiInv, ConfirmedIsComplete
<1> QED BY <1>5, <1>8, <1>11, <1>12, <1>13, <1>14 DEF AiInv

LEMMA MarkersKeep ==
  ASSUME AiInv, NEW a \in Agent, PlanDiffers(a) \/ Submit(a) \/ Confirm(a)
  PROVE  AiInv'
<1>1. CASE PlanDiffers(a)
  BY <1>1, MarkingKeeps DEF PlanDiffers, EngineOnly, RecordStatus, Active
<1>2. CASE Submit(a)
  BY <1>2, MarkingKeeps DEF Submit, EngineOnly, RecordStatus, Active
<1>3. CASE Confirm(a)
  BY <1>3, MarkingKeeps DEF Confirm, EngineOnly, RecordStatus, Active
<1> QED BY <1>1, <1>2, <1>3

\* An order of symbol s is at the broker for agent a's key, and perhaps no other change.
PlaceEffect(a, s, pc, plan) ==
  /\ Moves(a, pc, plan)
  /\ placed' \in {placed, [placed EXCEPT ![agent[a].key][s] = @ + 1]}
  /\ UNCHANGED <<book, window, done, edits, record, fell>> /\ breaks' \in Nat
  /\ pc = "place" =>
       /\ plan = agent[a].plan \ {s}
       /\ placed' = [placed EXCEPT ![agent[a].key][s] = @ + 1]
  /\ pc \in {"place", "ran"} \/ (pc = "rest" /\ a # Ticker)

LEMMA PlaceHasEffect ==
  ASSUME AiInv, NEW a \in Agent, Place(a)
  PROVE  \E s \in agent[a].plan, pc \in AiPc, plan \in SUBSET Scrip : PlaceEffect(a, s, pc, plan)
<1>1. PICK s \in agent[a].plan :
        LET once == [placed EXCEPT ![agent[a].key][s] = @ + 1]
        IN  \/ /\ placed' = once /\ breaks' = breaks
               /\ agent' = [agent EXCEPT ![a].plan = @ \ {s}]
            \/ /\ breaks < MaxBreaks /\ breaks' = breaks + 1
               /\ placed' \in {placed, once} /\ To(a, IF a = Ticker THEN "ran" ELSE "rest")
  BY DEF Place
<1>2. agent \in [Agent -> AgentType] /\ agent[a].plan \subseteq Scrip /\ breaks \in Nat
  BY DEF AiInv, AiTyped, AgentType
<1>3. UNCHANGED <<book, window, done, edits, record, fell>> /\ agent[a].pc = "place"
  BY DEF Place, EngineOnly
<1>4. CASE /\ placed' = [placed EXCEPT ![agent[a].key][s] = @ + 1] /\ breaks' = breaks
           /\ agent' = [agent EXCEPT ![a].plan = @ \ {s}]
  <2>1. Moves(a, agent[a].pc, agent[a].plan \ {s})
    BY <1>2, <1>4, PlacedMoves
  <2>2. PlaceEffect(a, s, "place", agent[a].plan \ {s})
    BY <1>2, <1>3, <1>4, <2>1 DEF PlaceEffect
  <2> QED BY <1>2, <2>2 DEF AiPc
<1>5. CASE /\ breaks' = breaks + 1
           /\ placed' \in {placed, [placed EXCEPT ![agent[a].key][s] = @ + 1]}
           /\ To(a, IF a = Ticker THEN "ran" ELSE "rest")
  <2> DEFINE pc == IF a = Ticker THEN "ran" ELSE "rest"
  <2>1. pc \in AiPc
    BY DEF AiPc
  <2>2. Moves(a, pc, agent[a].plan)
    BY <1>2, <1>5, <2>1, ToMoves
  <2>3. PlaceEffect(a, s, pc, agent[a].plan)
    BY <1>2, <1>3, <1>5, <2>2 DEF PlaceEffect
  <2> QED BY <1>2, <2>1, <2>3
<1> QED BY <1>1, <1>4, <1>5

LEMMA PlaceKeeps ==
  ASSUME AiInv, NEW a \in Agent, Place(a)
  PROVE  AiInv'
<1> DEFINE k == agent[a].key
<1>1. PICK s \in agent[a].plan, pc \in AiPc, plan \in SUBSET Scrip : PlaceEffect(a, s, pc, plan)
  BY PlaceHasEffect
<1>2. agent[a].pc = "place" /\ agent[a].plan \subseteq Scrip /\ s \in Scrip
  BY DEF Place, AiInv, AiTyped, AgentType
<1>3. k \in AiKey /\ (k \in AutoKeys => a = Ticker)
  BY <1>2, WorkersKey DEF Working
<1> HIDE DEF k
<1>4. k = agent[a].key
  BY DEF k
<1>5. Moves(a, pc, plan)
  BY <1>1 DEF PlaceEffect
<1>6. /\ placed' \in [AiKey -> [Scrip -> Nat]]
      /\ \A j \in AiKey, r \in Scrip :
           /\ j # k \/ r # s => placed'[j][r] = placed[j][r]
           /\ placed'[j][r] \in {placed[j][r], placed[j][r] + 1}
           /\ placed[j][r] \in Nat
      /\ pc = "place" => placed'[k][s] = placed[k][s] + 1
  BY <1>1, <1>2, <1>3, <1>4 DEF PlaceEffect, AiInv, AiTyped
<1>7. UNCHANGED <<book, window, done, edits, record, fell>>
  BY <1>1 DEF PlaceEffect
<1>8. AiTyped'
  BY <1>1, <1>5, <1>6 DEF AiInv, AiTyped, Moves, PlaceEffect
<1>9. KeysFit' /\ WindowsFit' /\ TickFits'
  <2>1. pc \in {"place", "ran"} \/ (pc = "rest" /\ a # Ticker)
    BY <1>1 DEF PlaceEffect
  <2> QED BY <1>2, <1>5, <1>7, <2>1, EngineKeepsWindows DEF Active
<1>10. \A b \in Agent : /\ b # a => agent'[b] = agent[b]
                        /\ agent'[b].key = agent[b].key
                        /\ agent'[b].pc \in Active => agent[b].pc \in Active /\ agent'[b].pc = agent[b].pc
  BY <1>1, <1>2, <1>5 DEF Moves, PlaceEffect, Active
<1>11. s \in record[k].plan /\ record[k].result
  BY <1>2, <1>4 DEF AiInv, RecordsFit
<1>12. RecordsFit'
  <2>1. \A b \in Agent : agent[b].pc \in Active => agent[b].key \in AiKey
    BY WorkersKey DEF Working, Active
  <2>2. \A b \in Agent : agent[b].pc \in Active => record[agent[b].key].plan \subseteq Scrip
    BY SMTT(30), <2>1, TradeplansAssumption DEF AiInv, AiTyped, RecordType
  <2>3. ASSUME NEW b \in Agent, agent'[b].pc = "place"
        PROVE  LET j == agent'[b].key IN
               /\ agent'[b].plan \subseteq record[j].plan /\ record[j].result
               /\ \A r \in record[j].plan \ agent'[b].plan : placed'[j][r] >= 1
    <3>1. agent[b].pc = "place" /\ agent'[b].key = agent[b].key /\ agent[b].key \in AiKey
      BY <1>10, <2>1, <2>3 DEF Active
    <3>2. /\ agent[b].plan \subseteq record[agent[b].key].plan /\ record[agent[b].key].result
          /\ \A r \in record[agent[b].key].plan \ agent[b].plan : placed[agent[b].key][r] >= 1
      BY <3>1 DEF AiInv, RecordsFit
    <3>3. record[agent[b].key].plan \subseteq Scrip
      BY <2>2, <3>1 DEF Active
    <3>4. \A r \in Scrip : placed[agent[b].key][r] >= 1 => placed'[agent[b].key][r] >= 1
      BY <1>6, <3>1
    <3>5. CASE b # a
      BY <1>10, <3>1, <3>2, <3>3, <3>4, <3>5
    <3>6. CASE b = a
      <4>1. pc = "place" /\ agent'[a].plan = agent[a].plan \ {s} /\ placed'[k][s] = placed[k][s] + 1
        BY <1>1, <1>5, <1>6, <2>3, <3>6 DEF Moves, PlaceEffect
      <4>2. placed'[k][s] >= 1
        BY <1>2, <1>3, <1>6, <4>1
      <4> QED BY <1>4, <3>1, <3>2, <3>3, <3>4, <3>6, <4>1, <4>2
    <3> QED BY <3>5, <3>6
  <2>4. \A b \in Agent : /\ agent'[b].pc \in Active => record[agent'[b].key].status # "none"
                         /\ agent'[b].pc = "submit" => agent'[b].plan = record[agent'[b].key].plan
    <3>1. \A b \in Agent : agent'[b].pc \in Active => agent[b].pc \in Active /\ agent'[b].key = agent[b].key
      BY <1>10
    <3>2. \A b \in Agent : agent'[b].pc = "submit" => agent'[b] = agent[b]
      BY <1>2, <1>10 DEF Active
    <3> QED BY <3>1, <3>2 DEF AiInv, RecordsFit
  <2> QED BY <1>7, <2>3, <2>4 DEF AiInv, RecordsFit
<1>13. LoneAgents'
  BY <1>7, <1>10 DEF AiInv, LoneAgents, Lone
<1>14. LonePlaces'
  <2> SUFFICES ASSUME NEW j \in AiKey, Lone(j)
               PROVE  /\ ~record[j].result => \A r \in Scrip : placed'[j][r] = 0
                      /\ \A r \in Scrip : placed'[j][r] <= IF r \in record[j].plan THEN 1 ELSE 0
                      /\ \A b \in Agent : agent'[b].key = j =>
                           /\ agent'[b].pc \in {"submit", "mismatch"} => ~record[j].result
                           /\ agent'[b].pc = "place" => \A r \in agent'[b].plan : placed'[j][r] = 0
    BY <1>7 DEF LonePlaces, Lone
  <2>1. /\ ~record[j].result => \A r \in Scrip : placed[j][r] = 0
        /\ \A r \in Scrip : placed[j][r] <= IF r \in record[j].plan THEN 1 ELSE 0
        /\ \A b \in Agent : agent[b].key = j =>
             /\ agent[b].pc \in {"submit", "mismatch"} => ~record[j].result
             /\ agent[b].pc = "place" => \A r \in agent[b].plan : placed[j][r] = 0
    BY DEF AiInv, LonePlaces
  <2>2. \A b \in Agent : agent[b].plan \subseteq Scrip
    BY DEF AiInv, AiTyped, AgentType
  <2>3. CASE j # k
    <3>1. \A r \in Scrip : placed'[j][r] = placed[j][r]
      BY <1>6, <2>3
    <3>2. \A b \in Agent : agent'[b].key = j => agent'[b] = agent[b]
      BY <1>4, <1>10, <2>3
    <3> QED BY <2>1, <2>2, <3>1, <3>2
  <2>4. CASE j = k
    <3>1. placed[k][s] = 0
      BY <1>2, <1>4, <2>1, <2>4
    <3>2. placed'[k][s] <= 1 /\ \A r \in Scrip : r # s => placed'[k][r] = placed[k][r]
      BY <1>2, <1>3, <1>6, <3>1
    <3>3. \A b \in Agent : b # a /\ agent'[b].key = k => agent'[b].pc \notin Active
      BY <1>2, <1>4, <1>10, <2>4, AtWork DEF Active
    <3>4. agent'[a].pc = "place" => agent'[a].plan = agent[a].plan \ {s}
      BY <1>1, <1>5 DEF PlaceEffect, Moves
    <3>5. agent'[a].pc \notin {"submit", "mismatch"}
      BY <1>2, <1>10 DEF Active
    <3>6. agent'[a].pc = "place" => \A r \in agent'[a].plan : placed'[k][r] = 0
      BY <1>2, <1>4, <2>1, <2>2, <2>4, <3>2, <3>4
    <3>7. \A r \in Scrip : placed'[k][r] <= IF r \in record[k].plan THEN 1 ELSE 0
      BY <1>11, <2>1, <2>4, <3>2
    <3> QED BY <1>11, <2>4, <3>3, <3>5, <3>6, <3>7 DEF Active
  <2> QED BY <2>3, <2>4
<1>15. ConfirmedIsComplete'
  <2>1. \A j \in AiKey : record[j].plan \subseteq Scrip
    BY TradeplansAssumption DEF AiInv, AiTyped, RecordType
  <2>2. \A j \in AiKey, r \in Scrip : placed[j][r] >= 1 => placed'[j][r] >= 1
    BY <1>6
  <2> QED BY <1>7, <2>1, <2>2 DEF AiInv, ConfirmedIsComplete
<1> QED BY <1>8, <1>9, <1>12, <1>13, <1>14, <1>15 DEF AiInv

\* begin, a record that exists: an answer, or a second execution under its key.
LEMMA JoinKeeps ==
  ASSUME AiInv, NEW a \in Agent, Begin(a), record[agent[a].key].status # "none"
  PROVE  AiInv'
<1> DEFINE k == agent[a].key
           pc == IF record[k].result THEN "ran"
                 ELSE IF record[k].plan = agent[a].plan THEN "submit" ELSE "mismatch"
<1>1. k \in AiKey /\ (k \in AutoKeys => a = Ticker) /\ (a = Ticker => k \in AutoKeys)
  BY WorkersKey DEF Begin, Working
<1>2. /\ UNCHANGED <<book, window, done, edits, placed, breaks, record>>
      /\ fell' = IF record[k].result THEN fell ELSE fell \cup {k}
      /\ To(a, pc) /\ agent[a].pc = "begin"
  BY DEF Begin, EngineOnly
<1>3. Moves(a, pc, agent[a].plan) /\ pc \in {"ran", "submit", "mismatch"}
  BY <1>2, ToMoves DEF AiPc, AiInv, AiTyped
<1>4. /\ pc = "ran" <=> record[k].result
      /\ pc = "submit" => record[k].plan = agent[a].plan
  OBVIOUS
<1> HIDE DEF k, pc
<1>5. k = agent[a].key
  BY DEF k
<1>6. Ticker \in Agent /\ Caller \subseteq Agent /\ Ticker \notin Caller
  BY ApprovalAssumption DEF Agent
<1>7. AiTyped'
  BY <1>1, <1>2, <1>3 DEF AiInv, AiTyped, Moves
<1>8. KeysFit'
  <2>1. \A c \in Caller : /\ agent'[c].pc \in Working \cup {"rest"}
                          /\ agent'[c].pc # "rest" => agent'[c].key \in RunKeys
    BY <1>2, <1>3, <1>6 DEF AiInv, KeysFit, Moves, Working
  <2>2. /\ agent'[Ticker].at = agent[Ticker].at /\ agent'[Ticker].view = agent[Ticker].view
        /\ agent'[Ticker].due = agent[Ticker].due /\ agent'[Ticker].key = agent[Ticker].key
        /\ agent'[Ticker].pc # "rest" => agent[Ticker].pc # "rest"
        /\ agent'[Ticker].pc \in Working \cup {"moved"} => agent[Ticker].pc \in Working \cup {"moved"}
    BY <1>2, <1>3, <1>6 DEF Moves, Working
  <2>3. \A b \in Agent : agent'[b].pc \in {"begin", "mismatch", "submit"} => agent'[b].plan \in Tradeplans
    BY <1>2, <1>3 DEF AiInv, KeysFit, Moves
  <2> QED BY <1>2, <2>1, <2>2, <2>3 DEF AiInv, KeysFit
<1>9. \A b \in Agent : b # a => agent'[b] = agent[b]
  BY <1>3 DEF Moves
<1>10. agent'[a].pc = pc /\ agent'[a].plan = agent[a].plan /\ agent'[a].key = k
  BY <1>3, <1>5 DEF Moves
<1>11. RecordsFit'
  <2>1. \A b \in Agent : b # a => agent'[b] = agent[b]
    BY <1>9
  <2>2. record[k].status # "none" /\ (pc = "submit" => agent'[a].plan = record[k].plan)
    BY <1>4, <1>5, <1>10
  <2> QED BY <1>2, <1>3, <1>10, <2>1, <2>2 DEF AiInv, RecordsFit
<1> DEFINE LoneNext(j) == j \in AiKey /\ (j \notin fell' \/ j \in AutoKeys)
<1>12. \A j : LoneNext(j) => Lone(j)
  BY <1>2 DEF Lone
<1>13. \A b \in Agent : b # a /\ LoneNext(k) /\ agent[b].pc \in Active /\ agent[b].key = k => pc = "ran"
  <2> SUFFICES ASSUME NEW b \in Agent, b # a, LoneNext(k), agent[b].pc \in Active, agent[b].key = k,
                      pc # "ran"
               PROVE  FALSE
    OBVIOUS
  <2>1. k \in fell'
    BY <1>2, <1>4
  <2>2. k \in AutoKeys
    BY <2>1
  <2> QED BY <1>1, <2>2, WorkersKey DEF Working, Active
<1>14. LoneAgents'
  <2> SUFFICES ASSUME NEW b \in Agent, NEW c \in Agent, agent'[b].pc \in Active, agent'[c].pc \in Active,
                      NEW j, agent'[b].key = j, agent'[c].key = j, LoneNext(j), b # c
               PROVE  FALSE
    BY DEF LoneAgents, Lone
  <2>1. CASE b # a /\ c # a
    BY <1>9, <1>12, <2>1 DEF AiInv, LoneAgents
  <2>2. CASE b = a
    BY <1>9, <1>10, <1>13, <2>2 DEF Active
  <2>3. CASE c = a
    BY <1>9, <1>10, <1>13, <2>3 DEF Active
  <2> QED BY <2>1, <2>2, <2>3
<1>15. LonePlaces'
  <2> SUFFICES ASSUME NEW j \in AiKey, LoneNext(j), NEW b \in Agent, agent'[b].key = j
               PROVE  /\ agent'[b].pc \in {"submit", "mismatch"} => ~record[j].result
                      /\ agent'[b].pc = "place" => \A s \in agent'[b].plan : placed[j][s] = 0
    BY <1>2, <1>12 DEF AiInv, LonePlaces, Lone
  <2>1. CASE b # a
    BY <1>9, <1>12, <2>1 DEF AiInv, LonePlaces
  <2>2. CASE b = a
    BY <1>3, <1>4, <1>10, <2>2
  <2> QED BY <2>1, <2>2
<1>16. ConfirmedIsComplete'
  BY <1>2 DEF AiInv, ConfirmedIsComplete
<1>17. /\ agent'[Ticker].pc = "rest" <=> agent[Ticker].pc = "rest"
       /\ agent'[Ticker].at = agent[Ticker].at /\ agent'[Ticker].view = agent[Ticker].view
       /\ agent'[Ticker].due = agent[Ticker].due /\ agent'[Ticker].key = agent[Ticker].key
       /\ agent'[Ticker].pc = "begin" => agent[Ticker].pc = "begin"
  BY <1>2, <1>3, <1>6 DEF Moves
<1>18. WindowsFit' /\ TickFits'
  BY <1>2, <1>17 DEF AiInv, WindowsFit, TickFits, Begun, Settled
<1> QED BY <1>7, <1>8, <1>11, <1>14, <1>15, <1>16, <1>18 DEF AiInv

\* begin, a new record.
LEMMA CreateKeeps ==
  ASSUME AiInv, NEW a \in Agent, Begin(a), record[agent[a].key].status = "none"
  PROVE  AiInv'
<1> DEFINE k == agent[a].key
           new == [plan |-> agent[a].plan, status |-> "NEW", result |-> FALSE]
<1>1. k \in AiKey /\ (k \in AutoKeys => a = Ticker) /\ (a = Ticker => k \in AutoKeys)
  BY WorkersKey DEF Begin, Working
<1>2. /\ UNCHANGED <<book, window, done, edits, placed, breaks, fell>>
      /\ To(a, "submit") /\ agent[a].pc = "begin"
      /\ record' = [record EXCEPT ![k] = new]
  BY DEF Begin, EngineOnly
<1>3. Moves(a, "submit", agent[a].plan)
  BY <1>2, ToMoves DEF AiPc, AiInv, AiTyped
<1>4. agent[a].plan \in Tradeplans
  BY <1>2 DEF AiInv, KeysFit
<1>5. new \in RecordType
  BY <1>4 DEF RecordType, RecordStatus
<1>6. record' \in [AiKey -> RecordType] /\ record'[k] = new /\ \A j \in AiKey : j # k => record'[j] = record[j]
  BY <1>1, <1>2, <1>5 DEF AiInv, AiTyped
<1>7. new.plan = agent[a].plan /\ new.status = "NEW" /\ new.result = FALSE
  OBVIOUS
<1> HIDE DEF new, k
<1>8. k = agent[a].key /\ record[k].status = "none" /\ ~record[k].result /\ record[k].plan = {}
  BY <1>1 DEF k, AiInv, RecordsFit
<1>9. Ticker \in Agent /\ Caller \subseteq Agent /\ Ticker \notin Caller
  BY ApprovalAssumption DEF Agent
<1>10. AiTyped'
  BY <1>2, <1>3, <1>6 DEF AiInv, AiTyped, Moves
<1>11. /\ \A b \in Agent : b # a => agent'[b] = agent[b]
       /\ agent'[a].pc = "submit" /\ agent'[a].plan = agent[a].plan /\ agent'[a].key = k
  BY <1>3, <1>8 DEF Moves
<1>12. KeysFit'
  <2>1. \A c \in Caller : /\ agent'[c].pc \in Working \cup {"rest"}
                          /\ agent'[c].pc # "rest" => agent'[c].key \in RunKeys
    BY <1>2, <1>3, <1>9 DEF AiInv, KeysFit, Moves, Working
  <2>2. /\ agent'[Ticker].at = agent[Ticker].at /\ agent'[Ticker].view = agent[Ticker].view
        /\ agent'[Ticker].due = agent[Ticker].due /\ agent'[Ticker].key = agent[Ticker].key
        /\ agent'[Ticker].pc # "rest" => agent[Ticker].pc # "rest"
        /\ agent'[Ticker].pc \in Working \cup {"moved"} => agent[Ticker].pc \in Working \cup {"moved"}
    BY <1>2, <1>3, <1>9 DEF Moves, Working
  <2>3. \A b \in Agent : agent'[b].pc \in {"begin", "mismatch", "submit"} => agent'[b].plan \in Tradeplans
    BY <1>4, <1>11 DEF AiInv, KeysFit
  <2> QED BY <1>2, <2>1, <2>2, <2>3 DEF AiInv, KeysFit
<1>13. \A b \in Agent : agent[b].pc \in Active => agent[b].key # k
  BY <1>8 DEF AiInv, RecordsFit
<1>14. \A b \in Agent : agent[b].pc \in Active => agent[b].key \in AiKey
  BY WorkersKey DEF Working, Active
<1>15. RecordsFit'
  <2>1. \A j \in AiKey : record'[j].status = "none" => ~record'[j].result /\ record'[j].plan = {}
    BY <1>6, <1>7 DEF AiInv, RecordsFit
  <2>2. ASSUME NEW b \in Agent, b # a
        PROVE  LET j == agent'[b].key IN
               /\ agent'[b].pc \in Active => record'[j].status # "none"
               /\ agent'[b].pc = "submit" => agent'[b].plan = record'[j].plan
               /\ agent'[b].pc = "place" =>
                    /\ agent'[b].plan \subseteq record'[j].plan /\ record'[j].result
                    /\ \A s \in record'[j].plan \ agent'[b].plan : placed'[j][s] >= 1
    <3>1. agent'[b] = agent[b]
      BY <1>11, <2>2
    <3>2. agent[b].pc \in Active => record'[agent[b].key] = record[agent[b].key]
      BY <1>6, <1>13, <1>14
    <3> QED BY <1>2, <3>1, <3>2 DEF AiInv, RecordsFit, Active
  <2>3. record'[k].status # "none" /\ agent'[a].plan = record'[k].plan
    BY <1>6, <1>7, <1>11
  <2> QED BY <1>11, <2>1, <2>2, <2>3 DEF RecordsFit
<1>16. LoneAgents'
  BY <1>2, <1>11, <1>13 DEF AiInv, LoneAgents, Lone
<1>17. LonePlaces'
  <2> SUFFICES ASSUME NEW j \in AiKey, Lone(j)
               PROVE  /\ ~record'[j].result => \A s \in Scrip : placed[j][s] = 0
                      /\ \A s \in Scrip : placed[j][s] <= IF s \in record'[j].plan THEN 1 ELSE 0
                      /\ \A b \in Agent : agent'[b].key = j =>
                           /\ agent'[b].pc \in {"submit", "mismatch"} => ~record'[j].result
                           /\ agent'[b].pc = "place" => \A s \in agent'[b].plan : placed[j][s] = 0
    BY <1>2 DEF LonePlaces, Lone
  <2>1. CASE j # k
    BY <1>6, <1>11, <2>1 DEF AiInv, LonePlaces
  <2>2. CASE j = k
    <3>1. \A s \in Scrip : placed[k][s] = 0
      BY <1>1, <1>8, <2>2 DEF AiInv, LonePlaces
    <3>2. \A b \in Agent : agent'[b].key = k => agent'[b].pc # "place"
      BY <1>11, <1>13 DEF Active
    <3> QED BY <1>6, <1>7, <2>2, <3>1, <3>2
  <2> QED BY <2>1, <2>2
<1>18. ConfirmedIsComplete'
  BY <1>2, <1>6, <1>7 DEF AiInv, ConfirmedIsComplete
<1>19. /\ agent'[Ticker].pc = "rest" <=> agent[Ticker].pc = "rest"
       /\ agent'[Ticker].at = agent[Ticker].at /\ agent'[Ticker].view = agent[Ticker].view
       /\ agent'[Ticker].due = agent[Ticker].due /\ agent'[Ticker].key = agent[Ticker].key
       /\ agent'[Ticker].pc = "begin" => agent[Ticker].pc = "begin"
  BY <1>2, <1>3, <1>9 DEF Moves
<1>20. \A p \in Playbook, m \in Approval, w \in 1..LastWindow :
         Begun(p, m, w)' => Begun(p, m, w) \/ AutoKey(p, m, w) = k
  BY <1>6, BegunKey DEF Begun, AutoKey
<1>21. ASSUME NEW p \in Playbook, NEW m \in Approval, NEW w \in 1..LastWindow, AutoKey(p, m, w) = k
       PROVE  /\ a = Ticker /\ p = agent[Ticker].key.p /\ m = agent[Ticker].key.by
              /\ w = agent[Ticker].at /\ agent[Ticker].pc = "begin"
              /\ p \notin agent[Ticker].due
  <2>1. a = Ticker
    BY <1>1, <1>21, BegunKey
  <2>2. agent[Ticker].key.at = agent[Ticker].at /\ agent[Ticker].key.p \notin agent[Ticker].due
    BY <1>2, <2>1 DEF AiInv, KeysFit, Working
  <2>3. AutoKey(p, m, w).p = p /\ AutoKey(p, m, w).by = m /\ AutoKey(p, m, w).at = w
    BY DEF AutoKey
  <2> QED BY <1>2, <1>8, <1>21, <2>1, <2>2, <2>3
<1>22. WindowsFit'
  <2> SUFFICES ASSUME NEW p \in Playbook, NEW m \in Approval, NEW w \in 1..LastWindow, Begun(p, m, w)'
               PROVE  /\ w <= IF agent[Ticker].pc = "rest" THEN window ELSE agent[Ticker].at
                      /\ \A n \in Approval : Begun(p, n, w)' => n = m
                      /\ w \in done[p] \/ Settled(p, m, w)
    BY <1>2, <1>19 DEF WindowsFit, Settled
  <2>1. CASE AutoKey(p, m, w) = k
    <3>1. w = agent[Ticker].at /\ agent[Ticker].pc = "begin" /\ p = agent[Ticker].key.p /\ m = agent[Ticker].key.by
      BY <1>21, <2>1
    <3>2. Settled(p, m, w) /\ \A n \in Approval : Begun(p, n, w) => n = m
      BY <3>1 DEF AiInv, TickFits
    <3>3. \A n \in Approval : AutoKey(p, n, w) = k => n = m
      BY <1>21, <3>1
    <3>4. w <= w
      OBVIOUS
    <3> QED BY <1>20, <3>1, <3>2, <3>3, <3>4
  <2>2. CASE AutoKey(p, m, w) # k
    <3>1. Begun(p, m, w)
      BY <1>20, <2>2
    <3>2. \A n \in Approval : AutoKey(p, n, w) = k => n = m
      BY <1>21, <3>1 DEF AiInv, TickFits
    <3> QED BY <1>20, <3>1, <3>2 DEF AiInv, WindowsFit
  <2> QED BY <2>1, <2>2
<1>23. TickFits'
  <2>1. agent[Ticker].pc # "rest" => /\ agent[Ticker].at \in 1..LastWindow
                                     /\ \A p \in agent[Ticker].due : p \in Playbook
    BY <1>9, ApprovalAssumption DEF AiInv, KeysFit, AiTyped, AgentType
  <2>2. \A p \in agent[Ticker].due, m \in Approval :
          agent[Ticker].pc # "rest" =>
            \A w \in 1..LastWindow : Begun(p, m, w)' => Begun(p, m, w)
    <3> SUFFICES ASSUME NEW p \in agent[Ticker].due, NEW m \in Approval, agent[Ticker].pc # "rest",
                        NEW w \in 1..LastWindow, Begun(p, m, w)'
                 PROVE  Begun(p, m, w)
      OBVIOUS
    <3>1. p \in Playbook
      BY <2>1
    <3>2. AutoKey(p, m, w) # k
      BY <1>21, <3>1
    <3> QED BY <1>20, <3>1, <3>2
  <2>3. agent'[Ticker].pc = "begin" => a # Ticker
    BY <1>11
  <2>4. a # Ticker => \A p \in Playbook, m \in Approval, w \in 1..LastWindow :
          Begun(p, m, w)' => Begun(p, m, w)
    BY <1>20, <1>21
  <2>5. agent[Ticker].pc = "begin" => agent[Ticker].key.p \in Playbook
    BY <1>9, AutoKeyFields DEF AiInv, KeysFit, Working
  <2>6. \A p, m, w : Settled(p, m, w)' <=> Settled(p, m, w)
    BY <1>2 DEF Settled
  <2> QED BY <1>2, <1>19, <2>1, <2>2, <2>3, <2>4, <2>5, <2>6 DEF AiInv, TickFits
<1> QED BY <1>10, <1>12, <1>15, <1>16, <1>17, <1>18, <1>22, <1>23 DEF AiInv

-----------------------------------------------------------------------------
(* The automation, run-now and crashes                                        *)

LEMMA TickerFacts ==
  ASSUME AiInv
  PROVE  /\ Ticker \in Agent /\ Caller \subseteq Agent /\ Ticker \notin Caller
         /\ agent \in [Agent -> AgentType] /\ agent[Ticker] \in AgentType
         /\ window \in 1..LastWindow /\ LastWindow \in Nat \ {0}
         /\ agent[Ticker].pc # "rest" => agent[Ticker].at \in 1..window /\ agent[Ticker].at \in 1..LastWindow
         /\ agent[Ticker].due \subseteq Playbook
         /\ \A b \in Agent : agent[b].pc \in {"begin", "mismatch", "submit"} => agent[b].plan \in Tradeplans
<1>1. Ticker \in Agent /\ Caller \subseteq Agent /\ Ticker \notin Caller
  BY ApprovalAssumption DEF Agent
<1>2. agent \in [Agent -> AgentType] /\ agent[Ticker] \in AgentType /\ window \in 1..LastWindow
  BY <1>1 DEF AiInv, AiTyped
<1>3. agent[Ticker].due \subseteq Playbook
  BY <1>2 DEF AgentType
<1> QED BY <1>1, <1>2, <1>3, ApprovalAssumption DEF AiInv, KeysFit

\* A step of the ticker outside the engine: the other agents keep still, it
\* moves to a place outside the engine, and it settles only what it has run.
LEMMA TickerKeeps ==
  ASSUME AiInv, NEW t \in AgentType, agent' = [agent EXCEPT ![Ticker] = t],
         UNCHANGED <<window, record, placed, fell, edits, breaks>>,
         book' \in [Playbook -> Playbooks], done' \in [Playbook -> SUBSET (1..LastWindow)],
         t.pc \notin Active,
         t.pc # "rest" => /\ t.at \in 1..window /\ t.view \in [Playbook -> Playbooks]
                          /\ \A p \in t.due : t.view[p].by \in Approval,
         t.pc \in Working \cup {"moved"} => /\ t.key \in AutoKeys /\ t.key.at = t.at /\ t.key.p \notin t.due
                                            /\ t.pc = "begin" => t.plan \in Tradeplans,
         WindowsFit', TickFits'
  PROVE  AiInv'
<1>1. Ticker \in Agent /\ Caller \subseteq Agent /\ Ticker \notin Caller /\ agent \in [Agent -> AgentType]
  BY TickerFacts
<1>2. agent' \in [Agent -> AgentType] /\ agent'[Ticker] = t /\ \A b \in Agent : b # Ticker => agent'[b] = agent[b]
  BY <1>1
<1>3. AiTyped'
  BY <1>2 DEF AiInv, AiTyped
<1>4. KeysFit'
  <2>1. \A c \in Caller : agent'[c] = agent[c]
    BY <1>1, <1>2
  <2>2. \A b \in Agent : agent'[b].pc \in {"begin", "mismatch", "submit"} => agent'[b].plan \in Tradeplans
    BY <1>2, TickerFacts DEF Active, Working
  <2> QED BY <1>2, <2>1, <2>2 DEF AiInv, KeysFit
<1>5. RecordsFit' /\ LoneAgents' /\ LonePlaces' /\ ConfirmedIsComplete'
  BY <1>2, Quiet DEF AiInv
<1> QED BY <1>3, <1>4, <1>5 DEF AiInv

LEMMA TickKeeps ==
  ASSUME AiInv, Tick
  PROVE  AiInv'
<1> DEFINE due == {p \in Playbook : book[p].by # 0 /\ book[p].next <= window}
<1>1. agent' = [agent EXCEPT ![Ticker] = [@ EXCEPT !.pc = "tick", !.due = due, !.view = book, !.at = window]]
  BY DEF Tick
<1>2. /\ UNCHANGED <<book, window, record, done, placed, fell, edits, breaks>>
      /\ agent[Ticker].pc = "rest"
  BY DEF Tick, TickOnly
<1> DEFINE t == [agent[Ticker] EXCEPT !.pc = "tick", !.due = due, !.view = book, !.at = window]
<1>3. agent' = [agent EXCEPT ![Ticker] = t] /\ agent'[Ticker] = t
  BY <1>1, TickerFacts
<1>4. book \in [Playbook -> Playbooks] /\ window \in 1..LastWindow /\ window \in 1..window
  BY TickerFacts DEF AiInv, AiTyped
<1>5. due \subseteq Playbook
  OBVIOUS
<1>6. \A p \in due : book[p].by \in Approval /\ book[p].next <= window
  BY <1>4 DEF Playbooks
<1> HIDE DEF due
<1>7. t \in AgentType /\ t.pc = "tick" /\ t.due = due /\ t.view = book /\ t.at = window
  <2>1. window \in Nat /\ "tick" \in AiPc
    BY TickerFacts DEF AiPc
  <2> QED BY <1>4, <1>5, <2>1, TickerFacts DEF AgentType
<1> HIDE DEF t
<1>8. WindowsFit'
  BY <1>2, <1>3, <1>7 DEF AiInv, WindowsFit, Begun, Settled
<1>9. TickFits'
  <2>1. \A p \in due : Settled(p, book[p].by, window)
    BY DEF Settled
  <2>2. ASSUME NEW p \in due, NEW m \in Approval, Begun(p, m, window)
        PROVE  window \in done[p] \/ m = book[p].by
    <3>1. window \in done[p] \/ Settled(p, m, window)
      BY <1>4, <1>5, <2>2, TickerFacts DEF AiInv, WindowsFit
    <3>2. book[p].by # 0 /\ ~(book[p].next > window)
      BY <1>4, <1>5, <1>6, ApprovalAssumption DEF Playbooks
    <3> QED BY <3>1, <3>2 DEF Settled
  <2> QED BY <1>2, <1>3, <1>7, <2>1, <2>2 DEF TickFits, Begun, Settled
<1> QED BY <1>2, <1>3, <1>4, <1>6, <1>8, <1>9, <1>7, TickerKeeps DEF Active, Working, AiInv, AiTyped

\* A next run that moves behind the tick's window settles what the tick may have begun.
LEMMA LaterSettles ==
  ASSUME AiInv, NEW p \in Playbook, Later(p), agent[Ticker].pc # "rest"
  PROVE  /\ book' \in [Playbook -> Playbooks]
         /\ \A q \in Playbook, m \in Approval, w \in 1..LastWindow :
              w <= agent[Ticker].at /\ Settled(q, m, w) => Settled(q, m, w)'
<1>1. /\ book \in [Playbook -> Playbooks] /\ agent[Ticker].at + 1 \in 1..LastWindow + 1
      /\ agent[Ticker].at \in Nat
  BY TickerFacts DEF AiInv, AiTyped
<1>2. book' = [book EXCEPT ![p].next = agent[Ticker].at + 1]
  BY DEF Later
<1>3. book' \in [Playbook -> Playbooks]
  BY <1>1, <1>2 DEF Playbooks
<1>4. \A q \in Playbook : /\ q # p => book'[q] = book[q]
                          /\ q = p => book'[q].next = agent[Ticker].at + 1
  BY <1>1, <1>2 DEF Playbooks
<1>5. \A w \in 1..LastWindow : w <= agent[Ticker].at => agent[Ticker].at + 1 > w
  BY <1>1, TickerFacts
<1> QED BY <1>3, <1>4, <1>5 DEF Settled

\* The windows fit as long as the tick settles no less and runs no less.
LEMMA WindowsStay ==
  ASSUME AiInv, UNCHANGED <<window, record>>,
         agent[Ticker].pc # "rest",
         agent'[Ticker].pc = "rest" \/ agent'[Ticker].at = agent[Ticker].at,
         \A p \in Playbook : done[p] \subseteq done'[p],
         \A q \in Playbook, m \in Approval, w \in 1..LastWindow :
           w <= agent[Ticker].at /\ Settled(q, m, w) => Settled(q, m, w)'
  PROVE  WindowsFit'
<1>1. agent[Ticker].at \in 1..window /\ window \in 1..LastWindow /\ LastWindow \in Nat
  BY TickerFacts
<1> QED BY <1>1 DEF AiInv, WindowsFit, Begun

\* The rest of the list fits as long as the tick settles no less and runs no less.
LEMMA ListStays ==
  ASSUME AiInv, UNCHANGED record,
         agent[Ticker].pc # "rest", agent'[Ticker].pc # "begin",
         \/ agent'[Ticker].pc = "rest"
         \/ /\ agent'[Ticker].due \subseteq agent[Ticker].due
            /\ agent'[Ticker].at = agent[Ticker].at /\ agent'[Ticker].view = agent[Ticker].view,
         \A p \in Playbook : done[p] \subseteq done'[p],
         \A q \in Playbook, m \in Approval, w \in 1..LastWindow :
           w <= agent[Ticker].at /\ Settled(q, m, w) => Settled(q, m, w)'
  PROVE  TickFits'
<1>1. agent[Ticker].at \in 1..LastWindow /\ agent[Ticker].at <= agent[Ticker].at /\ agent[Ticker].due \subseteq Playbook
  BY TickerFacts
<1>2. \A p \in agent[Ticker].due : agent[Ticker].view[p].by \in Approval
  BY DEF AiInv, KeysFit
<1> QED BY <1>1, <1>2 DEF AiInv, TickFits, Begun

\* The ticker comes to rest.
LEMMA RestKeeps ==
  ASSUME AiInv, agent[Ticker].pc # "rest", agent' = [agent EXCEPT ![Ticker] = Resting],
         UNCHANGED <<book, window, done, record, placed, fell, edits, breaks>>
  PROVE  AiInv'
<1>1. Resting \in AgentType /\ Resting.pc = "rest"
  BY DEF Resting, AgentType, AiPc
<1>2. agent'[Ticker].pc = "rest"
  BY <1>1, TickerFacts
<1>3. WindowsFit' /\ TickFits'
  BY <1>2, WindowsStay, ListStays DEF Settled
<1> QED BY <1>1, <1>3, TickerKeeps DEF Active, Working, AiInv, AiTyped

LEMMA TickEndsKeeps ==
  ASSUME AiInv, TickEnds
  PROVE  AiInv'
BY RestKeeps DEF TickEnds, TickOnly

LEMMA TickRecordsKeeps ==
  ASSUME AiInv, TickRecords
  PROVE  AiInv'
<1> DEFINE t == [agent[Ticker] EXCEPT !.pc = "moved"]
           p == agent[Ticker].key.p
<1>1. /\ UNCHANGED <<book, window, record, placed, fell, edits, breaks>> /\ agent[Ticker].pc = "ran"
      /\ done' = [done EXCEPT ![p] = @ \cup {agent[Ticker].at}]
      /\ agent' = [agent EXCEPT ![Ticker] = t]
  BY TickerFacts DEF TickRecords, TickOnly, To
<1>2. t \in AgentType /\ t.pc = "moved" /\ agent'[Ticker] = t
  BY <1>1, TickerFacts DEF AgentType, AiPc
<1>3. t.key = agent[Ticker].key /\ t.at = agent[Ticker].at /\ t.due = agent[Ticker].due /\ t.view = agent[Ticker].view
  BY TickerFacts DEF AgentType
<1> HIDE DEF t
<1>4. /\ agent[Ticker].key \in AutoKeys /\ agent[Ticker].key.at = agent[Ticker].at
      /\ agent[Ticker].key.p \notin agent[Ticker].due
  BY <1>1 DEF AiInv, KeysFit, Working
<1>5. p \in Playbook
  BY <1>4, AutoKeyFields
<1>6. /\ done' \in [Playbook -> SUBSET (1..LastWindow)]
      /\ \A q \in Playbook : done[q] \subseteq done'[q]
  BY <1>1, <1>5, TickerFacts DEF AiInv, AiTyped
<1>7. WindowsFit' /\ TickFits'
  BY <1>1, <1>2, <1>3, <1>6, WindowsStay, ListStays DEF Settled
<1>8. /\ t.at \in 1..window /\ t.view \in [Playbook -> Playbooks]
      /\ \A q \in t.due : t.view[q].by \in Approval
  BY <1>1, <1>3 DEF AiInv, KeysFit
<1> QED BY <1>1, <1>2, <1>3, <1>4, <1>6, <1>7, <1>8, TickerKeeps DEF Active, AiInv, AiTyped

LEMMA TickMovesKeeps ==
  ASSUME AiInv, TickMoves
  PROVE  AiInv'
<1> DEFINE t == [agent[Ticker] EXCEPT !.pc = "tick"]
           p == agent[Ticker].key.p
<1>1. /\ UNCHANGED <<done, window, record, placed, fell, edits, breaks>> /\ agent[Ticker].pc = "moved"
      /\ Later(p) /\ agent' = [agent EXCEPT ![Ticker] = t]
  BY TickerFacts DEF TickMoves, TickOnly, To
<1>2. t \in AgentType /\ t.pc = "tick" /\ agent'[Ticker] = t
  BY <1>1, TickerFacts DEF AgentType, AiPc
<1>3. t.key = agent[Ticker].key /\ t.at = agent[Ticker].at /\ t.due = agent[Ticker].due /\ t.view = agent[Ticker].view
  BY TickerFacts DEF AgentType
<1> HIDE DEF t
<1>4. p \in Playbook
  BY <1>1, AutoKeyFields DEF AiInv, KeysFit
<1>5. /\ book' \in [Playbook -> Playbooks]
      /\ \A q \in Playbook, m \in Approval, w \in 1..LastWindow :
           w <= agent[Ticker].at /\ Settled(q, m, w) => Settled(q, m, w)'
  BY <1>1, <1>4, LaterSettles
<1>6. WindowsFit' /\ TickFits'
  BY <1>1, <1>2, <1>3, <1>5, WindowsStay, ListStays
<1>7. /\ t.at \in 1..window /\ t.view \in [Playbook -> Playbooks]
      /\ \A q \in t.due : t.view[q].by \in Approval
  BY <1>1, <1>3 DEF AiInv, KeysFit
<1> QED BY <1>1, <1>2, <1>5, <1>6, <1>7, TickerKeeps DEF Active, Working, AiInv, AiTyped

\* A playbook of the list that is run without orders, or was run already.
LEMMA PassKeeps ==
  ASSUME AiInv, NEW p \in agent[Ticker].due, agent[Ticker].pc = "tick",
         agent' = [agent EXCEPT ![Ticker] = [agent[Ticker] EXCEPT !.due = @ \ {p}]],
         UNCHANGED <<window, record, placed, fell, edits, breaks>>,
         Later(p), done' = done \/ done' = [done EXCEPT ![p] = @ \cup {agent[Ticker].at}]
  PROVE  AiInv'
<1> DEFINE t == [agent[Ticker] EXCEPT !.due = @ \ {p}]
<1>1. p \in Playbook
  BY TickerFacts
<1>2. t \in AgentType /\ t.pc = "tick" /\ agent'[Ticker] = t /\ t.due = agent[Ticker].due \ {p}
  BY TickerFacts DEF AgentType
<1>3. t.at = agent[Ticker].at /\ t.view = agent[Ticker].view
  BY TickerFacts DEF AgentType
<1>4. agent' = [agent EXCEPT ![Ticker] = t]
  OBVIOUS
<1> HIDE DEF t
<1>5. /\ book' \in [Playbook -> Playbooks]
      /\ \A q \in Playbook, m \in Approval, w \in 1..LastWindow :
           w <= agent[Ticker].at /\ Settled(q, m, w) => Settled(q, m, w)'
  BY <1>1, LaterSettles
<1>6. /\ done' \in [Playbook -> SUBSET (1..LastWindow)]
      /\ \A q \in Playbook : done[q] \subseteq done'[q]
  BY <1>1, TickerFacts DEF AiInv, AiTyped
<1>7. WindowsFit' /\ TickFits'
  BY <1>2, <1>3, <1>5, <1>6, WindowsStay, ListStays
<1>8. /\ t.at \in 1..window /\ t.view \in [Playbook -> Playbooks]
      /\ \A q \in t.due : t.view[q].by \in Approval
  BY <1>2, <1>3 DEF AiInv, KeysFit
<1> QED BY <1>2, <1>4, <1>5, <1>6, <1>7, <1>8, TickerKeeps DEF Active, Working

\* A playbook of the list that is executed, under the approval the list has.
LEMMA ExecuteKeeps ==
  ASSUME AiInv, NEW p \in agent[Ticker].due, agent[Ticker].pc = "tick", ~Ran(p),
         agent' = [agent EXCEPT ![Ticker] =
           [[agent[Ticker] EXCEPT !.due = @ \ {p}] EXCEPT !.pc = "begin", !.plan = book[p].plan,
              !.key = [kind |-> "auto", p |-> p, by |-> agent[Ticker].view[p].by, at |-> agent[Ticker].at]]],
         UNCHANGED <<book, window, record, done, placed, fell, edits, breaks>>
  PROVE  AiInv'
<1> DEFINE by == agent[Ticker].view[p].by
           at == agent[Ticker].at
           t == [[agent[Ticker] EXCEPT !.due = @ \ {p}] EXCEPT !.pc = "begin", !.plan = book[p].plan,
                    !.key = [kind |-> "auto", p |-> p, by |-> by, at |-> at]]
<1>1. p \in Playbook /\ by \in Approval /\ at \in 1..LastWindow /\ at \in 1..window
  BY TickerFacts DEF AiInv, KeysFit
<1>2. AutoKey(p, by, at) \in AutoKeys /\ AutoKey(p, by, at) \in AiKey
  BY <1>1, BegunKey
<1>3. book[p].plan \in Tradeplans /\ book[p].plan \in SUBSET Scrip
  BY <1>1, TradeplansAssumption DEF AiInv, AiTyped, Playbooks
<1>4. t \in AgentType
  <2>1. AutoKey(p, by, at) = [kind |-> "auto", p |-> p, by |-> by, at |-> at]
    BY DEF AutoKey
  <2>2. "begin" \in AiPc
    BY DEF AiPc
  <2> QED BY <1>2, <1>3, <2>1, <2>2, TickerFacts DEF AgentType
<1>5. /\ t.pc = "begin" /\ t.plan = book[p].plan /\ t.key = AutoKey(p, by, at)
      /\ t.due = agent[Ticker].due \ {p} /\ t.view = agent[Ticker].view /\ t.at = at
  BY TickerFacts DEF AgentType, AutoKey
<1>6. agent' = [agent EXCEPT ![Ticker] = t] /\ agent'[Ticker] = t
  BY TickerFacts
<1>7. t.key.p = p /\ t.key.by = by /\ t.key.at = at
  BY <1>5 DEF AutoKey
<1> HIDE DEF t
<1>8. /\ Settled(p, by, at)
      /\ \A m \in Approval : Begun(p, m, at) => m = by
  BY <1>1 DEF AiInv, TickFits, Ran
<1>9. WindowsFit'
  BY <1>5, <1>6, WindowsStay DEF Settled
<1>10. TickFits'
  <2>1. \A q \in t.due :
          /\ Settled(q, t.view[q].by, t.at)
          /\ \A m \in Approval : Begun(q, m, t.at) => t.at \in done[q] \/ m = t.view[q].by
    BY <1>5 DEF AiInv, TickFits
  <2> QED BY ZenonT(60), <1>5, <1>6, <1>7, <1>8, <2>1 DEF TickFits, Begun, Settled
<1>11. /\ t.at \in 1..window /\ t.view \in [Playbook -> Playbooks]
       /\ \A q \in t.due : t.view[q].by \in Approval
  BY <1>1, <1>5 DEF AiInv, KeysFit
<1>12. /\ t.key \in AutoKeys /\ t.key.at = t.at /\ t.key.p \notin t.due /\ t.plan \in Tradeplans
  BY <1>2, <1>3, <1>5, <1>7
<1> HIDE DEF by, at
<1> QED BY <1>4, <1>5, <1>6, <1>9, <1>10, <1>11, <1>12, TickerKeeps DEF Active, AiInv, AiTyped

LEMMA TickPlaybookKeeps ==
  ASSUME AiInv, NEW p \in Playbook, TickPlaybook(p)
  PROVE  AiInv'
<1>1. /\ agent[Ticker].pc = "tick" /\ p \in agent[Ticker].due
      /\ UNCHANGED <<window, record, placed, fell, edits, breaks>>
  BY DEF TickPlaybook, TickOnly
<1>2. CASE /\ Later(p) /\ (done' = done \/ done' = [done EXCEPT ![p] = @ \cup {agent[Ticker].at}])
           /\ agent' = [agent EXCEPT ![Ticker] = [agent[Ticker] EXCEPT !.due = @ \ {p}]]
  BY <1>1, <1>2, PassKeeps
<1>3. CASE /\ ~Ran(p) /\ UNCHANGED <<book, done>>
           /\ agent' = [agent EXCEPT ![Ticker] =
                [[agent[Ticker] EXCEPT !.due = @ \ {p}] EXCEPT !.pc = "begin", !.plan = book[p].plan,
                   !.key = [kind |-> "auto", p |-> p, by |-> agent[Ticker].view[p].by, at |-> agent[Ticker].at]]]
  BY <1>1, <1>3, ExecuteKeeps
<1>4. CASE UNCHANGED <<book, done>> /\ agent' = [agent EXCEPT ![Ticker] = Resting]
  BY <1>1, <1>4, RestKeeps
<1> QED BY <1>2, <1>3, <1>4 DEF TickPlaybook

\* A caller that begins or ends outside the engine.
LEMMA CallerKeeps ==
  ASSUME AiInv, NEW c \in Caller, NEW t \in AgentType, agent' = [agent EXCEPT ![c] = t],
         UNCHANGED <<window, done, record, placed, fell, breaks>>, edits' \in Nat,
         book' \in [Playbook -> Playbooks],
         \A q \in Playbook : book'[q] = book[q] \/ book'[q].next = window + 1,
         t.pc = "rest" \/ (t.pc = "begin" /\ t.key \in RunKeys /\ t.plan \in Tradeplans)
  PROVE  AiInv'
<1>1. /\ Ticker \in Agent /\ Caller \subseteq Agent /\ Ticker # c /\ agent \in [Agent -> AgentType]
      /\ window \in Nat /\ window \in 1..LastWindow
  BY TickerFacts
<1>2. /\ agent' \in [Agent -> AgentType] /\ agent'[c] = t /\ \A b \in Agent : b # c => agent'[b] = agent[b]
      /\ agent'[Ticker] = agent[Ticker]
  BY <1>1
<1>3. AiTyped'
  BY <1>2 DEF AiInv, AiTyped
<1>4. KeysFit'
  <2>1. \A d \in Caller : /\ agent'[d].pc \in Working \cup {"rest"}
                          /\ agent'[d].pc # "rest" => agent'[d].key \in RunKeys
    BY <1>1, <1>2 DEF AiInv, KeysFit, Working
  <2>2. \A b \in Agent : agent'[b].pc \in {"begin", "mismatch", "submit"} => agent'[b].plan \in Tradeplans
    BY <1>2, TickerFacts
  <2> QED BY <1>2, <2>1, <2>2 DEF AiInv, KeysFit
<1>5. RecordsFit' /\ LoneAgents' /\ LonePlaces' /\ ConfirmedIsComplete'
  BY <1>2, Quiet DEF AiInv, Active
<1>6. \A q \in Playbook, m \in Approval, w \in 1..LastWindow :
        w <= window /\ Settled(q, m, w) => Settled(q, m, w)'
  BY <1>1 DEF Settled
<1>7. agent[Ticker].pc # "rest" => agent[Ticker].at \in 1..window /\ agent[Ticker].at \in 1..LastWindow
                                     /\ agent[Ticker].at <= window
  BY TickerFacts
<1>8. WindowsFit'
  BY <1>1, <1>2, <1>6, <1>7 DEF AiInv, WindowsFit, Begun
<1>9. TickFits'
  <2>1. agent[Ticker].pc # "rest" => \A p \in agent[Ticker].due :
           p \in Playbook /\ agent[Ticker].view[p].by \in Approval
    BY TickerFacts DEF AiInv, KeysFit
  <2>2. agent[Ticker].pc = "begin" => agent[Ticker].key.p \in Playbook /\ agent[Ticker].key.by \in Approval
    BY AutoKeyFields DEF AiInv, KeysFit, Working
  <2> QED BY <1>2, <1>6, <1>7, <2>1, <2>2 DEF AiInv, TickFits, Begun
<1> QED BY <1>3, <1>4, <1>5, <1>8, <1>9 DEF AiInv

LEMMA RunPlaybookKeeps ==
  ASSUME AiInv, NEW c \in Caller, NEW p \in Playbook, RunPlaybook(c, p)
  PROVE  AiInv'
<1>1. PICK m \in Approval :
        agent' = [agent EXCEPT ![c] = [@ EXCEPT !.pc = "begin", !.plan = book[p].plan,
                    !.key = [kind |-> "run", p |-> p, by |-> m, at |-> 0]]]
  BY DEF RunPlaybook
<1> DEFINE k == [kind |-> "run", p |-> p, by |-> m, at |-> 0]
           t == [agent[c] EXCEPT !.pc = "begin", !.plan = book[p].plan, !.key = k]
<1>2. agent' = [agent EXCEPT ![c] = t] /\ agent[c] \in AgentType
  BY <1>1, TickerFacts
<1>3. book[p].plan \in Tradeplans /\ book[p].plan \in SUBSET Scrip
  BY TradeplansAssumption DEF AiInv, AiTyped, Playbooks
<1>4. k \in RunKeys /\ k \in AiKey
  BY KeysApart DEF RunKeys
<1> HIDE DEF k
<1>5. t \in AgentType
  <2>1. "begin" \in AiPc
    BY DEF AiPc
  <2> QED BY <1>2, <1>3, <1>4, <2>1 DEF AgentType
<1>6. t.pc = "begin" /\ t.key = k /\ t.plan = book[p].plan
  BY <1>2 DEF AgentType
<1> HIDE DEF t
<1>7. UNCHANGED <<book, window, record, done, placed, fell, breaks>> /\ edits' \in Nat
  BY DEF RunPlaybook, AiInv, AiTyped
<1> QED BY <1>2, <1>3, <1>4, <1>5, <1>6, <1>7, CallerKeeps DEF AiInv, AiTyped

LEMMA RunNowEndsKeeps ==
  ASSUME AiInv, NEW c \in Caller, RunNowEnds(c)
  PROVE  AiInv'
<1>1. /\ agent' = [agent EXCEPT ![c] = Resting] /\ agent[c].pc = "ran"
      /\ book' = [book EXCEPT ![agent[c].key.p].next = window + 1]
      /\ UNCHANGED <<window, done, record, placed, fell, edits, breaks>>
  BY DEF RunNowEnds, TickOnly
<1>2. Resting \in AgentType /\ Resting.pc = "rest"
  BY DEF Resting, AgentType, AiPc
<1>3. book \in [Playbook -> Playbooks] /\ window + 1 \in 1..LastWindow + 1
  BY TickerFacts DEF AiInv, AiTyped
<1>4. book' \in [Playbook -> Playbooks]
  BY <1>1, <1>3 DEF Playbooks
<1>5. \A q \in Playbook : book'[q] = book[q] \/ book'[q].next = window + 1
  BY <1>1, <1>3 DEF Playbooks
<1> QED BY <1>1, <1>2, <1>4, <1>5, CallerKeeps DEF AiInv, AiTyped

LEMMA CrashKeeps ==
  ASSUME AiInv, AiCrash
  PROVE  AiInv'
<1>1. /\ agent' = [a \in Agent |-> Resting] /\ breaks' \in Nat
      /\ UNCHANGED <<book, window, record, done, placed, fell, edits>>
  BY DEF AiCrash, AiInv, AiTyped
<1>2. Resting \in AgentType /\ Resting.pc = "rest"
  BY DEF Resting, AgentType, AiPc
<1>3. \A a \in Agent : agent'[a].pc = "rest"
  BY <1>1, <1>2
<1>4. AiTyped'
  BY <1>1, <1>2 DEF AiInv, AiTyped
<1>5. KeysFit'
  BY <1>3, TickerFacts DEF KeysFit, Working
<1>6. RecordsFit' /\ LoneAgents' /\ LonePlaces' /\ ConfirmedIsComplete'
  BY <1>1, <1>3, Quiet DEF AiInv, Active
<1>7. WindowsFit'
  <2>1. agent[Ticker].pc # "rest" => agent[Ticker].at <= window /\ agent[Ticker].at \in Nat
    BY TickerFacts
  <2>2. \A w \in 1..LastWindow : w <= (IF agent[Ticker].pc = "rest" THEN window ELSE agent[Ticker].at) => w <= window
    BY <2>1, TickerFacts
  <2> QED BY <1>1, <1>3, <2>2, TickerFacts DEF AiInv, WindowsFit, Begun, Settled
<1>8. TickFits'
  BY <1>3, TickerFacts DEF TickFits
<1> QED BY <1>4, <1>5, <1>6, <1>7, <1>8 DEF AiInv

-----------------------------------------------------------------------------
(* The theorems *)

LEMMA NextKeeps ==
  ASSUME AiInv, [AiNext]_aiVars
  PROVE  AiInv'
<1>1. CASE \E p \in Playbook : Arm(p) \/ Disarm(p) \/ EditPlan(p) \/ TickPlaybook(p)
  BY <1>1, UserKeeps, TickPlaybookKeeps
<1>2. ASSUME NEW a \in Agent, Engine(a)
      PROVE  AiInv'
  BY <1>2, JoinKeeps, CreateKeeps, MarkersKeep, PlaceKeeps DEF Engine
<1>3. CASE \E c \in Caller : RunNowEnds(c) \/ \E p \in Playbook : RunPlaybook(c, p)
  BY <1>3, RunNowEndsKeeps, RunPlaybookKeeps
<1>4. CASE WindowEnds \/ Tick \/ TickRecords \/ TickMoves \/ TickEnds \/ AiCrash
  BY <1>4, WindowKeeps, TickKeeps, TickRecordsKeeps, TickMovesKeeps, TickEndsKeeps, CrashKeeps
<1>5. CASE UNCHANGED aiVars
  BY <1>5 DEF aiVars, AiInv, AiTyped, KeysFit, RecordsFit, LoneAgents, Lone, LonePlaces, WindowsFit,
              TickFits, Begun, Settled, ConfirmedIsComplete
<1> QED BY <1>1, <1>2, <1>3, <1>4, <1>5 DEF AiNext

LEMMA InvAlways == AiSpec => []AiInv
<1>1. AiInit => AiInv
  BY InitHolds
<1>2. AiInv /\ [AiNext]_aiVars => AiInv'
  BY NextKeeps
<1> QED BY <1>1, <1>2, PTL DEF AiSpec

LEMMA InvGivesPlansOnce ==
  ASSUME AiInv
  PROVE  PlansExecuteOnce
<1>1. KeyPlacesOnce
  BY DEF AiInv, LonePlaces, Lone, KeyPlacesOnce
<1>2. OneExecutionPerWindow
  <2> SUFFICES ASSUME NEW p \in Playbook, NEW w \in 1..LastWindow, NEW s \in Scrip,
                      NEW m \in Approval, NEW n \in Approval
               PROVE  IF m = n THEN placed[AutoKey(p, m, w)][s] <= 1
                      ELSE placed[AutoKey(p, m, w)][s] = 0 \/ placed[AutoKey(p, n, w)][s] = 0
    BY DEF OneExecutionPerWindow, AutoKey
  <2>1. \A l \in Approval : /\ AutoKey(p, l, w) \in AiKey /\ Lone(AutoKey(p, l, w))
                            /\ placed[AutoKey(p, l, w)][s] \in Nat
    BY BegunKey DEF Lone, AiInv, AiTyped
  <2>2. \A l \in Approval : placed[AutoKey(p, l, w)][s] <= IF s \in record[AutoKey(p, l, w)].plan THEN 1 ELSE 0
    BY <2>1 DEF AiInv, LonePlaces
  <2>3. \A l \in Approval : placed[AutoKey(p, l, w)][s] # 0 => Begun(p, l, w)
    BY <2>1, <2>2 DEF AiInv, RecordsFit, Begun
  <2>4. m # n => ~(Begun(p, m, w) /\ Begun(p, n, w))
    BY DEF AiInv, WindowsFit
  <2> QED BY <2>1, <2>2, <2>3, <2>4
<1> QED BY <1>1, <1>2 DEF AiInv, PlansExecuteOnce, ExecutionIsIdempotent

\* The playbooks, the idempotency records and the orders keep their types, and the
\* requests and the ticker stay at the points of the code that are modelled.
THEOREM AiTypes == AiSpec => []AiTypeOK
<1>1. AiInv => AiTypeOK
  BY DEF AiInv, AiTyped, AiTypeOK, RecordType, AgentType, AiPc
<1> QED BY <1>1, InvAlways, PTL

\* execute_to_broker never places an order of a plan twice under one key, or
\* confirms a plan of which an order was not placed, and run_automation_tick
\* trades a playbook once in a window, whatever the plans, the approvals and the
\* number of requests, for any interleaving of them with edits of the playbook,
\* failures of the broker and crashes.  Excepted are, as in the property, the
\* keys of run-now that a request met before the record held a result.
THEOREM PlansOnce == AiSpec => []PlansExecuteOnce
<1>1. AiInv => PlansExecuteOnce
  BY InvGivesPlansOnce
<1> QED BY <1>1, InvAlways, PTL

-----------------------------------------------------------------------------
(* The assistant's thread: the invariant                                       *)

ThreadType == [calls : Nat, extra : Nat, once : BOOLEAN, session : BOOLEAN]
TalkStep == {"idle", "turn", "send", "searching", "reading", "placing"}
TalkItem == {0} \cup Query \cup (1..MaxPlans)
TalkType == [pc : TalkStep, msg : Message, item : TalkItem, view : ThreadType, trading : BOOLEAN]
TallyType == [talks : Nat, turns : Nat, approvals : Nat, flips : Nat, deaths : Nat, lost : Nat]

ChatTyped ==
  /\ chatSetup \in ChatSetups /\ thread \in ThreadType /\ talk \in [Chat -> TalkType]
  /\ kept \subseteq Message /\ asked \subseteq {"search", "read"} /\ trading \in BOOLEAN
  /\ approver \in Nat \cup {NoApprover} /\ proposed \in 0..MaxPlans
  /\ planKeys \subseteq Message \X (1..proposed) /\ bought \in [Message -> [1..MaxPlans -> Nat]]
  /\ spent \in Nat /\ shown \in Nat /\ granted \in [extra : Nat, once : Nat]
  /\ crossed \in BOOLEAN /\ expired \in Nat /\ tally \in TallyType

Searching(c) == talk[c].pc = "searching"
Placing(c) == talk[c].pc = "placing"

\* No view of the thread is ahead of what was spent and granted.
ViewFits(v) == v.calls <= spent /\ v.extra <= granted.extra
ViewsFit ==
  /\ ViewFits(thread) /\ approver <= granted.extra
  /\ \A c \in Chat : ViewFits(talk[c].view) /\ (Searching(c) => talk[c].view.calls + 1 <= spent)

\* The thread counts every search but the one under way and those that were lost;
\* the one under way is within what is allowed.
Allowed == chatSetup.limit + granted.extra + expired
SearchesFit ==
  ~crossed =>
    /\ \A c, d \in Chat : Searching(c) /\ Searching(d) => c = d
    /\ thread.calls + thread.extra <= Allowed
    /\ (\E c \in Chat : Searching(c)) => thread.calls + 1 <= Allowed
    /\ spent = thread.calls + tally.lost + (IF \E c \in Chat : Searching(c) THEN 1 ELSE 0)

\* A read under way was allowed, and `allow once' is a read that is still to come.
ReadsFit ==
  /\ \A c \in Chat : talk[c].pc = "reading" => talk[c].view.once \/ talk[c].view.session
  /\ ~crossed => shown + (IF thread.once THEN 1 ELSE 0) <= granted.once

\* An order is behind a record of its plan's key, and the one run that placed it.
PlacesFit ==
  /\ \A c \in Chat : Placing(c) =>
       /\ talk[c].item \in 1..MaxPlans /\ talk[c].msg \in chatSetup.explicit
       /\ <<talk[c].msg, talk[c].item>> \in planKeys /\ bought[talk[c].msg][talk[c].item] = 0
  /\ \A c, d \in Chat : Placing(c) /\ Placing(d) /\ talk[c].msg = talk[d].msg /\ talk[c].item = talk[d].item => c = d
  /\ \A m \in Message, p \in 1..MaxPlans :
       bought[m][p] <= 1 /\ (bought[m][p] > 0 => <<m, p>> \in planKeys /\ m \in chatSetup.explicit)

ChatInv == ChatTyped /\ ViewsFit /\ SearchesFit /\ ReadsFit /\ PlacesFit

-----------------------------------------------------------------------------
(* Requests                                                                   *)

LEMMA SetupFields ==
  ASSUME ChatTyped
  PROVE  chatSetup.limit \in Nat /\ chatSetup.explicit \subseteq Message
BY ChatSetupsAssumption DEF ChatTyped

LEMMA NoTalkType == NoTalk \in TalkType /\ NoTalk.pc = "idle" /\ NoTalk.view = NewThread /\ NewThread \in ThreadType
<1>1. (CHOOSE m \in Message : TRUE) \in Message
  <2>1. \E m : m \in Message
    BY ChatAssumption
  <2> QED BY <2>1
<1>2. NewThread \in ThreadType
  BY DEF NewThread, ThreadType
<1> QED BY <1>1, <1>2 DEF NoTalk, TalkType, TalkStep, TalkItem

\* A request that goes on with its message and its view.
LEMMA GoesFields ==
  ASSUME ChatTyped, NEW c \in Chat, NEW pc \in TalkStep, NEW item \in TalkItem
  PROVE  \E n \in TalkType : /\ n.pc = pc /\ n.item = item
                             /\ n.msg = talk[c].msg /\ n.view = talk[c].view
                             /\ Goes(c, pc, item) = [talk EXCEPT ![c] = n]
<1> DEFINE n == [talk[c] EXCEPT !.pc = pc, !.item = item]
<1>1. talk[c] \in TalkType /\ talk \in [Chat -> TalkType]
  BY DEF ChatTyped
<1>2. n \in TalkType /\ n.pc = pc /\ n.item = item /\ n.msg = talk[c].msg /\ n.view = talk[c].view
  BY <1>1 DEF TalkType
<1>3. Goes(c, pc, item) = [talk EXCEPT ![c] = n]
  BY <1>1 DEF Goes
<1> HIDE DEF n
<1> QED BY <1>2, <1>3

\* A request that goes on after an answer, with a view of the thread.
LEMMA AnsweredFields ==
  ASSUME ChatTyped, NEW c \in Chat, NEW view \in ThreadType
  PROVE  \E n \in TalkType : /\ n.pc = "turn" /\ n.view = view
                             /\ Answered(c, view) = [talk EXCEPT ![c] = n]
<1> DEFINE n == [talk[c] EXCEPT !.pc = "turn", !.item = 0, !.view = view]
<1>1. talk[c] \in TalkType /\ talk \in [Chat -> TalkType]
  BY DEF ChatTyped
<1>2. n \in TalkType /\ n.pc = "turn" /\ n.view = view
  BY <1>1 DEF TalkType, TalkStep, TalkItem
<1>3. Answered(c, view) = [talk EXCEPT ![c] = n]
  BY <1>1 DEF Answered
<1> HIDE DEF n
<1> QED BY <1>2, <1>3

LEMMA ChatInitHolds == ChatInit => ChatInv
<1> SUFFICES ASSUME ChatInit PROVE ChatInv
  OBVIOUS
<1>1. /\ thread = NewThread /\ talk = [c \in Chat |-> NoTalk] /\ approver = NoApprover
      /\ bought = [m \in Message |-> [p \in 1..MaxPlans |-> 0]] /\ proposed = 0 /\ planKeys = {}
      /\ spent = 0 /\ shown = 0 /\ granted = [extra |-> 0, once |-> 0] /\ crossed = FALSE
      /\ expired = 0 /\ tally.lost = 0
  BY DEF ChatInit
<1>2. ChatTyped
  <2>1. tally \in TallyType
    BY DEF ChatInit, TallyType
  <2>2. bought \in [Message -> [1..MaxPlans -> Nat]]
    BY <1>1
  <2>3. proposed \in 0..MaxPlans /\ granted \in [extra : Nat, once : Nat]
    BY <1>1, ChatAssumption
  <2>4. talk \in [Chat -> TalkType] /\ thread \in ThreadType
    BY <1>1, NoTalkType
  <2>5. planKeys \subseteq Message \X (1..proposed)
    BY <1>1
  <2>6. chatSetup \in ChatSetups /\ kept = {} /\ asked = {} /\ trading = TRUE
    BY DEF ChatInit
  <2>7. approver \in Nat \cup {NoApprover} /\ crossed \in BOOLEAN /\ spent \in Nat /\ shown \in Nat /\ expired \in Nat
    BY <1>1
  <2> QED BY <2>1, <2>2, <2>3, <2>4, <2>5, <2>6, <2>7 DEF ChatTyped
<1>3. \A c \in Chat : talk[c].pc = "idle" /\ talk[c].view = NewThread
  BY <1>1, NoTalkType
<1>4. NewThread.calls = 0 /\ NewThread.extra = 0 /\ NewThread.once = FALSE
  BY DEF NewThread
<1>5. ViewsFit
  BY <1>1, <1>3, <1>4 DEF ViewsFit, ViewFits, Searching, NoApprover
<1>6. SearchesFit
  <2>1. chatSetup.limit \in Nat /\ ~\E c \in Chat : Searching(c)
    BY <1>2, <1>3, SetupFields DEF Searching
  <2>2. thread.calls = 0 /\ thread.extra = 0 /\ granted.extra = 0
    BY <1>1, <1>4
  <2> QED BY <1>1, <2>1, <2>2 DEF SearchesFit, Allowed
<1>7. ReadsFit
  <2>1. ~thread.once /\ granted.once = 0
    BY <1>1, <1>4
  <2> QED BY <1>1, <1>3, <2>1 DEF ReadsFit
<1>8. PlacesFit
  BY <1>1, <1>3 DEF PlacesFit, Placing
<1> QED BY <1>2, <1>5, <1>6, <1>7, <1>8 DEF ChatInv

-----------------------------------------------------------------------------
(* One request moves                                                          *)

LEMMA ViewsKeep ==
  ASSUME ChatTyped, ViewsFit, NEW c \in Chat, NEW n \in TalkType,
         talk' = [talk EXCEPT ![c] = n],
         spent' \in Nat, spent <= spent', granted'.extra \in Nat, granted.extra <= granted'.extra,
         ViewFits(thread)', approver' <= granted'.extra,
         n.view.calls <= spent', n.view.extra <= granted'.extra,
         n.pc = "searching" => n.view.calls + 1 <= spent'
  PROVE  ViewsFit'
<1>1. talk \in [Chat -> TalkType] /\ spent \in Nat /\ granted.extra \in Nat
  BY DEF ChatTyped
<1>2. talk'[c] = n /\ \A d \in Chat \ {c} : talk'[d] = talk[d]
  BY <1>1
<1>3. ASSUME NEW d \in Chat
      PROVE  (ViewFits(talk[d].view) /\ (Searching(d) => talk[d].view.calls + 1 <= spent))'
  <2>1. CASE d = c
    BY <1>2, <2>1 DEF ViewFits, Searching
  <2>2. CASE d # c
    <3>1. talk'[d] = talk[d] /\ ViewFits(talk[d].view) /\ (Searching(d) => talk[d].view.calls + 1 <= spent)
      BY <1>2, <2>2 DEF ViewsFit
    <3>2. talk[d].view.calls \in Nat /\ talk[d].view.extra \in Nat
      BY <1>1 DEF TalkType, ThreadType
    <3> QED BY <1>1, <3>1, <3>2 DEF ViewFits, Searching
  <2> QED BY <2>1, <2>2
<1> QED BY <1>3 DEF ViewsFit

LEMMA SearchesKeep ==
  ASSUME ChatTyped, SearchesFit, NEW c \in Chat, NEW n \in TalkType,
         talk' = [talk EXCEPT ![c] = n], n.pc # "searching", ~Searching(c),
         UNCHANGED <<chatSetup, thread, granted, spent, expired>>, tally'.lost = tally.lost,
         ~crossed' => ~crossed
  PROVE  SearchesFit'
<1>1. talk'[c] = n /\ \A d \in Chat \ {c} : talk'[d] = talk[d]
  BY DEF ChatTyped
<1>2. \A d \in Chat : Searching(d)' <=> Searching(d)
  BY <1>1 DEF Searching
<1> QED BY <1>2 DEF SearchesFit, Allowed

LEMMA ReadsKeep ==
  ASSUME ChatTyped, ReadsFit, NEW c \in Chat, NEW n \in TalkType,
         talk' = [talk EXCEPT ![c] = n], n.pc = "reading" => n.view.once \/ n.view.session,
         UNCHANGED <<granted, shown>>, thread'.once = thread.once,
         ~crossed' => ~crossed
  PROVE  ReadsFit'
<1>1. talk'[c] = n /\ \A d \in Chat \ {c} : talk'[d] = talk[d]
  BY DEF ChatTyped
<1> QED BY <1>1 DEF ReadsFit

LEMMA PlacesKeep ==
  ASSUME ChatTyped, PlacesFit, NEW c \in Chat, NEW n \in TalkType,
         talk' = [talk EXCEPT ![c] = n], n.pc # "placing",
         UNCHANGED <<chatSetup, planKeys, bought>>
  PROVE  PlacesFit'
<1>1. talk'[c] = n /\ \A d \in Chat \ {c} : talk'[d] = talk[d]
  BY DEF ChatTyped
<1>2. \A d \in Chat : Placing(d)' => Placing(d) /\ talk'[d] = talk[d]
  BY <1>1 DEF Placing
<1> QED BY <1>2 DEF PlacesFit

\* A request that leaves the thread, the searches and the orders alone.
LEMMA TurnKeeps ==
  ASSUME ChatInv, NEW c \in Chat, NEW n \in TalkType,
         talk' = [talk EXCEPT ![c] = n], ~Searching(c),
         n.pc \notin {"searching", "placing"}, n.pc = "reading" => n.view.once \/ n.view.session,
         n.view.calls <= spent, n.view.extra <= granted.extra,
         UNCHANGED <<installed, thread, approver, granted, planKeys, bought, meters>>,
         kept' \subseteq Message, asked' \subseteq {"search", "read"},
         proposed' \in 0..MaxPlans, proposed <= proposed',
         tally' \in TallyType, tally'.lost = tally.lost
  PROVE  ChatInv'
<1>1. /\ ChatTyped /\ ViewsFit /\ SearchesFit /\ ReadsFit /\ PlacesFit
      /\ UNCHANGED <<spent, shown, crossed, expired, chatSetup, trading>>
  BY DEF ChatInv, meters, installed
<1>2. ChatTyped'
  <2>1. planKeys' \subseteq Message \X (1..proposed')
    BY <1>1 DEF ChatTyped
  <2>2. talk' \in [Chat -> TalkType]
    BY <1>1 DEF ChatTyped
  <2> QED BY <1>1, <2>1, <2>2 DEF ChatTyped
<1>3. ViewsFit'
  <2>1. /\ spent' \in Nat /\ spent <= spent' /\ granted'.extra \in Nat /\ granted.extra <= granted'.extra
        /\ ViewFits(thread)' /\ approver' <= granted'.extra
        /\ n.view.calls <= spent' /\ n.view.extra <= granted'.extra
    BY <1>1 DEF ChatTyped, ViewsFit, ViewFits
  <2> QED BY <1>1, <2>1, ViewsKeep
<1>4. SearchesFit'
  BY <1>1, SearchesKeep
<1>5. ReadsFit'
  BY <1>1, ReadsKeep
<1>6. PlacesFit'
  BY <1>1, PlacesKeep
<1> QED BY <1>2, <1>3, <1>4, <1>5, <1>6 DEF ChatInv

-----------------------------------------------------------------------------
(* The tools                                                                  *)

\* Counting a turn, a run, an approval or a flip keeps the searches that were lost.
LEMMA TallyFields ==
  ASSUME ChatTyped
  PROVE  /\ [tally EXCEPT !.turns = @ + 1] \in TallyType /\ [tally EXCEPT !.turns = @ + 1].lost = tally.lost
         /\ [tally EXCEPT !.talks = @ + 1] \in TallyType /\ [tally EXCEPT !.talks = @ + 1].lost = tally.lost
         /\ [tally EXCEPT !.approvals = @ + 1] \in TallyType /\ [tally EXCEPT !.approvals = @ + 1].lost = tally.lost
         /\ [tally EXCEPT !.flips = @ + 1] \in TallyType /\ [tally EXCEPT !.flips = @ + 1].lost = tally.lost
<1>1. tally \in TallyType
  BY DEF ChatTyped
<1>2. [tally EXCEPT !.turns = @ + 1] \in TallyType /\ [tally EXCEPT !.turns = @ + 1].lost = tally.lost
  BY <1>1 DEF TallyType
<1>3. [tally EXCEPT !.talks = @ + 1] \in TallyType /\ [tally EXCEPT !.talks = @ + 1].lost = tally.lost
  BY <1>1 DEF TallyType
<1>4. [tally EXCEPT !.approvals = @ + 1] \in TallyType /\ [tally EXCEPT !.approvals = @ + 1].lost = tally.lost
  BY <1>1 DEF TallyType
<1>5. [tally EXCEPT !.flips = @ + 1] \in TallyType /\ [tally EXCEPT !.flips = @ + 1].lost = tally.lost
  BY <1>1 DEF TallyType
<1> QED BY <1>2, <1>3, <1>4, <1>5

\* What holds of a request and its view.
LEMMA TalkFields ==
  ASSUME ChatInv, NEW c \in Chat
  PROVE  /\ ChatTyped /\ talk \in [Chat -> TalkType] /\ talk[c] \in TalkType /\ talk[c].view \in ThreadType
         /\ talk[c].view.calls <= spent /\ talk[c].view.extra <= granted.extra
         /\ talk[c].view.calls \in Nat /\ talk[c].view.extra \in Nat
         /\ thread.calls <= spent /\ thread.extra <= granted.extra
         /\ kept \subseteq Message /\ asked \subseteq {"search", "read"} /\ talk[c].msg \in Message
         /\ proposed \in 0..MaxPlans /\ tally \in TallyType
<1>1. ChatTyped /\ talk \in [Chat -> TalkType] /\ talk[c] \in TalkType
  BY DEF ChatInv, ChatTyped
<1>2. talk[c].view \in ThreadType /\ talk[c].msg \in Message
  BY <1>1 DEF TalkType
<1>3. ViewFits(talk[c].view) /\ ViewFits(thread)
  BY DEF ChatInv, ViewsFit
<1> QED BY <1>1, <1>2, <1>3 DEF ViewFits, ChatTyped, ThreadType

LEMMA StartKeeps ==
  ASSUME ChatInv, NEW c \in Chat, NEW m \in Message, Ask(c, m) \/ TalkResume(c, m)
  PROVE  ChatInv'
<1> DEFINE n == [pc |-> "turn", msg |-> m, item |-> 0, view |-> thread, trading |-> trading]
<1>1. /\ talk[c].pc = "idle" /\ talk' = [talk EXCEPT ![c] = n]
      /\ tally' = [tally EXCEPT !.talks = @ + 1]
      /\ UNCHANGED <<installed, thread, kept, cached, deals, consents, meters>>
  BY DEF Ask, TalkResume, StartTalk
<1>2. n \in TalkType /\ n.pc = "turn" /\ n.view = thread
  <2>1. thread \in ThreadType /\ trading \in BOOLEAN
    BY DEF ChatInv, ChatTyped
  <2> QED BY <2>1 DEF TalkType, TalkStep, TalkItem
<1> HIDE DEF n
<1>3. /\ n.view.calls <= spent /\ n.view.extra <= granted.extra /\ ~Searching(c)
      /\ tally' \in TallyType /\ tally'.lost = tally.lost
  BY <1>1, <1>2, TalkFields, TallyFields DEF Searching
<1>4. /\ UNCHANGED <<installed, thread, approver, granted, planKeys, bought, meters>>
      /\ kept' \subseteq Message /\ asked' \subseteq {"search", "read"}
      /\ proposed' \in 0..MaxPlans /\ proposed <= proposed'
  BY <1>1, TalkFields DEF installed, deals, consents
<1> QED BY <1>1, <1>2, <1>3, <1>4, TurnKeeps

\* A run that ends, with or without a question to the user.
LEMMA EndsKeep ==
  ASSUME ChatInv, NEW c \in Chat, talk[c].pc = "turn", EndsTalk(c),
         UNCHANGED <<installed, thread, approver, granted, proposed, planKeys, bought, meters>>,
         asked' \subseteq {"search", "read"},
         tally' \in TallyType, tally'.lost = tally.lost
  PROVE  ChatInv'
<1>1. talk' = [talk EXCEPT ![c] = NoTalk] /\ kept' = kept \cup {talk[c].msg}
  BY DEF EndsTalk
<1>2. NoTalk.view.calls <= spent /\ NoTalk.view.extra <= granted.extra
  <2>1. NoTalk.view.calls = 0 /\ NoTalk.view.extra = 0
    BY NoTalkType DEF NewThread
  <2> QED BY <2>1, TalkFields DEF ChatTyped
<1>3. /\ kept' \subseteq Message /\ ~Searching(c)
      /\ proposed' \in 0..MaxPlans /\ proposed <= proposed'
  BY <1>1, TalkFields DEF Searching
<1> QED BY <1>1, <1>2, <1>3, NoTalkType, TurnKeeps

\* A run that goes on after an answer that changed nothing.
LEMMA AnswerKeeps ==
  ASSUME ChatInv, NEW c \in Chat, ~Searching(c), talk' = Answered(c, talk[c].view),
         UNCHANGED <<installed, thread, kept, asked, approver, granted, planKeys, bought, meters>>,
         proposed' \in 0..MaxPlans, proposed <= proposed',
         tally' \in TallyType, tally'.lost = tally.lost
  PROVE  ChatInv'
<1> DEFINE view == talk[c].view
<1>1. PICK n \in TalkType : n.pc = "turn" /\ n.view = view /\ talk' = [talk EXCEPT ![c] = n]
  <2>1. ChatTyped /\ view \in ThreadType /\ talk' = Answered(c, view)
    BY TalkFields
  <2> HIDE DEF view
  <2> QED BY <2>1, AnsweredFields
<1>2. n.view.calls <= spent /\ n.view.extra <= granted.extra
  BY <1>1, TalkFields
<1>3. kept' \subseteq Message /\ asked' \subseteq {"search", "read"}
  BY TalkFields
<1> QED BY <1>1, <1>2, <1>3, TurnKeeps

LEMMA FinishKeeps ==
  ASSUME ChatInv, NEW c \in Chat, Finish(c)
  PROVE  ChatInv'
<1>1. /\ talk[c].pc = "turn" /\ EndsTalk(c) /\ tally' = tally
      /\ UNCHANGED <<installed, thread, approver, granted, proposed, planKeys, bought, asked, meters>>
  BY DEF Finish, installed, deals, consents
<1> QED BY <1>1, TalkFields, EndsKeep

LEMMA CallSearchKeeps ==
  ASSUME ChatInv, NEW c \in Chat, NEW q \in Query, CallSearch(c, q)
  PROVE  ChatInv'
<1>1. /\ talk[c].pc = "turn" /\ tally' = [tally EXCEPT !.turns = @ + 1]
      /\ UNCHANGED <<installed, thread, approver, granted, proposed, planKeys, bought, meters>>
      /\ \/ talk' = Goes(c, "send", q) /\ UNCHANGED <<kept, asked>>
         \/ EndsTalk(c) /\ asked' = asked \cup {"search"}
  BY DEF CallSearch, AtTurn, installed, deals
<1>2. tally' \in TallyType /\ tally'.lost = tally.lost
  BY <1>1, TalkFields, TallyFields
<1>3. CASE talk' = Goes(c, "send", q) /\ UNCHANGED <<kept, asked>>
  <2>1. PICK n \in TalkType : n.pc = "send" /\ n.view = talk[c].view /\ talk' = [talk EXCEPT ![c] = n]
    <3>1. "send" \in TalkStep /\ q \in TalkItem
      BY DEF TalkStep, TalkItem
    <3> QED BY <1>3, <3>1, TalkFields, GoesFields
  <2>2. /\ n.view.calls <= spent /\ n.view.extra <= granted.extra /\ ~Searching(c)
        /\ kept' \subseteq Message /\ asked' \subseteq {"search", "read"}
        /\ proposed' \in 0..MaxPlans /\ proposed <= proposed'
    BY <1>1, <1>3, <2>1, TalkFields DEF Searching
  <2> QED BY <1>1, <1>2, <2>1, <2>2, TurnKeeps
<1>4. CASE EndsTalk(c) /\ asked' = asked \cup {"search"}
  <2>1. asked' \subseteq {"search", "read"}
    BY <1>4, TalkFields
  <2> QED BY <1>1, <1>2, <1>4, <2>1, EndsKeep
<1> QED BY <1>1, <1>3, <1>4

LEMMA CallReadKeeps ==
  ASSUME ChatInv, NEW c \in Chat, CallRead(c)
  PROVE  ChatInv'
<1> DEFINE view == talk[c].view
<1>1. /\ talk[c].pc = "turn" /\ tally' = [tally EXCEPT !.turns = @ + 1]
      /\ UNCHANGED <<installed, thread, approver, granted, proposed, planKeys, bought, meters>>
      /\ \/ talk' = Answered(c, view) /\ UNCHANGED <<kept, asked>>
         \/ EndsTalk(c) /\ asked' \in {asked, asked \cup {"read"}}
         \/ talk' = Goes(c, "reading", 0) /\ (view.session \/ view.once) /\ UNCHANGED <<kept, asked>>
  BY DEF CallRead, AtTurn, installed, deals
<1>2. tally' \in TallyType /\ tally'.lost = tally.lost
  BY <1>1, TalkFields, TallyFields
<1>3. proposed' \in 0..MaxPlans /\ proposed <= proposed' /\ ~Searching(c)
  BY <1>1, TalkFields DEF Searching
<1>4. CASE talk' = Answered(c, view) /\ UNCHANGED <<kept, asked>>
  BY <1>1, <1>2, <1>3, <1>4, AnswerKeeps
<1>5. CASE EndsTalk(c) /\ asked' \in {asked, asked \cup {"read"}}
  <2>1. asked' \subseteq {"search", "read"}
    BY <1>5, TalkFields
  <2> QED BY <1>1, <1>2, <1>5, <2>1, EndsKeep
<1>6. CASE talk' = Goes(c, "reading", 0) /\ (view.session \/ view.once) /\ UNCHANGED <<kept, asked>>
  <2>1. PICK n \in TalkType : n.pc = "reading" /\ n.view = view /\ talk' = [talk EXCEPT ![c] = n]
    <3>1. "reading" \in TalkStep /\ 0 \in TalkItem
      BY DEF TalkStep, TalkItem
    <3> QED BY <1>6, <3>1, TalkFields, GoesFields
  <2>2. /\ n.view.calls <= spent /\ n.view.extra <= granted.extra /\ (n.view.once \/ n.view.session)
        /\ kept' \subseteq Message /\ asked' \subseteq {"search", "read"}
    BY <1>6, <2>1, TalkFields
  <2> QED BY <1>1, <1>2, <1>3, <2>1, <2>2, TurnKeeps
<1> QED BY <1>1, <1>4, <1>5, <1>6

LEMMA ProposeKeeps ==
  ASSUME ChatInv, NEW c \in Chat, ProposePlan(c)
  PROVE  ChatInv'
<1>1. /\ talk[c].pc = "turn" /\ tally' = [tally EXCEPT !.turns = @ + 1]
      /\ proposed < MaxPlans /\ proposed' = proposed + 1 /\ talk' = Answered(c, talk[c].view)
      /\ UNCHANGED <<installed, thread, kept, asked, approver, granted, planKeys, bought, meters>>
  BY DEF ProposePlan, AtTurn, installed, consents
<1>2. /\ proposed' \in 0..MaxPlans /\ proposed <= proposed' /\ ~Searching(c)
      /\ tally' \in TallyType /\ tally'.lost = tally.lost
  BY <1>1, TalkFields, TallyFields, ChatAssumption DEF Searching
<1> QED BY <1>1, <1>2, AnswerKeeps

LEMMA ExecutePlanKeeps ==
  ASSUME ChatInv, NEW c \in Chat, NEW p \in 1..MaxPlans, NEW ok \in BOOLEAN, ExecutePlan(c, p, ok)
  PROVE  ChatInv'
<1> DEFINE m == talk[c].msg
<1>1. /\ talk[c].pc = "turn" /\ tally' = [tally EXCEPT !.turns = @ + 1] /\ p <= proposed
      /\ UNCHANGED <<installed, thread, kept, asked, approver, granted, proposed, bought, spent, shown, crossed, expired, meters, chatSetup, trading>>
      /\ \/ talk' = Answered(c, talk[c].view) /\ planKeys' = planKeys
         \/ /\ m \in chatSetup.explicit /\ <<m, p>> \notin planKeys
            /\ planKeys' = planKeys \cup {<<m, p>>} /\ talk' = Goes(c, "placing", p)
  BY DEF ExecutePlan, AtTurn, installed, consents, meters
<1>2. /\ proposed' \in 0..MaxPlans /\ proposed <= proposed' /\ ~Searching(c)
      /\ tally' \in TallyType /\ tally'.lost = tally.lost
  BY <1>1, TalkFields, TallyFields DEF Searching
<1>3. CASE talk' = Answered(c, talk[c].view) /\ planKeys' = planKeys
  BY <1>1, <1>2, <1>3, AnswerKeeps
<1>4. CASE /\ m \in chatSetup.explicit /\ <<m, p>> \notin planKeys
           /\ planKeys' = planKeys \cup {<<m, p>>} /\ talk' = Goes(c, "placing", p)
  <2>1. PICK n \in TalkType : /\ n.pc = "placing" /\ n.item = p /\ n.msg = m /\ n.view = talk[c].view
                              /\ talk' = [talk EXCEPT ![c] = n]
    <3>1. "placing" \in TalkStep /\ p \in TalkItem
      BY DEF TalkStep, TalkItem
    <3> QED BY <1>4, <3>1, TalkFields, GoesFields
  <2>2. ChatTyped /\ ViewsFit /\ SearchesFit /\ ReadsFit /\ PlacesFit
    BY DEF ChatInv
  <2>3. talk' \in [Chat -> TalkType] /\ talk'[c] = n /\ \A d \in Chat \ {c} : talk'[d] = talk[d]
    BY <2>1, <2>2 DEF ChatTyped
  <2>4. ChatTyped'
    <3>1. planKeys' \subseteq Message \X (1..proposed')
      <4>1. p \in 1..proposed
        BY <1>1, TalkFields
      <4>2. <<m, p>> \in Message \X (1..proposed)
        BY <4>1, TalkFields
      <4> QED BY <1>1, <1>4, <2>2, <4>2 DEF ChatTyped
    <3> QED BY <1>1, <1>2, <2>2, <2>3, <3>1 DEF ChatTyped
  <2>5. ViewsFit'
    <3>1. /\ spent' \in Nat /\ spent <= spent' /\ granted'.extra \in Nat /\ granted.extra <= granted'.extra
          /\ ViewFits(thread)' /\ approver' <= granted'.extra
          /\ n.view.calls <= spent' /\ n.view.extra <= granted'.extra
      BY <1>1, <2>1, <2>2, TalkFields DEF ChatTyped, ViewsFit, ViewFits
    <3> QED BY <2>1, <2>2, <3>1, ViewsKeep
  <2>6. SearchesFit'
    BY <1>1, <1>2, <2>1, <2>2, SearchesKeep
  <2>7. ReadsFit'
    BY <1>1, <2>1, <2>2, ReadsKeep
  <2>8. PlacesFit'
    <3>1. bought[m][p] = 0
      <4>1. bought[m][p] \in Nat /\ m \in Message
        BY <2>2, TalkFields DEF ChatTyped
      <4> QED BY <1>4, <2>2, <4>1 DEF PlacesFit
    <3>2. \A d \in Chat \ {c} : Placing(d) => <<talk[d].msg, talk[d].item>> \in planKeys
      BY <2>2 DEF PlacesFit
    <3>3. \A d \in Chat \ {c} : Placing(d) => talk[d].msg # m \/ talk[d].item # p
      BY <1>4, <3>2
    <3>4. Placing(c)' /\ \A d \in Chat \ {c} : Placing(d)' <=> Placing(d)
      BY <2>1, <2>3 DEF Placing
    <3> QED BY <1>1, <1>4, <2>1, <2>2, <2>3, <3>1, <3>3, <3>4 DEF PlacesFit
  <2> QED BY <2>4, <2>5, <2>6, <2>7, <2>8 DEF ChatInv
<1> QED BY <1>1, <1>3, <1>4

LEMMA SendSearchKeeps ==
  ASSUME ChatInv, NEW c \in Chat, NEW ok \in BOOLEAN, SendSearch(c, ok)
  PROVE  ChatInv'
<1> DEFINE q == talk[c].item
           view == talk[c].view
<1>1. /\ talk[c].pc = "send"
      /\ UNCHANGED <<installed, thread, kept, asked, approver, granted, proposed, planKeys, bought, shown, tally>>
      /\ \/ talk' = Answered(c, view) /\ UNCHANGED <<spent, crossed, expired>>
         \/ /\ talk' = Goes(c, "searching", q) /\ spent' = spent + 1
            /\ crossed' = (crossed \/ Stale(view) \/ \E d \in Chat : talk[d].pc = "searching")
            /\ expired' = IF WithinBudget(view) THEN expired ELSE expired + 1
  BY DEF SendSearch, deals, consents
<1>2. ~Searching(c) /\ ChatTyped /\ ViewsFit /\ SearchesFit /\ ReadsFit /\ PlacesFit
  BY <1>1 DEF Searching, ChatInv
<1>3. CASE talk' = Answered(c, view) /\ UNCHANGED <<spent, crossed, expired>>
  <2>1. /\ proposed' \in 0..MaxPlans /\ proposed <= proposed' /\ UNCHANGED meters
        /\ tally' \in TallyType /\ tally'.lost = tally.lost
    BY <1>1, <1>3, TalkFields DEF meters
  <2> QED BY <1>1, <1>2, <1>3, <2>1, AnswerKeeps
<1>4. CASE /\ talk' = Goes(c, "searching", q) /\ spent' = spent + 1
           /\ crossed' = (crossed \/ Stale(view) \/ \E d \in Chat : talk[d].pc = "searching")
           /\ expired' = IF WithinBudget(view) THEN expired ELSE expired + 1
  <2>1. PICK n \in TalkType : /\ n.pc = "searching" /\ n.view = view
                              /\ talk' = [talk EXCEPT ![c] = n]
    <3>1. "searching" \in TalkStep /\ q \in TalkItem
      BY <1>2, TalkFields DEF TalkStep, TalkType
    <3> HIDE DEF q
    <3> QED BY <1>2, <1>4, <3>1, GoesFields
  <2>2. talk' \in [Chat -> TalkType] /\ talk'[c] = n /\ \A d \in Chat \ {c} : talk'[d] = talk[d]
    BY <1>2, <2>1 DEF ChatTyped
  <2>3. expired' \in {expired, expired + 1} /\ expired \in Nat /\ spent \in Nat
    BY <1>2, <1>4 DEF ChatTyped
  <2>4. ChatTyped'
    <3>1. crossed' \in BOOLEAN
      BY <1>4
    <3> QED BY <1>1, <1>2, <1>4, <2>2, <2>3, <3>1 DEF ChatTyped, installed
  <2>5. ViewsFit'
    <3>1. view.calls \in Nat /\ view.calls <= spent /\ view.extra <= granted.extra
      BY TalkFields
    <3>2. thread.calls <= spent /\ thread.extra <= granted.extra /\ thread.calls \in Nat /\ approver <= granted.extra
          /\ granted.extra \in Nat
      BY <1>2, TalkFields DEF ChatTyped, ThreadType, ViewsFit
    <3>3. /\ spent' \in Nat /\ spent <= spent' /\ granted'.extra \in Nat /\ granted.extra <= granted'.extra
          /\ ViewFits(thread)' /\ approver' <= granted'.extra
          /\ n.view.calls <= spent' /\ n.view.extra <= granted'.extra /\ n.view.calls + 1 <= spent'
      BY <1>1, <1>4, <2>1, <2>3, <3>1, <3>2 DEF ViewFits
    <3> QED BY <1>2, <2>1, <3>3, ViewsKeep
  <2>6. SearchesFit'
    <3>1. SUFFICES ASSUME ~crossed'
                   PROVE  SearchesFit'
      BY DEF SearchesFit
    <3>2. /\ ~crossed /\ view.calls = thread.calls /\ view.extra = thread.extra
          /\ \A d \in Chat : ~Searching(d)
      BY <1>4, <3>1 DEF Stale, Searching
    <3>4. /\ chatSetup.limit \in Nat /\ thread.calls \in Nat /\ thread.extra \in Nat /\ granted.extra \in Nat
          /\ tally.lost \in Nat
      BY <1>2, SetupFields DEF ChatTyped, ThreadType, TallyType
    <3>3. /\ thread.calls + thread.extra <= Allowed /\ spent = thread.calls + tally.lost
      BY <1>2, <3>2, <3>4 DEF SearchesFit
    <3>5. /\ UNCHANGED <<chatSetup, thread, granted, tally>>
      BY <1>1 DEF installed
    <3>6. thread.calls + thread.extra <= Allowed'
      BY <2>3, <3>3, <3>4, <3>5 DEF Allowed
    <3>7. thread.calls + 1 <= Allowed'
      <4>1. CASE WithinBudget(view)
        BY <2>3, <3>2, <3>3, <3>4, <3>5, <4>1 DEF Allowed, WithinBudget
      <4>2. CASE ~WithinBudget(view)
        BY <1>4, <2>3, <3>3, <3>4, <3>5, <4>2 DEF Allowed
      <4> QED BY <4>1, <4>2
    <3>8. Searching(c)' /\ \A d \in Chat \ {c} : ~Searching(d)'
      BY <2>1, <2>2, <3>2 DEF Searching
    <3>9. spent' = thread.calls + tally.lost + 1
      BY <1>4, <3>3, <3>4
    <3> QED BY <3>5, <3>6, <3>7, <3>8, <3>9 DEF SearchesFit
  <2>7. ReadsFit'
    BY <1>1, <1>2, <1>4, <2>1, ReadsKeep
  <2>8. PlacesFit'
    BY <1>1, <1>2, <2>1, PlacesKeep DEF installed
  <2> QED BY <2>4, <2>5, <2>6, <2>7, <2>8 DEF ChatInv
<1> QED BY <1>1, <1>3, <1>4

LEMMA CountedFields ==
  ASSUME NEW v \in ThreadType, chatSetup.limit \in Nat
  PROVE  /\ CountedSearch(v).calls = v.calls + 1
         /\ CountedSearch(v).extra = IF v.calls + 1 > chatSetup.limit /\ v.extra > 0 THEN v.extra - 1 ELSE v.extra
BY DEF CountedSearch, ThreadType

LEMMA SearchAnswersKeeps ==
  ASSUME ChatInv, NEW c \in Chat, NEW ok \in BOOLEAN, SearchAnswers(c, ok)
  PROVE  ChatInv'
<1> DEFINE view == talk[c].view
           count == CountedSearch(view)
           next == [thread EXCEPT !.calls = count.calls, !.extra = count.extra]
<1>1. /\ Searching(c) /\ thread' = next /\ talk' = Answered(c, next) /\ crossed' = (crossed \/ Stale(view))
      /\ UNCHANGED <<installed, kept, asked, approver, granted, proposed, planKeys, bought, spent, shown, expired, tally>>
  BY DEF SearchAnswers, Searching, deals, consents
<1>2. ChatTyped /\ ViewsFit /\ SearchesFit /\ ReadsFit /\ PlacesFit /\ thread \in ThreadType
  BY DEF ChatInv, ChatTyped
<1>3. /\ view \in ThreadType /\ view.calls \in Nat /\ view.extra \in Nat /\ chatSetup.limit \in Nat
      /\ view.calls + 1 <= spent /\ view.extra <= granted.extra /\ spent \in Nat /\ granted.extra \in Nat
  BY <1>1, <1>2, TalkFields, SetupFields DEF ViewsFit, ChatTyped
<1>4. /\ count.calls = view.calls + 1
      /\ count.extra = IF view.calls + 1 > chatSetup.limit /\ view.extra > 0 THEN view.extra - 1 ELSE view.extra
  BY <1>3, CountedFields
<1>5. count.calls \in Nat /\ count.extra \in Nat /\ count.extra <= view.extra
  BY <1>3, <1>4
<1> HIDE DEF count
<1>6. next \in ThreadType /\ next.calls = count.calls /\ next.extra = count.extra /\ next.once = thread.once
  BY <1>2, <1>5 DEF ThreadType
<1> HIDE DEF next
<1>7. PICK n \in TalkType : n.pc = "turn" /\ n.view = next /\ talk' = [talk EXCEPT ![c] = n]
  BY <1>1, <1>2, <1>6, AnsweredFields
<1>8. talk' \in [Chat -> TalkType] /\ talk'[c] = n /\ \A d \in Chat \ {c} : talk'[d] = talk[d]
  BY <1>2, <1>7 DEF ChatTyped
<1>9. ChatTyped'
  <2>1. crossed' \in BOOLEAN
    BY <1>1
  <2> QED BY <1>1, <1>2, <1>6, <1>8, <2>1 DEF ChatTyped, installed
<1>10. ViewsFit'
  <2>1. approver <= granted.extra
    BY <1>2 DEF ViewsFit
  <2>2. /\ spent' \in Nat /\ spent <= spent' /\ granted'.extra \in Nat /\ granted.extra <= granted'.extra
        /\ ViewFits(thread)' /\ approver' <= granted'.extra
        /\ n.view.calls <= spent' /\ n.view.extra <= granted'.extra
    BY <1>1, <1>3, <1>4, <1>5, <1>6, <1>7, <2>1 DEF ViewFits
  <2> QED BY <1>2, <1>7, <2>2, ViewsKeep
<1>11. SearchesFit'
  <2>1. SUFFICES ASSUME ~crossed'
                 PROVE  SearchesFit'
    BY DEF SearchesFit
  <2>2. ~crossed /\ view.calls = thread.calls /\ view.extra = thread.extra
    BY <1>1, <2>1 DEF Stale
  <2>3. /\ \A d \in Chat \ {c} : ~Searching(d)
        /\ thread.calls + thread.extra <= Allowed /\ thread.calls + 1 <= Allowed
        /\ spent = thread.calls + tally.lost + 1
    BY <1>1, <1>2, <2>2 DEF SearchesFit
  <2>4. \A d \in Chat : ~Searching(d)'
    BY <1>7, <1>8, <2>3 DEF Searching
  <2>5. Allowed' = Allowed /\ Allowed \in Nat /\ tally'.lost = tally.lost /\ tally.lost \in Nat /\ chatSetup.limit <= Allowed
        /\ chatSetup.limit + granted.extra <= Allowed
    BY SMTT(30), <1>1, <1>2, <1>3 DEF Allowed, ChatTyped, TallyType, installed
  <2>6. thread'.calls = view.calls + 1 /\ thread'.extra = count.extra
    BY <1>1, <1>4, <1>6
  <2>7. thread'.calls + thread'.extra <= Allowed
    <3>1. CASE view.calls + 1 > chatSetup.limit /\ view.extra > 0
      BY <1>3, <1>4, <2>2, <2>3, <2>5, <2>6, <3>1
    <3>2. CASE view.extra = 0
      BY <1>3, <1>4, <2>2, <2>3, <2>5, <2>6, <3>2
    <3>3. CASE view.calls + 1 <= chatSetup.limit
      BY <1>3, <1>4, <2>2, <2>3, <2>5, <2>6, <3>3
    <3> QED BY <1>3, <3>1, <3>2, <3>3
  <2>8. spent' = thread'.calls + tally'.lost
    BY <1>1, <1>3, <2>2, <2>3, <2>5, <2>6
  <2>9. thread'.calls \in Nat
    BY <1>3, <2>6
  <2> QED BY <2>4, <2>5, <2>7, <2>8, <2>9 DEF SearchesFit
<1>12. ReadsFit'
  <2>1. thread'.once = thread.once
    BY <1>1, <1>6
  <2> QED BY <1>1, <1>2, <1>7, <2>1, ReadsKeep
<1>13. PlacesFit'
  BY <1>1, <1>2, <1>7, PlacesKeep DEF installed
<1> QED BY <1>9, <1>10, <1>11, <1>12, <1>13 DEF ChatInv

LEMMA ReadAnswersKeeps ==
  ASSUME ChatInv, NEW c \in Chat, NEW ok \in BOOLEAN, ReadAnswers(c, ok)
  PROVE  ChatInv'
<1> DEFINE view == talk[c].view
           uses == ok /\ ~view.session /\ view.once
           next == [thread EXCEPT !.once = FALSE]
           after == IF uses THEN next ELSE view
<1>1. /\ talk[c].pc = "reading" /\ talk' = Answered(c, after)
      /\ thread' = IF uses THEN next ELSE thread
      /\ crossed' = (crossed \/ (uses /\ thread.once # view.once))
      /\ shown' = IF ok /\ ~view.session THEN shown + 1 ELSE shown
      /\ UNCHANGED <<installed, kept, asked, approver, granted, proposed, planKeys, bought, spent, expired, tally>>
  <2>1. CASE uses
    BY <2>1 DEF ReadAnswers, deals, consents
  <2>2. CASE ~uses
    <3>1. crossed \in BOOLEAN
      BY DEF ChatInv, ChatTyped
    <3> QED BY <2>2, <3>1 DEF ReadAnswers, deals, consents
  <2> QED BY <2>1, <2>2
<1>2. ChatTyped /\ ViewsFit /\ SearchesFit /\ ReadsFit /\ PlacesFit /\ thread \in ThreadType /\ ~Searching(c)
  BY <1>1 DEF ChatInv, ChatTyped, Searching
<1>3. /\ view \in ThreadType /\ view.calls <= spent /\ view.extra <= granted.extra
      /\ thread.calls <= spent /\ thread.extra <= granted.extra
  BY TalkFields
<1>4. next \in ThreadType /\ next.calls = thread.calls /\ next.extra = thread.extra /\ next.once = FALSE
  BY <1>2 DEF ThreadType
<1> HIDE DEF next
<1>5. /\ after \in ThreadType /\ after.calls <= spent /\ after.extra <= granted.extra
      /\ thread' \in ThreadType /\ thread'.calls = thread.calls /\ thread'.extra = thread.extra
  BY <1>1, <1>2, <1>3, <1>4
<1> HIDE DEF after
<1>6. PICK n \in TalkType : n.pc = "turn" /\ n.view = after /\ talk' = [talk EXCEPT ![c] = n]
  BY <1>1, <1>2, <1>5, AnsweredFields
<1>7. talk' \in [Chat -> TalkType] /\ talk'[c] = n /\ \A d \in Chat \ {c} : talk'[d] = talk[d]
  BY <1>2, <1>6 DEF ChatTyped
<1>8. ChatTyped'
  <2>1. crossed' \in BOOLEAN /\ shown' \in Nat
    BY <1>1, <1>2 DEF ChatTyped
  <2> QED BY <1>1, <1>2, <1>5, <1>7, <2>1 DEF ChatTyped, installed
<1>9. ViewsFit'
  <2>1. /\ spent' \in Nat /\ spent <= spent' /\ granted'.extra \in Nat /\ granted.extra <= granted'.extra
        /\ ViewFits(thread)' /\ approver' <= granted'.extra
        /\ n.view.calls <= spent' /\ n.view.extra <= granted'.extra
    BY <1>1, <1>2, <1>3, <1>5, <1>6 DEF ViewFits, ViewsFit, ChatTyped
  <2> QED BY <1>2, <1>6, <2>1, ViewsKeep
<1>10. SearchesFit'
  <2>1. \A d \in Chat : Searching(d)' <=> Searching(d)
    BY <1>2, <1>6, <1>7 DEF Searching
  <2> QED BY <1>1, <1>2, <1>5, <2>1 DEF SearchesFit, Allowed, installed
<1>11. ReadsFit'
  <2>1. \A d \in Chat : talk'[d].pc = "reading" => talk'[d].view.once \/ talk'[d].view.session
    BY <1>2, <1>6, <1>7 DEF ReadsFit
  <2>2. ASSUME ~crossed'
        PROVE  shown' + (IF thread'.once THEN 1 ELSE 0) <= granted'.once
    <3>1. /\ ~crossed /\ shown + (IF thread.once THEN 1 ELSE 0) <= granted.once
          /\ shown \in Nat /\ granted.once \in Nat
      BY <1>1, <1>2, <2>2 DEF ReadsFit, ChatTyped
    <3>2. CASE uses
      <4>1. thread.once /\ shown' = shown + 1 /\ ~thread'.once
        BY <1>1, <1>4, <2>2, <3>2
      <4> QED BY <1>1, <3>1, <4>1
    <3>3. CASE ~uses
      <4>1. view.once \/ view.session
        BY <1>1, <1>2 DEF ReadsFit
      <4>2. shown' = shown /\ thread' = thread
        BY <1>1, <3>3, <4>1
      <4> QED BY <1>1, <3>1, <4>2
    <3> QED BY <3>2, <3>3
  <2> QED BY <2>1, <2>2 DEF ReadsFit
<1>12. PlacesFit'
  BY <1>1, <1>2, <1>6, PlacesKeep DEF installed
<1> QED BY <1>8, <1>9, <1>10, <1>11, <1>12 DEF ChatInv

LEMMA PlaceAnswersKeeps ==
  ASSUME ChatInv, NEW c \in Chat, NEW taken \in BOOLEAN, PlaceAnswers(c, taken)
  PROVE  ChatInv'
<1> DEFINE m == talk[c].msg
           p == talk[c].item
           view == talk[c].view
<1>1. /\ Placing(c) /\ talk' = Answered(c, view)
      /\ bought' = IF taken THEN [bought EXCEPT ![m][p] = @ + 1] ELSE bought
      /\ UNCHANGED <<installed, thread, kept, asked, approver, granted, proposed, planKeys, meters, tally>>
  BY DEF PlaceAnswers, Placing, consents
<1>2. ChatTyped /\ ViewsFit /\ SearchesFit /\ ReadsFit /\ PlacesFit /\ ~Searching(c)
  BY <1>1 DEF ChatInv, Searching, Placing
<1>3. /\ m \in Message /\ p \in 1..MaxPlans /\ m \in chatSetup.explicit /\ <<m, p>> \in planKeys
      /\ bought[m][p] = 0 /\ bought \in [Message -> [1..MaxPlans -> Nat]] /\ view \in ThreadType
  BY <1>1, <1>2, TalkFields DEF PlacesFit, ChatTyped
<1>4. PICK n \in TalkType : n.pc = "turn" /\ n.view = view /\ talk' = [talk EXCEPT ![c] = n]
  BY <1>1, <1>2, <1>3, AnsweredFields
<1>5. talk' \in [Chat -> TalkType] /\ talk'[c] = n /\ \A d \in Chat \ {c} : talk'[d] = talk[d]
  BY <1>2, <1>4 DEF ChatTyped
<1>6. /\ bought' \in [Message -> [1..MaxPlans -> Nat]] /\ bought'[m][p] \in {0, 1}
      /\ \A x \in Message, y \in 1..MaxPlans : (x = m /\ y = p) \/ bought'[x][y] = bought[x][y]
  BY <1>1, <1>3
<1>7. ChatTyped'
  BY <1>1, <1>2, <1>5, <1>6 DEF ChatTyped, installed, meters
<1>8. ViewsFit'
  <2>1. /\ spent' \in Nat /\ spent <= spent' /\ granted'.extra \in Nat /\ granted.extra <= granted'.extra
        /\ ViewFits(thread)' /\ approver' <= granted'.extra
        /\ n.view.calls <= spent' /\ n.view.extra <= granted'.extra
    BY <1>1, <1>2, <1>4, TalkFields DEF ViewFits, ViewsFit, ChatTyped, meters
  <2> QED BY <1>2, <1>4, <2>1, ViewsKeep
<1>9. SearchesFit'
  BY <1>1, <1>2, <1>4, SearchesKeep DEF installed, meters
<1>10. ReadsFit'
  BY <1>1, <1>2, <1>4, ReadsKeep DEF meters
<1>11. PlacesFit'
  <2>1. \A d \in Chat : Placing(d)' => d # c /\ Placing(d) /\ talk'[d] = talk[d]
    BY <1>4, <1>5 DEF Placing
  <2>2. ASSUME NEW d \in Chat, Placing(d)'
        PROVE  /\ talk'[d].item \in 1..MaxPlans /\ talk'[d].msg \in chatSetup.explicit
               /\ <<talk'[d].msg, talk'[d].item>> \in planKeys /\ bought'[talk'[d].msg][talk'[d].item] = 0
    <3>1. /\ d # c /\ Placing(d) /\ talk'[d] = talk[d] /\ talk[d].msg \in Message
      BY <2>1, <2>2, TalkFields
    <3>2. /\ talk[d].item \in 1..MaxPlans /\ talk[d].msg \in chatSetup.explicit
          /\ <<talk[d].msg, talk[d].item>> \in planKeys /\ bought[talk[d].msg][talk[d].item] = 0
          /\ ~(talk[d].msg = m /\ talk[d].item = p)
      BY <1>1, <1>2, <3>1 DEF PlacesFit
    <3> QED BY <1>6, <3>1, <3>2
  <2>3. ASSUME NEW x \in Message, NEW y \in 1..MaxPlans
        PROVE  bought'[x][y] <= 1 /\ (bought'[x][y] > 0 => <<x, y>> \in planKeys /\ x \in chatSetup.explicit)
    <3>1. CASE x = m /\ y = p
      BY <1>3, <1>6, <3>1
    <3>2. CASE bought'[x][y] = bought[x][y]
      BY <1>2, <3>2 DEF PlacesFit
    <3> QED BY <1>6, <3>1, <3>2
  <2>4. UNCHANGED <<chatSetup, planKeys>>
    BY <1>1 DEF installed
  <2>5. \A d, e \in Chat : Placing(d)' /\ Placing(e)' /\ talk'[d].msg = talk'[e].msg /\ talk'[d].item = talk'[e].item => d = e
    BY <1>2, <2>1 DEF PlacesFit
  <2> QED BY <2>2, <2>3, <2>4, <2>5 DEF PlacesFit
<1> QED BY <1>7, <1>8, <1>9, <1>10, <1>11 DEF ChatInv

-----------------------------------------------------------------------------
(* The user, and the process                                                  *)

\* What the user changes while no request moves.
LEMMA GrantingKeeps ==
  ASSUME ChatInv, ChatTyped',
         UNCHANGED <<chatSetup, talk, planKeys, bought, spent, shown, expired>>, tally'.lost = tally.lost,
         thread'.calls = thread.calls, ~crossed' => ~crossed,
         granted.extra <= granted'.extra, approver' <= granted'.extra, thread'.extra <= granted'.extra,
         ~crossed' => granted'.extra - granted.extra = thread'.extra - thread.extra,
         ~crossed' => shown + (IF thread'.once THEN 1 ELSE 0) <= granted'.once
  PROVE  ChatInv'
<1>1. ChatTyped /\ ViewsFit /\ SearchesFit /\ ReadsFit /\ PlacesFit
  BY DEF ChatInv
<1>2. /\ granted.extra \in Nat /\ granted'.extra \in Nat /\ thread.extra \in Nat /\ thread'.extra \in Nat
      /\ thread.calls \in Nat /\ chatSetup.limit \in Nat /\ expired \in Nat /\ spent \in Nat
  BY <1>1, SetupFields DEF ChatTyped, ThreadType
<1>3. ViewsFit'
  <2>1. ASSUME NEW c \in Chat
        PROVE  (ViewFits(talk[c].view) /\ (Searching(c) => talk[c].view.calls + 1 <= spent))'
    <3>1. ViewFits(talk[c].view) /\ (Searching(c) => talk[c].view.calls + 1 <= spent)
      BY <1>1 DEF ViewsFit
    <3>2. talk[c].view.extra \in Nat
      BY TalkFields
    <3> QED BY <1>2, <3>1, <3>2 DEF ViewFits, Searching
  <2>2. ViewFits(thread)'
    BY <1>1 DEF ViewsFit, ViewFits
  <2> QED BY <2>1, <2>2 DEF ViewsFit
<1>4. SearchesFit'
  <2>1. SUFFICES ASSUME ~crossed'
                 PROVE  SearchesFit'
    BY DEF SearchesFit
  <2>2. /\ \A c, d \in Chat : Searching(c) /\ Searching(d) => c = d
        /\ thread.calls + thread.extra <= Allowed
        /\ (\E c \in Chat : Searching(c)) => thread.calls + 1 <= Allowed
        /\ spent = thread.calls + tally.lost + (IF \E c \in Chat : Searching(c) THEN 1 ELSE 0)
    BY <1>1, <2>1 DEF SearchesFit
  <2>3. \A c \in Chat : Searching(c)' <=> Searching(c)
    BY DEF Searching
  <2>4. thread'.calls + thread'.extra <= Allowed' /\ Allowed <= Allowed' /\ Allowed \in Nat /\ Allowed' \in Nat
    BY <1>2, <2>1, <2>2 DEF Allowed
  <2>5. (\E c \in Chat : Searching(c)) => thread'.calls + 1 <= Allowed'
    BY <1>2, <2>2, <2>4
  <2> QED BY <2>2, <2>3, <2>4, <2>5 DEF SearchesFit
<1>5. ReadsFit'
  BY <1>1 DEF ReadsFit
<1>6. PlacesFit'
  BY <1>1 DEF PlacesFit, Placing
<1> QED BY <1>3, <1>4, <1>5, <1>6 DEF ChatInv

LEMMA ApproveReadKeeps ==
  ASSUME ChatInv, ApproveRead
  PROVE  ChatInv'
<1>1. /\ approver' = thread.extra /\ tally' = [tally EXCEPT !.approvals = @ + 1]
      /\ UNCHANGED <<installed, thread, talk, kept, asked, granted, cached, deals, meters>>
  BY DEF ApproveRead
<1>2. ChatTyped /\ ViewsFit /\ ReadsFit /\ thread \in ThreadType /\ granted \in [extra : Nat, once : Nat]
  BY DEF ChatInv, ChatTyped
<1>3. ChatTyped'
  <2>1. approver' \in Nat /\ tally' \in TallyType
    BY <1>1, <1>2, TallyFields DEF ThreadType
  <2> QED BY <1>1, <1>2, <2>1 DEF ChatTyped, installed, deals, meters
<1>4. thread.extra <= granted.extra /\ tally'.lost = tally.lost
  BY <1>1, <1>2, TallyFields DEF ViewsFit, ViewFits
<1>5. /\ UNCHANGED <<chatSetup, talk, planKeys, bought, spent, shown, expired>>
      /\ granted.extra <= granted'.extra /\ approver' <= granted'.extra /\ thread'.extra <= granted'.extra
      /\ granted'.extra - granted.extra = thread'.extra - thread.extra
      /\ thread'.calls = thread.calls /\ (~crossed' => ~crossed)
  BY <1>1, <1>2, <1>4 DEF installed, deals, meters, ThreadType
<1>6. ~crossed' => shown + (IF thread'.once THEN 1 ELSE 0) <= granted'.once
  BY <1>1, <1>2 DEF ReadsFit, meters
<1> QED BY <1>3, <1>4, <1>5, <1>6, GrantingKeeps

LEMMA ApproveSearchesKeeps ==
  ASSUME ChatInv, NEW n \in Extra, ApproveSearches(n)
  PROVE  ChatInv'
<1>1. /\ approver # NoApprover /\ approver' = NoApprover
      /\ thread' = [thread EXCEPT !.extra = approver + n] /\ granted' = [granted EXCEPT !.extra = @ + n]
      /\ crossed' = (crossed \/ thread.extra # approver)
      /\ UNCHANGED <<installed, talk, kept, asked, cached, deals, spent, shown, expired, tally>>
  BY DEF ApproveSearches
<1>2. /\ ChatTyped /\ ViewsFit /\ ReadsFit /\ thread \in ThreadType /\ granted \in [extra : Nat, once : Nat]
      /\ approver \in Nat /\ n \in Nat /\ approver <= granted.extra
  BY <1>1, ChatAssumption DEF ChatInv, ChatTyped, ViewsFit
<1>3. /\ thread' \in ThreadType /\ thread'.calls = thread.calls /\ thread'.extra = approver + n
      /\ thread'.once = thread.once
  BY <1>1, <1>2 DEF ThreadType
<1>4. granted' \in [extra : Nat, once : Nat] /\ granted'.extra = granted.extra + n /\ granted'.once = granted.once
  BY <1>1, <1>2
<1>5. ChatTyped'
  <2>1. crossed' \in BOOLEAN /\ approver' \in Nat \cup {NoApprover}
    BY <1>1
  <2> QED BY <1>1, <1>2, <1>3, <1>4, <2>1 DEF ChatTyped, installed, deals
<1>6. granted.extra \in Nat /\ approver' = -1 /\ thread.extra \in Nat
  BY <1>1, <1>2 DEF NoApprover, ThreadType
<1>7. /\ granted.extra <= granted'.extra /\ approver' <= granted'.extra /\ thread'.extra <= granted'.extra
      /\ ~crossed' => ~crossed /\ granted'.extra - granted.extra = thread'.extra - thread.extra
  <2>1. approver + n <= granted.extra + n /\ -1 <= granted.extra + n
    BY <1>2, <1>6
  <2>2. granted.extra <= granted'.extra /\ approver' <= granted'.extra /\ thread'.extra <= granted'.extra
    BY <1>2, <1>3, <1>4, <1>6, <2>1
  <2>3. ~crossed' => ~crossed /\ thread.extra = approver
    BY <1>1
  <2> QED BY <1>2, <1>3, <1>4, <1>6, <2>2, <2>3
<1>8. ~crossed' => shown + (IF thread'.once THEN 1 ELSE 0) <= granted'.once
  BY <1>1, <1>2, <1>3, <1>4 DEF ReadsFit
<1>9. UNCHANGED <<chatSetup, talk, planKeys, bought, spent, shown, expired>> /\ tally'.lost = tally.lost
  BY <1>1 DEF installed, deals
<1> QED BY <1>3, <1>5, <1>7, <1>8, <1>9, GrantingKeeps

LEMMA ApproveDetailKeeps ==
  ASSUME ChatInv, NEW decision \in {"once", "session", "deny"}, ApproveDetail(decision)
  PROVE  ChatInv'
<1>1. /\ tally' = [tally EXCEPT !.approvals = @ + 1]
      /\ thread' = IF decision = "once" THEN [thread EXCEPT !.once = TRUE]
                   ELSE [thread EXCEPT !.once = FALSE, !.session = (decision = "session")]
      /\ granted' = IF decision = "once" THEN [granted EXCEPT !.once = @ + 1] ELSE granted
      /\ UNCHANGED <<installed, talk, kept, asked, approver, cached, deals, meters>>
  BY DEF ApproveDetail
<1>2. /\ ChatTyped /\ ViewsFit /\ ReadsFit /\ thread \in ThreadType /\ granted \in [extra : Nat, once : Nat]
      /\ shown \in Nat /\ UNCHANGED <<shown, crossed>>
  BY <1>1 DEF ChatInv, ChatTyped, meters
<1>3. /\ thread' \in ThreadType /\ thread'.calls = thread.calls /\ thread'.extra = thread.extra
      /\ decision = "once" \/ ~thread'.once
  BY <1>1, <1>2 DEF ThreadType
<1>4. /\ granted' \in [extra : Nat, once : Nat] /\ granted'.extra = granted.extra
      /\ granted'.once = IF decision = "once" THEN granted.once + 1 ELSE granted.once
  BY <1>1, <1>2
<1>5. ChatTyped' /\ tally'.lost = tally.lost
  BY <1>1, <1>2, <1>3, <1>4, TallyFields DEF ChatTyped, installed, deals, meters
<1>6. /\ approver <= granted.extra /\ thread.extra <= granted.extra
      /\ granted.extra \in Nat /\ thread.extra \in Nat
  BY <1>2 DEF ViewsFit, ViewFits, ThreadType
<1>7. ~crossed' => shown + (IF thread'.once THEN 1 ELSE 0) <= granted'.once
  <2>1. SUFFICES ASSUME ~crossed'
                 PROVE  shown + (IF thread'.once THEN 1 ELSE 0) <= granted'.once
    OBVIOUS
  <2>2. shown + (IF thread.once THEN 1 ELSE 0) <= granted.once /\ granted.once \in Nat
    BY <1>2, <2>1 DEF ReadsFit
  <2>3. shown <= granted.once
    BY <1>2, <2>2
  <2> QED BY <1>2, <1>3, <1>4, <2>2, <2>3
<1>8. UNCHANGED <<chatSetup, talk, planKeys, bought, spent, shown, expired, approver>>
  BY <1>1 DEF installed, deals, meters
<1>9. /\ granted.extra <= granted'.extra /\ approver' <= granted'.extra /\ thread'.extra <= granted'.extra
      /\ granted'.extra - granted.extra = thread'.extra - thread.extra
  BY <1>3, <1>4, <1>6, <1>8
<1> QED BY <1>2, <1>3, <1>5, <1>7, <1>8, <1>9, GrantingKeeps

\* A step that the thread, the requests and the counters do not see.
LEMMA AsideKeeps ==
  ASSUME ChatInv, tally' \in TallyType, tally'.lost = tally.lost, trading' \in BOOLEAN,
         UNCHANGED <<chatSetup, thread, talk, kept, deals, consents, meters>>
  PROVE  ChatInv'
<1>1. /\ ChatTyped /\ ViewsFit /\ ReadsFit /\ thread \in ThreadType /\ granted.extra \in Nat
      /\ UNCHANGED <<talk, planKeys, bought, spent, shown, expired, crossed, asked, approver, granted, proposed>>
  BY DEF ChatInv, ChatTyped, deals, consents, meters
<1>2. ChatTyped'
  BY <1>1 DEF ChatTyped
<1>3. approver <= granted.extra /\ thread.extra <= granted.extra /\ thread.extra \in Nat
  BY <1>1 DEF ViewsFit, ViewFits, ThreadType
<1>4. /\ granted.extra <= granted'.extra /\ approver' <= granted'.extra /\ thread'.extra <= granted'.extra
      /\ granted'.extra - granted.extra = thread'.extra - thread.extra
  BY <1>1, <1>3
<1>5. ~crossed' => shown + (IF thread'.once THEN 1 ELSE 0) <= granted'.once
  BY <1>1 DEF ReadsFit
<1>6. /\ UNCHANGED <<chatSetup, talk, planKeys, bought, spent, shown, expired>>
      /\ thread'.calls = thread.calls /\ (~crossed' => ~crossed)
  BY <1>1
<1> QED BY <1>2, <1>4, <1>5, <1>6, GrantingKeeps

LEMMA ChatDiesKeeps ==
  ASSUME ChatInv, ChatDies
  PROVE  ChatInv'
<1> DEFINE lost == Cardinality({c \in Chat : talk[c].pc = "searching"})
<1>1. /\ tally' = [tally EXCEPT !.deaths = @ + 1, !.lost = @ + lost]
      /\ talk' = [c \in Chat |-> NoTalk] /\ approver' = NoApprover
      /\ UNCHANGED <<installed, thread, kept, asked, granted, deals, meters>>
  BY DEF ChatDies
<1>2. /\ ChatTyped /\ ViewsFit /\ SearchesFit /\ ReadsFit /\ PlacesFit
      /\ spent \in Nat /\ granted.extra \in Nat /\ thread.calls \in Nat /\ tally.lost \in Nat /\ tally \in TallyType
  BY DEF ChatInv, ChatTyped, ThreadType, TallyType
<1>3. UNCHANGED <<chatSetup, planKeys, bought, spent, shown, expired, crossed, granted, proposed>>
  BY <1>1 DEF installed, deals, meters
<1>4. lost \in Nat
  <2>1. IsFiniteSet({c \in Chat : talk[c].pc = "searching"})
    BY ChatAssumption, FS_Subset
  <2> QED BY <2>1, FS_CardinalityType
<1>5. ~crossed => lost = IF \E c \in Chat : Searching(c) THEN 1 ELSE 0
  <2>1. SUFFICES ASSUME ~crossed
                 PROVE  lost = IF \E c \in Chat : Searching(c) THEN 1 ELSE 0
    OBVIOUS
  <2>2. CASE \E c \in Chat : Searching(c)
    <3>1. PICK c \in Chat : Searching(c)
      BY <2>2
    <3>4. \A d \in Chat : Searching(d) => d = c
      BY <1>2, <2>1, <3>1 DEF SearchesFit
    <3>2. {d \in Chat : talk[d].pc = "searching"} = {c}
      BY <3>1, <3>4 DEF Searching
    <3>3. Cardinality({c}) = 1
      BY FS_Singleton
    <3> QED BY <2>2, <3>2, <3>3
  <2>3. CASE ~\E c \in Chat : Searching(c)
    <3>1. {d \in Chat : talk[d].pc = "searching"} = {}
      BY <2>3 DEF Searching
    <3> QED BY <2>3, <3>1, FS_EmptySet
  <2> QED BY <2>2, <2>3
<1> HIDE DEF lost
<1>6. tally' \in TallyType /\ tally'.lost = tally.lost + lost
  <2> DEFINE d == tally.deaths + 1
             l == tally.lost + lost
  <2>1. d \in Nat /\ l \in Nat
    BY <1>2, <1>4 DEF TallyType
  <2>2. tally' = [tally EXCEPT !.deaths = d, !.lost = l]
    BY <1>1
  <2>3. tally' \in TallyType /\ tally'.lost = l
    <3> HIDE DEF d, l
    <3> QED BY <1>2, <2>1, <2>2 DEF TallyType
  <2> QED BY <2>3
<1>7. talk' \in [Chat -> TalkType] /\ \A c \in Chat : talk'[c].pc = "idle" /\ talk'[c].view = NewThread
  BY <1>1, NoTalkType
<1>8. ChatTyped'
  BY <1>1, <1>2, <1>6, <1>7 DEF ChatTyped, installed, deals, meters
<1>9. ViewsFit'
  <2>1. NewThread.calls = 0 /\ NewThread.extra = 0 /\ approver' = -1
    BY <1>1 DEF NewThread, NoApprover
  <2>2. ViewFits(thread)'
    BY <1>1, <1>2, <1>3 DEF ViewsFit, ViewFits
  <2>3. ASSUME NEW c \in Chat
        PROVE  (ViewFits(talk[c].view) /\ (Searching(c) => talk[c].view.calls + 1 <= spent))'
    BY <1>2, <1>3, <1>7, <2>1 DEF ViewFits, Searching
  <2>4. approver' <= granted'.extra
    BY <1>2, <1>3, <2>1
  <2> QED BY <2>2, <2>3, <2>4 DEF ViewsFit
<1>10. SearchesFit'
  <2>1. SUFFICES ASSUME ~crossed'
                 PROVE  SearchesFit'
    BY DEF SearchesFit
  <2>2. /\ thread.calls + thread.extra <= Allowed
        /\ spent = thread.calls + tally.lost + lost
    BY <1>2, <1>3, <1>5, <2>1 DEF SearchesFit
  <2>3. \A c \in Chat : ~Searching(c)'
    BY <1>7 DEF Searching
  <2>4. spent' = thread'.calls + tally'.lost + 0 /\ Allowed' = Allowed /\ thread' = thread
    BY <1>1, <1>2, <1>3, <1>4, <1>6, <2>2 DEF Allowed
  <2> QED BY <2>2, <2>3, <2>4 DEF SearchesFit
<1>11. ReadsFit'
  BY <1>1, <1>2, <1>3, <1>7 DEF ReadsFit
<1>12. PlacesFit'
  BY <1>2, <1>3, <1>7 DEF PlacesFit, Placing
<1> QED BY <1>8, <1>9, <1>10, <1>11, <1>12 DEF ChatInv

LEMMA ChatNextKeeps ==
  ASSUME ChatInv, [ChatNext]_chatVars
  PROVE  ChatInv'
<1>1. tally \in TallyType /\ trading \in BOOLEAN /\ ChatTyped
  BY DEF ChatInv, ChatTyped
<1>2. CASE UNCHANGED chatVars
  BY <1>1, <1>2, AsideKeeps DEF chatVars, deals, consents, meters
<1>3. CASE FlipTrading
  BY <1>1, <1>3, AsideKeeps, TallyFields DEF FlipTrading
<1>4. CASE \E q \in Query : CacheExpires(q)
  BY <1>1, <1>4, AsideKeeps DEF CacheExpires, installed
<1>5. ASSUME NEW c \in Chat,
             \/ \E m \in Message : Ask(c, m) \/ TalkResume(c, m)
             \/ Finish(c) \/ CallRead(c) \/ ProposePlan(c)
             \/ \E q \in Query : CallSearch(c, q)
             \/ \E p \in 1..MaxPlans, ok \in BOOLEAN : ExecutePlan(c, p, ok)
             \/ \E ok \in BOOLEAN : SendSearch(c, ok) \/ SearchAnswers(c, ok) \/ ReadAnswers(c, ok) \/ PlaceAnswers(c, ok)
      PROVE  ChatInv'
  BY <1>5, StartKeeps, FinishKeeps, CallReadKeeps, ProposeKeeps, CallSearchKeeps, ExecutePlanKeeps,
     SendSearchKeeps, SearchAnswersKeeps, ReadAnswersKeeps, PlaceAnswersKeeps
<1> QED BY <1>2, <1>3, <1>4, <1>5, ApproveReadKeeps, ApproveSearchesKeeps, ApproveDetailKeeps, ChatDiesKeeps
        DEF ChatNext

LEMMA ChatInvAlways == ChatSpec => []ChatInv
<1>1. ChatInit => ChatInv
  BY ChatInitHolds
<1>2. ChatInv /\ [ChatNext]_chatVars => ChatInv'
  BY ChatNextKeeps
<1> QED BY <1>1, <1>2, PTL DEF ChatSpec

\* The thread of the assistant, its requests and its counters keep their types, and
\* the thread is never ahead of what was spent and granted.
THEOREM ChatTypes == ChatSpec => []ChatTypeOK
<1>1. ChatInv => ChatTypeOK
  <2>1. ASSUME ChatInv
        PROVE  thread.calls \in 0..spent /\ thread.extra \in 0..granted.extra
    BY <2>1 DEF ChatInv, ChatTyped, ThreadType, ViewsFit, ViewFits
  <2>2. ASSUME ChatInv, NEW c \in Chat
        PROVE  talk[c].pc \in {"idle", "turn", "send", "searching", "reading", "placing"}
    BY <2>2 DEF ChatInv, ChatTyped, TalkType, TalkStep
  <2> QED BY <2>1, <2>2 DEF ChatInv, ChatTyped, ChatTypeOK
<1> QED BY <1>1, ChatInvAlways, PTL

\* As long as no run and no approval writes over a state of the thread it has not
\* seen, the assistant searches within its limit and what the user added, reads the
\* portfolio once per `allow once', and places a plan once, under a message that
\* asked for it: for every number of requests, messages, plans and approvals.
THEOREM ChatIsGranted == ChatSpec => []ChatKeepsToGrants
<1>1. ChatInv => BudgetHolds
  <2> SUFFICES ASSUME ChatInv, ~crossed
               PROVE  spent <= chatSetup.limit + granted.extra + tally.lost + expired
    BY DEF BudgetHolds
  <2>1. /\ thread.calls + thread.extra <= Allowed
        /\ (\E c \in Chat : Searching(c)) => thread.calls + 1 <= Allowed
        /\ spent = thread.calls + tally.lost + (IF \E c \in Chat : Searching(c) THEN 1 ELSE 0)
    BY DEF ChatInv, SearchesFit
  <2>2. /\ chatSetup.limit \in Nat /\ granted.extra \in Nat /\ expired \in Nat /\ tally.lost \in Nat
        /\ thread.calls \in Nat /\ thread.extra \in Nat
    BY SetupFields DEF ChatInv, ChatTyped, ThreadType, TallyType
  <2> QED BY <2>1, <2>2 DEF Allowed
<1>2. ChatInv => ReadsAreGranted
  <2> SUFFICES ASSUME ChatInv, ~crossed
               PROVE  shown <= granted.once
    BY DEF ReadsAreGranted
  <2>1. shown + (IF thread.once THEN 1 ELSE 0) <= granted.once /\ shown \in Nat /\ granted.once \in Nat
    BY DEF ChatInv, ChatTyped, ReadsFit
  <2> QED BY <2>1
<1>3. ChatInv => PlansPlacedOnce
  BY DEF ChatInv, PlacesFit, PlansPlacedOnce
<1>4. ChatInv => ChatKeepsToGrants
  BY <1>1, <1>2, <1>3 DEF ChatKeepsToGrants
<1> QED BY <1>4, ChatInvAlways, PTL

=============================================================================
