----------------------------- MODULE MCAutomation -----------------------------
(* The automations around the order queue that act on their own, each on a    *)
(* small instance.  They meet only through the orders that they create, which *)
(* every module has in its own form: a behaviour is one of exactly one        *)
(* automation, `part', and the variables of the others keep one initial value.*)
EXTENDS FillAccounting, HoldingsExit, AiExecution, AlertSweep, WebhookIntake,
        AssistantChat

VARIABLE part

userVars == <<hexVars, aiVars, alertVars, intakeVars, chatVars>>
allVars == <<part, fillVars, userVars>>

\* An automation that is not part of the behaviour has one initial state.
AutomationInit ==
  /\ part \in {"fills", "holdings", "ai", "alerts", "webhook", "chat"}
  /\ part # "fills" => order = LET gone == CHOOSE g \in Over : TRUE
                              IN  [o \in Order |-> IF o \in gone THEN "CANCELLED" ELSE Fresh[o]]
  /\ part # "ai" => book = CHOOSE b \in [Playbook -> {x \in Playbooks : x.by = 0 /\ x.next = 1}] : TRUE
  /\ part # "alerts" => rule = CHOOSE r \in [Alert -> AlertTypes] : TRUE
  /\ part # "chat" => chatSetup = CHOOSE x \in ChatSetups : TRUE
  /\ FillInit /\ HexInit /\ AiInit /\ AlertInit /\ IntakeInit /\ ChatInit

AutomationNext ==
  /\ part' = part
  /\ \/ part = "fills" /\ FillNext /\ UNCHANGED userVars
     \/ part = "holdings" /\ HexNext /\ UNCHANGED <<fillVars, aiVars, alertVars, intakeVars, chatVars>>
     \/ part = "ai" /\ AiNext /\ UNCHANGED <<fillVars, hexVars, alertVars, intakeVars, chatVars>>
     \/ part = "alerts" /\ AlertNext /\ UNCHANGED <<fillVars, hexVars, aiVars, intakeVars, chatVars>>
     \/ part = "webhook" /\ IntakeNext /\ UNCHANGED <<fillVars, hexVars, aiVars, alertVars, chatVars>>
     \/ part = "chat" /\ ChatNext /\ UNCHANGED <<fillVars, hexVars, aiVars, alertVars, intakeVars>>

\* The fairness of the syncs, of the postback handlers and of the holdings loop,
\* in the behaviours that have them.
AutomationFairness ==
  /\ \A t \in Sync : WF_fillVars(part = "fills" /\ SyncStep(t))
  /\ \A t \in Post : WF_fillVars(part = "fills" /\ PostStep(t))
  /\ WF_hexVars(part = "holdings" /\ HexLoop)

AutomationSpec == AutomationInit /\ [][AutomationNext]_allVars /\ AutomationFairness

\* The state of every automation keeps its type.
AutomationTypeOK ==
  /\ part = "fills" => FillTypeOK
  /\ part = "holdings" => HexTypeOK
  /\ part = "ai" => AiTypeOK
  /\ part = "alerts" => AlertTypeOK
  /\ part = "webhook" => IntakeTypeOK
  /\ part = "chat" => ChatTypeOK

-----------------------------------------------------------------------------
(* The instances *)

\* The last subscription has no user.
MCOwner == [s \in Sub |-> IF s = "s2" THEN NoUser ELSE "u1"]
MCTerms == {[pct |-> TRUE, value |-> 50, min |-> 1], [pct |-> FALSE, value |-> 3, min |-> 1]}

MCTradeplans == {{"x", "y"}, {"x"}}

MCAlertTypes ==
  {[mode |-> "ONCE", action |-> "manual", throttle |-> 0, cadence |-> 1, barred |-> TRUE],
   [mode |-> "ONCE_PER_BAR", action |-> "auto", throttle |-> 0, cadence |-> 1, barred |-> TRUE],
   [mode |-> "ONCE_PER_BAR", action |-> "none", throttle |-> 2, cadence |-> 1, barred |-> FALSE],
   [mode |-> "EVERY_TIME", action |-> "auto", throttle |-> 2, cadence |-> 1, barred |-> TRUE]}

MCSetups == {[auto |-> FALSE, legacy |-> FALSE, fallback |-> TRUE],
             [auto |-> TRUE, legacy |-> FALSE, fallback |-> TRUE],
             [auto |-> TRUE, legacy |-> FALSE, fallback |-> FALSE],
             [auto |-> TRUE, legacy |-> TRUE, fallback |-> TRUE]}

\* A local model; a remote one at each level of detail.
MCChatSetups == {[remote |-> FALSE, detail |-> "DIGEST_ONLY", limit |-> 0, explicit |-> {}],
                 [remote |-> TRUE, detail |-> "OFF", limit |-> 0, explicit |-> {"m1"}],
                 [remote |-> TRUE, detail |-> "DIGEST_ONLY", limit |-> 0, explicit |-> {"m1"}],
                 [remote |-> TRUE, detail |-> "FULL_SANITIZED", limit |-> 1, explicit |-> {"m1"}]}
=============================================================================
