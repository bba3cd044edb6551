---------------------------- MODULE PolicyReview ----------------------------
(***************************************************************************)
(* The policy gate is asked twice about an action: by the planner that     *)
(* queues it and by the executor that carries it out, which may be days    *)
(* later, after the program config was edited.  The queue keeps neither    *)
(* the capability nor the flags of the action: the executor asks about     *)
(* what it can recover from the adapter registry.  The steps of the queue  *)
(* and its races are in ActionExecution; here a command is one step.       *)
(***************************************************************************)
EXTENDS PolicyGate

CONSTANTS Forms,  \* what the planners plan
          NoForm

(***************************************************************************)
(* A form is an action as its planner describes it, the same action as the *)
(* executor recovers it, and the modes the registry allows it in.          *)
(*   gate         planAllowedAction, planWorkflowAction                    *)
(*   playbook     the actions of a hunt; an adapter nobody registered      *)
(*   integration  validateCallPlan, which knows the registry               *)
(*   tool         validateRunPlan (ToolPlan); no adapter of the registry   *)
(* When a tool is run its plan is validated once more: as long as the      *)
(* rules let the executor go on, that finds nothing new.                   *)
(***************************************************************************)
Planners == {"gate", "playbook", "integration", "tool"}

\* Those whose description the executor does not recover.
Unregistered == {"playbook", "tool"}

Bare(a) == [a EXCEPT !.capability = NoCapability, !.byDefault = FALSE,
                     !.stateChanging = FALSE, !.destructive = FALSE]

ASSUME FormsAssumption ==
    /\ NoForm \notin Forms
    /\ NoCapability \in Capabilities
    /\ \A f \in Forms :
          /\ f.planner \in Planners
          /\ f.planned \in PolicyActions
          /\ f.recovered \in PolicyActions
          /\ f.modes \subseteq Modes
          /\ \/ f.recovered = f.planned
             \/ /\ f.planner \in Unregistered
                /\ f.recovered = Bare(f.planned)
                /\ ~f.planned.stateChanging /\ ~f.planned.destructive
                /\ f.planned.capability \in {NoCapability, Exploit}

VARIABLES
    rules,            \* the rules of the program config
    form,             \* the action in the queue
    status,           \* its row: the status and
    requiresApproval, \* the requires_approval column
    consent,          \* a human approved it; for the properties only, as are
    planRules,        \* the rules it was planned under, and
    answer            \* what the last `actions execute` came to

vars == <<rules, form, status, requiresApproval, consent, planRules, answer>>

Statuses == {"absent", "pending", "approved", "blocked", "executed", "failed"}
Answers  == {"none", "executed", "failed", "blocked", "refused"}

Init == /\ rules \in ProgramRules
        /\ form = NoForm
        /\ status = "absent"
        /\ requiresApproval = FALSE
        /\ consent = FALSE
        /\ planRules = rules
        /\ answer = "none"

PlannerDecides(r, f) ==
    IF f.planner \in {"integration", "tool"} /\ (f.planned.mode \notin f.modes \/ f.planned.destructive)
    THEN "block"
    ELSE Evaluate(r, f.planned)

AsksHuman(r, f) ==
    \/ PlannerDecides(r, f) = "require_approval"
    \/ f.planner \in Unregistered /\ f.planned.byDefault

\* Mutant: the row of a blocked action is never written.
EnqueueUnblocked(f) ==
    /\ form' = f
    /\ requiresApproval' = AsksHuman(rules, f)
    /\ status' = IF PlannerDecides(rules, f) = "block" THEN "absent"
                 ELSE IF AsksHuman(rules, f) THEN "pending"
                 ELSE "approved"

Enqueue(f) ==
    /\ form' = f
    /\ requiresApproval' = AsksHuman(rules, f)
    /\ status' = IF PlannerDecides(rules, f) = "block" THEN "blocked"
                 ELSE IF AsksHuman(rules, f) THEN "pending"
                 ELSE "approved"

Plan == /\ form = NoForm
        /\ \E f \in Forms : Enqueue(f)
        /\ planRules' = rules
        /\ UNCHANGED <<rules, consent, answer>>

\* `actions approve`.
Approve == /\ status = "pending"
           /\ status' = "approved"
           /\ consent' = TRUE
           /\ UNCHANGED <<rules, form, requiresApproval, planRules, answer>>

\* `actions block`.
Block == /\ status \in {"pending", "approved"}
         /\ status' = "blocked"
         /\ UNCHANGED <<rules, form, requiresApproval, consent, planRules, answer>>

\* The operator edits the program config; the next command reads it.
EditRules == /\ rules' \in ProgramRules \ {rules}
             /\ UNCHANGED <<form, status, requiresApproval, consent, planRules, answer>>

ExecutorDecides == Evaluate(rules, form.recovered)

\* The action stays approved: it is neither settled nor asked about again.
Refused == ExecutorDecides = "require_approval" /\ ~requiresApproval

\* Mutants: the executor trusts the plan; or asks nobody what the plan asked.
ExecuteAsPlanned ==
    /\ status = "approved"
    /\ status' \in {"executed", "failed"} /\ answer' = status'
    /\ UNCHANGED <<rules, form, requiresApproval, consent, planRules>>

ExecuteOnceAllowed ==
    /\ status = "approved"
    /\ \/ ExecutorDecides = "block"
          /\ status' = "blocked" /\ answer' = "blocked"
       \/ ExecutorDecides = "require_approval"
          /\ status' = status /\ answer' = "refused"
       \/ ExecutorDecides = "allow"
          /\ status' \in {"executed", "failed"} /\ answer' = status'
    /\ UNCHANGED <<rules, form, requiresApproval, consent, planRules>>

Execute ==
    /\ status = "approved"
    /\ \/ /\ ExecutorDecides = "block"
          /\ status' = "blocked" /\ answer' = "blocked"
       \/ /\ Refused
          /\ status' = status /\ answer' = "refused"
       \/ /\ ExecutorDecides # "block" /\ ~Refused
          /\ status' \in {"executed", "failed"} /\ answer' = status'
    /\ UNCHANGED <<rules, form, requiresApproval, consent, planRules>>

Next == Plan \/ Approve \/ Block \/ EditRules \/ Execute

Spec == Init /\ [][Next]_vars

---------------------------------------------------------------------------

\* The row, what is known of it and the rules keep their types.
TypeOK == /\ rules \in ProgramRules /\ planRules \in ProgramRules
          /\ form \in Forms \cup {NoForm}
          /\ status \in Statuses
          /\ requiresApproval \in BOOLEAN /\ consent \in BOOLEAN
          /\ answer \in Answers
          /\ form = NoForm <=> status = "absent"

\* What the rules in force when an action is carried out say of it, described
\* in full, is respected: it is not blocked, and where they want a human, a
\* human approved it.  The executor only recovers part of the description and
\* the config may have been edited since the plan (ActionExecutor.execute).
RulesOfTheDay ==
    [][status = "approved" /\ status' \in {"executed", "failed"} =>
          /\ Evaluate(rules, form.planned) # "block"
          /\ Evaluate(rules, form.planned) = "require_approval" => consent]_vars

\* An approved action is refused for want of an approval only if the rules are
\* not the ones it was planned under: planner and executor agree on who is
\* asked, although they describe the action differently (ActionExecutor.execute
\* against the planners).
RefusedAfterEdit == [][answer' = "refused" /\ answer # "refused" => rules # planRules]_vars

\* Whoever makes the rules stricter while an action waits never gets a milder
\* answer about it: the first rule that applies decides, and an early rule that
\* only asks for approval never hides a later one that blocks
\* (PolicyGate.evaluate).
TighteningIsFelt ==
    [][form # NoForm /\ Tightens(rules, rules') =>
          /\ Severity[Evaluate(rules, form.planned)] =< Severity[Evaluate(rules', form.planned)]
          /\ Severity[Evaluate(rules, form.recovered)] =< Severity[Evaluate(rules', form.recovered)]]_rules
=============================================================================
