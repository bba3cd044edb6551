------------------------- MODULE PolicyReview_proof -------------------------
(***************************************************************************)
(* Planner and executor agree on who is asked, for all forms a planner may *)
(* plan (FormsAssumption) and all edits of the rules in between.  The      *)
(* invariant relates the row of an action to the rules it was planned      *)
(* under: the row is all that is left of the full description.             *)
(***************************************************************************)
EXTENDS MCPolicyReview, TLAPS

-----------------------------------------------------------------------------
(***************************************************************************)
(* The order of the rules of the policy gate never hides a stricter rule,  *)
(* for any names of actions and capabilities.                              *)
(***************************************************************************)
LEMMA ForbiddenGrows ==
    ASSUME NEW q \in ProgramRules, NEW r \in ProgramRules,
           NEW a \in PolicyActions, NEW b \in PolicyActions,
           Tightens(q, r), Worsens(a, b), Forbidden(q, a)
    PROVE  Forbidden(r, b)
  BY DEF ProgramRules, PolicyActions, Tightens, Worsens, Forbidden, Named, OutOfLab

LEMMA ReviewGrows ==
    ASSUME NEW q \in ProgramRules, NEW r \in ProgramRules,
           NEW a \in PolicyActions, NEW b \in PolicyActions,
           Tightens(q, r), Worsens(a, b), NeedsReview(q, a)
    PROVE  NeedsReview(r, b)
  <1>1. a.risk \in 0 .. 3 /\ b.risk \in 0 .. 3 /\ a.risk =< b.risk
    BY DEF PolicyActions, Worsens, Unset, High
  <1> QED
    BY <1>1 DEF ProgramRules, PolicyActions, Tightens, Worsens, NeedsReview, Risky, Medium, High

\* Stricter rules or a more dangerous description of an action never lead
\* PolicyGate.evaluate to a milder decision.
THEOREM StricterIsNeverMilder ==
    ASSUME NEW q \in ProgramRules, NEW r \in ProgramRules,
           NEW a \in PolicyActions, NEW b \in PolicyActions,
           Tightens(q, r), Worsens(a, b)
    PROVE  Severity[Evaluate(q, a)] =< Severity[Evaluate(r, b)]
  <1>1. Forbidden(q, a) => Forbidden(r, b)
    BY ForbiddenGrows
  <1>2. NeedsReview(q, a) => NeedsReview(r, b)
    BY ReviewGrows
  <1>3. Exploits(a) <=> Exploits(b)
    BY DEF Exploits, Worsens
  <1>4. OutOfMode(a) => OutOfMode(b)
    BY DEF OutOfMode, Worsens
  <1> QED
    BY <1>1, <1>2, <1>3, <1>4 DEF Evaluate, Severity

-----------------------------------------------------------------------------
(***************************************************************************)
(* The planner, the row and the executor.                                  *)
(***************************************************************************)

\* The row holds what the planner decided under the rules of that moment.
RowIsPlan ==
    form # NoForm =>
        /\ requiresApproval = AsksHuman(planRules, form)
        /\ status \in {"pending", "approved"} => PlannerDecides(planRules, form) # "block"

\* Nothing that asks for a human becomes approved without one.
ApprovedByHuman ==
    /\ status = "pending" => requiresApproval
    /\ status = "approved" /\ requiresApproval => consent

Inv == TypeOK /\ RowIsPlan /\ ApprovedByHuman

LEMMA Decisions ==
    ASSUME NEW r, NEW a
    PROVE  Evaluate(r, a) \in {"allow", "require_approval", "block"}
  BY DEF Evaluate

LEMMA InitInv == Init => Inv
  BY FormsAssumption DEF Init, Inv, TypeOK, RowIsPlan, ApprovedByHuman, Statuses, Answers

LEMMA AsksIsBoolean == ASSUME NEW r, NEW f PROVE AsksHuman(r, f) \in BOOLEAN
  BY DEF AsksHuman

LEMMA NextInv == Inv /\ [Next]_vars => Inv'
  <1> SUFFICES ASSUME Inv, [Next]_vars PROVE Inv'
    OBVIOUS
  <1> USE DEF Inv, TypeOK, Statuses, Answers
  <1>1. CASE Plan
    <2>1. PICK f \in Forms : Enqueue(f)
      BY <1>1 DEF Plan
    <2>2. form' = f /\ f # NoForm
      BY <2>1, FormsAssumption DEF Enqueue
    <2>3. status' \in {"blocked", "pending", "approved"}
      BY <2>1 DEF Enqueue
    <2>4. requiresApproval' = AsksHuman(rules, f) /\ AsksHuman(rules, f) \in BOOLEAN
      BY <2>1, AsksIsBoolean DEF Enqueue
    <2>5. planRules' = rules /\ UNCHANGED <<rules, consent, answer>>
      BY <1>1 DEF Plan
    <2>6. TypeOK'
      BY <2>2, <2>3, <2>4, <2>5
    <2>7. status' \in {"pending", "approved"} => PlannerDecides(rules, f) # "block"
      BY <2>1 DEF Enqueue
    <2>8. RowIsPlan'
      BY <2>2, <2>4, <2>5, <2>7 DEF RowIsPlan
    <2>9. ApprovedByHuman'
      BY <2>1, <2>4 DEF ApprovedByHuman, Enqueue
    <2> QED
      BY <2>6, <2>8, <2>9
  <1>2. CASE Approve
    <2>1. form # NoForm
      BY <1>2 DEF Approve
    <2> QED
      BY <1>2, <2>1 DEF Approve, RowIsPlan, ApprovedByHuman
  <1>3. CASE Block
    BY <1>3 DEF Block, RowIsPlan, ApprovedByHuman
  <1>4. CASE EditRules
    BY <1>4 DEF EditRules, RowIsPlan, ApprovedByHuman
  <1>5. CASE Execute
    <2>1. status = "approved" /\ UNCHANGED <<rules, form, requiresApproval, consent, planRules>>
      BY <1>5 DEF Execute
    <2>2. status' \in {"approved", "blocked", "executed", "failed"} /\ answer' \in Answers
      BY <1>5 DEF Execute
    <2> QED
      BY <2>1, <2>2 DEF RowIsPlan, ApprovedByHuman
  <1>6. CASE UNCHANGED vars
    BY <1>6 DEF vars, RowIsPlan, ApprovedByHuman
  <1> QED
    BY <1>1, <1>2, <1>3, <1>4, <1>5, <1>6 DEF Next

\* The invariant holds in every state of the review of an action.
THEOREM Invariant == Spec => []Inv
  BY InitInv, NextInv, PTL DEF Spec

\* The row, the rules and the form keep their types.
THEOREM ReviewTypes == Spec => []TypeOK
  <1>1. Inv => TypeOK
    BY DEF Inv
  <1> QED
    BY <1>1, Invariant, PTL

-----------------------------------------------------------------------------
\* What the executor cannot recover of a form.
LEMMA Recovery ==
    ASSUME NEW f \in Forms, f.recovered # f.planned
    PROVE  /\ f.planner \in Unregistered
           /\ f.recovered = Bare(f.planned)
           /\ ~f.planned.stateChanging /\ ~f.planned.destructive
           /\ f.planned.capability \in {NoCapability, Exploit}
           /\ f.planned \in PolicyActions
  BY FormsAssumption

LEMMA BareFields ==
    ASSUME NEW a \in PolicyActions
    PROVE  /\ Bare(a).mode = a.mode /\ Bare(a).actionType = a.actionType
           /\ Bare(a).target = a.target /\ Bare(a).risk = a.risk
           /\ Bare(a).capability = NoCapability
           /\ ~Bare(a).byDefault /\ ~Bare(a).stateChanging /\ ~Bare(a).destructive
  BY DEF Bare, PolicyActions

\* Where the executor may go on, the full description is not blocked either.
LEMMA NotBlockedInFull ==
    ASSUME NEW f \in Forms, NEW r \in ProgramRules, Evaluate(r, f.recovered) # "block"
    PROVE  Evaluate(r, f.planned) # "block"
  <1>1. CASE f.recovered = f.planned
    BY <1>1
  <1>2. CASE f.recovered # f.planned
    <2> DEFINE a == f.planned
    <2>1. /\ f.recovered = Bare(a) /\ ~a.stateChanging /\ ~a.destructive
          /\ a.capability \in {NoCapability, Exploit} /\ a \in PolicyActions
      BY <1>2, Recovery
    <2>2. /\ Bare(a).mode = a.mode /\ Bare(a).actionType = a.actionType
          /\ Bare(a).target = a.target /\ Bare(a).capability = NoCapability
      BY <2>1, BareFields
    <2>3. ~Forbidden(r, Bare(a)) /\ ~OutOfMode(Bare(a))
      BY <2>1, <2>2, NamesAssumption DEF Evaluate, Exploits
    <2>4. ~Forbidden(r, a)
      BY <2>1, <2>2, <2>3, NamesAssumption DEF Forbidden, Named, OutOfLab
    <2>5. ~OutOfMode(a)
      BY <2>1, <2>2, <2>3 DEF OutOfMode
    <2> QED
      BY <2>4, <2>5 DEF Evaluate
  <1> QED
    BY <1>1, <1>2

\* Whatever the full description wants a human for, either the description
\* the executor recovers wants one too or the planner asked for one.
LEMMA AskedInFull ==
    ASSUME NEW f \in Forms, NEW r \in ProgramRules, NEW q \in ProgramRules,
           Evaluate(r, f.planned) = "require_approval",
           Evaluate(r, f.recovered) # "block",
           PlannerDecides(q, f) # "block"
    PROVE  Evaluate(r, f.recovered) = "require_approval" \/ AsksHuman(q, f)
  <1>1. CASE f.recovered = f.planned
    BY <1>1
  <1>2. CASE f.recovered # f.planned
    <2> DEFINE a == f.planned
    <2>1. /\ f.planner \in Unregistered /\ f.recovered = Bare(a)
          /\ ~a.stateChanging /\ a \in PolicyActions
      BY <1>2, Recovery
    <2>2. /\ Bare(a).mode = a.mode /\ Bare(a).risk = a.risk
      BY <2>1, BareFields
    <2>3. PlannerDecides(q, f) = Evaluate(q, a)
      BY <2>1 DEF PlannerDecides
    <2>4. CASE Exploits(a)
      <3>1. Evaluate(q, a) = "require_approval"
        BY <2>3, <2>4 DEF Evaluate
      <3> QED
        BY <2>3, <3>1 DEF AsksHuman
    <2>5. CASE a.byDefault
      BY <2>1, <2>5 DEF AsksHuman
    <2>6. CASE ~Exploits(a) /\ ~a.byDefault
      <3>1. NeedsReview(r, a)
        BY <2>6 DEF Evaluate
      <3>2. NeedsReview(r, Bare(a))
        BY <2>1, <2>2, <2>6, <3>1 DEF NeedsReview, Risky
      <3> QED
        BY <2>1, <3>2 DEF Evaluate
    <2> QED
      BY <2>4, <2>5, <2>6
  <1> QED
    BY <1>1, <1>2

\* What is carried out is not blocked by the rules of that moment and has the
\* approval they ask for, although the executor does not see all of it.
THEOREM CarriedOutByTheRules == Spec => RulesOfTheDay
  <1> DEFINE Respects ==
        status = "approved" /\ status' \in {"executed", "failed"} =>
          /\ Evaluate(rules, form.planned) # "block"
          /\ Evaluate(rules, form.planned) = "require_approval" => consent
  <1>1. Inv /\ [Next]_vars => [Respects]_vars
    <2> SUFFICES ASSUME Inv, Next, status = "approved", status' \in {"executed", "failed"}
                 PROVE  /\ Evaluate(rules, form.planned) # "block"
                        /\ Evaluate(rules, form.planned) = "require_approval" => consent
      BY DEF vars
    <2>1. Execute
      BY DEF Next, Plan, Enqueue, Approve, Block, EditRules, Inv, TypeOK
    <2>2. /\ form \in Forms /\ form # NoForm
          /\ rules \in ProgramRules /\ planRules \in ProgramRules
      BY DEF Inv, TypeOK
    <2>3. ExecutorDecides # "block" /\ ~Refused
      BY <2>1 DEF Execute
    <2>4. Evaluate(rules, form.recovered) # "block"
      BY <2>3 DEF ExecutorDecides
    <2>5. Evaluate(rules, form.recovered) = "require_approval" => requiresApproval
      BY <2>3 DEF Refused, ExecutorDecides
    <2>6. Evaluate(rules, form.planned) # "block"
      BY <2>2, <2>4, NotBlockedInFull
    <2>7. ASSUME Evaluate(rules, form.planned) = "require_approval" PROVE requiresApproval
      <3>1. PlannerDecides(planRules, form) # "block" /\ requiresApproval = AsksHuman(planRules, form)
        BY <2>2 DEF Inv, RowIsPlan
      <3>2. Evaluate(rules, form.recovered) = "require_approval" \/ AsksHuman(planRules, form)
        BY <2>2, <2>4, <2>7, <3>1, AskedInFull
      <3> QED
        BY <2>5, <3>1, <3>2
    <2> QED
      BY <2>6, <2>7 DEF Inv, ApprovedByHuman
  <1> QED
    BY <1>1, Invariant, PTL DEF Spec, RulesOfTheDay

\* Where the planner is content, the executor is under the same rules.
LEMMA SameRulesSameAnswer ==
    ASSUME NEW f \in Forms, NEW r \in ProgramRules,
           PlannerDecides(r, f) # "block", ~AsksHuman(r, f)
    PROVE  Evaluate(r, f.recovered) # "require_approval"
  <1>1. CASE f.recovered = f.planned
    BY <1>1 DEF AsksHuman, PlannerDecides
  <1>2. CASE f.recovered # f.planned
    <2> DEFINE a == f.planned
    <2>1. /\ f.planner \in Unregistered /\ f.recovered = Bare(a)
          /\ ~a.stateChanging /\ a \in PolicyActions
      BY <1>2, Recovery
    <2>2. /\ Bare(a).mode = a.mode /\ Bare(a).risk = a.risk
          /\ Bare(a).capability = NoCapability
          /\ ~Bare(a).byDefault /\ ~Bare(a).stateChanging
      BY <2>1, BareFields
    <2>3. Evaluate(r, a) # "block" /\ Evaluate(r, a) # "require_approval" /\ ~a.byDefault
      BY <2>1 DEF PlannerDecides, AsksHuman
    <2>4. ~NeedsReview(r, a)
      BY <2>3 DEF Evaluate
    <2>5. ~NeedsReview(r, Bare(a))
      BY <2>1, <2>2, <2>3, <2>4 DEF NeedsReview, Risky
    <2>6. ~Exploits(Bare(a))
      BY <2>2, NamesAssumption DEF Exploits
    <2> QED
      BY <2>1, <2>5, <2>6 DEF Evaluate
  <1> QED
    BY <1>1, <1>2

\* The executor refuses an approved action for want of an approval only when
\* the config was edited after the plan.
THEOREM PlannerAndExecutorAgree == Spec => RefusedAfterEdit
  <1>1. Inv /\ [Next]_vars
           => [answer' = "refused" /\ answer # "refused" => rules # planRules]_vars
    <2> SUFFICES ASSUME Inv, Next, answer' = "refused", answer # "refused"
                 PROVE  rules # planRules
      BY DEF vars
    <2>1. Execute
      BY DEF Next, Plan, Approve, Block, EditRules
    <2>2. status = "approved" /\ Refused
      BY <2>1 DEF Execute
    <2>3. form \in Forms /\ form # NoForm /\ rules \in ProgramRules
      BY <2>2 DEF Inv, TypeOK
    <2>4. PlannerDecides(planRules, form) # "block" /\ ~AsksHuman(planRules, form)
      BY <2>2, <2>3 DEF Inv, RowIsPlan, Refused
    <2>5. Evaluate(rules, form.recovered) = "require_approval"
      BY <2>2 DEF Refused, ExecutorDecides
    <2> QED
      BY <2>3, <2>4, <2>5, SameRulesSameAnswer
  <1> QED
    BY <1>1, Invariant, PTL DEF Spec, RefusedAfterEdit

\* Whoever makes the rules stricter never gets a milder answer about the
\* action that waits in the queue, whatever the planners plan.
THEOREM TighteningHolds == Spec => TighteningIsFelt
  <1>1. Inv /\ [Next]_vars =>
          [form # NoForm /\ Tightens(rules, rules') =>
             /\ Severity[Evaluate(rules, form.planned)] =< Severity[Evaluate(rules', form.planned)]
             /\ Severity[Evaluate(rules, form.recovered)] =< Severity[Evaluate(rules', form.recovered)]]_rules
    <2> SUFFICES ASSUME Inv, [Next]_vars, form # NoForm, Tightens(rules, rules')
                 PROVE  /\ Severity[Evaluate(rules, form.planned)] =< Severity[Evaluate(rules', form.planned)]
                        /\ Severity[Evaluate(rules, form.recovered)] =< Severity[Evaluate(rules', form.recovered)]
      OBVIOUS
    <2>1. rules \in ProgramRules /\ rules' \in ProgramRules /\ form \in Forms
      BY NextInv DEF Inv, TypeOK
    <2>2. form.planned \in PolicyActions /\ form.recovered \in PolicyActions
      BY <2>1, FormsAssumption
    <2>3. ASSUME NEW a \in PolicyActions PROVE Worsens(a, a)
      BY DEF Worsens, PolicyActions, Unset, High
    <2> QED
      BY <2>1, <2>2, <2>3, StricterIsNeverMilder
  <1> QED
    BY <1>1, Invariant, PTL DEF Spec, TighteningIsFelt

-----------------------------------------------------------------------------
(***************************************************************************)
(* The requests, in the instance where either they move or the actions.    *)
(***************************************************************************)
FetchProof == INSTANCE ScopedFetch_proof WITH rules <- scope

LEMMA FetchBounds == FetchProof!Bounds /\ Open \in Rules
<1>1. Fetch!Blank = FetchProof!Blank
  BY Zenon DEF Fetch!Blank, FetchProof!Blank
<1>2. /\ \A u : Fetch!IsUrl(u) <=> FetchProof!IsUrl(u)
      /\ \A q : Fetch!IsPattern(q) <=> FetchProof!IsPattern(q)
  BY <1>1 DEF Fetch!IsUrl, FetchProof!IsUrl, Fetch!IsPattern, FetchProof!IsPattern
<1>3. Fetch!Bounds /\ Open \in Rules
  BY RequestsAssumption
<1>4. /\ FetchProof!Blank \in Segments
      /\ \A s \in Segments : Lower(s) \in Segments
  BY <1>1, <1>3 DEF Fetch!Bounds
<1>5. /\ \A u \in URLs : FetchProof!IsUrl(u)
      /\ \A r \in Rules : \A q \in r.in \cup r.out : FetchProof!IsPattern(q)
  BY <1>2, <1>3 DEF Fetch!Bounds
<1>6. Fetch!IsFiniteSet(Procs) => FetchProof!IsFiniteSet(Procs)
  BY Zenon DEF Fetch!IsFiniteSet, FetchProof!IsFiniteSet
<1>7. /\ Fetch!IsFiniteSet(Procs)
      /\ MaxRedirects \in Nat /\ Interval \in Nat /\ MaxTime \in Nat
  BY <1>3 DEF Fetch!Bounds
<1> QED
  BY <1>3, <1>4, <1>5, <1>6, <1>7 DEF FetchProof!Bounds

\* What the guard and the tasks say is the same in both.
LEMMA SameGuard ==
    /\ \A r, u : Fetch!Allowed(r, u) <=> FetchProof!Allowed(r, u)
    /\ \A u : Fetch!May(u) <=> FetchProof!May(u)
    /\ Fetch!Hosts = FetchProof!Hosts
<1>1. \A s, t : /\ Fetch!IsPrefix(s, t) <=> FetchProof!IsPrefix(s, t)
                /\ Fetch!IsStrictPrefix(s, t) <=> FetchProof!IsStrictPrefix(s, t)
  BY DEF Fetch!IsPrefix, FetchProof!IsPrefix, Fetch!IsStrictPrefix, FetchProof!IsStrictPrefix
<1>2. \A q, h : Fetch!HostMatches(q, h) <=> FetchProof!HostMatches(q, h)
  BY <1>1 DEF Fetch!HostMatches, FetchProof!HostMatches
<1>3. \A s, t : Fetch!PathMatches(s, t) <=> FetchProof!PathMatches(s, t)
  BY <1>1 DEF Fetch!PathMatches, FetchProof!PathMatches, Fetch!Last, FetchProof!Last, Fetch!Front,
         FetchProof!Front, Fetch!Blank, FetchProof!Blank
<1>4. \A q : Fetch!Parsed(q) = FetchProof!Parsed(q)
  BY DEF Fetch!Parsed, FetchProof!Parsed, Fetch!Blank, FetchProof!Blank
<1>5. \A q, u : Fetch!Matches(q, u) <=> FetchProof!Matches(q, u)
  BY <1>2, <1>3, <1>4 DEF Fetch!Matches, FetchProof!Matches
<1>6. \A r, u : Fetch!Allowed(r, u) <=> FetchProof!Allowed(r, u)
  BY <1>5 DEF Fetch!Allowed, FetchProof!Allowed
<1>7. \A u : Fetch!May(u) <=> FetchProof!May(u)
  BY <1>6 DEF Fetch!May, FetchProof!May
<1> QED
  BY <1>6, <1>7 DEF Fetch!Hosts, FetchProof!Hosts

LEMMA SameTasks ==
    \A u : /\ Fetch!Tasks(u) = FetchProof!Tasks(u) /\ Fetch!Checks(u) = FetchProof!Checks(u)
           /\ Fetch!Cors(u) = FetchProof!Cors(u)
           /\ Fetch!OpenRedirect(u) = FetchProof!OpenRedirect(u)
  BY SameGuard DEF Fetch!Tasks, FetchProof!Tasks, Fetch!Checks, FetchProof!Checks, Fetch!Cors,
         FetchProof!Cors, Fetch!OpenRedirect, FetchProof!OpenRedirect, Fetch!Once,
         FetchProof!Once, Fetch!Visit, FetchProof!Visit, Fetch!Analysis,
         FetchProof!Analysis, Fetch!Playbooks, FetchProof!Playbooks, Fetch!Exposure,
         FetchProof!Exposure, Fetch!Graphql, FetchProof!Graphql, Fetch!ServerFetch,
         FetchProof!ServerFetch, Fetch!Reflected, FetchProof!Reflected,
         Fetch!AdjacentObjects, FetchProof!AdjacentObjects

\* A step of the instance is one of the requests that were proved about.
LEMMA SameRequests ==
    /\ Fetch!Init <=> FetchProof!Init
    /\ Fetch!Next <=> FetchProof!Next
    /\ UNCHANGED requestVars <=> UNCHANGED FetchProof!vars
<1>1. Fetch!Init <=> FetchProof!Init
  BY SameGuard DEF Fetch!Init, FetchProof!Init, Fetch!Idle, FetchProof!Idle
<1>2. \A v, u, hop, seen, trail, slots :
          Fetch!Hop(v, u, hop, seen, trail, slots) = FetchProof!Hop(v, u, hop, seen, trail, slots)
  BY SameGuard DEF Fetch!Hop, FetchProof!Hop
<1>3. \A p : Fetch!Start(p) <=> FetchProof!Start(p)
  BY SameGuard, SameTasks DEF Fetch!Start, FetchProof!Start, Fetch!NoFetch, FetchProof!NoFetch
<1>4. \A p : Fetch!Begin(p) <=> FetchProof!Begin(p)
  BY <1>2 DEF Fetch!Begin, FetchProof!Begin
<1>5. \A p : Fetch!Asks(p) <=> FetchProof!Asks(p)
  BY DEF Fetch!Asks, FetchProof!Asks, Fetch!Slot, FetchProof!Slot
<1>6. \A p : Fetch!Text(p) <=> FetchProof!Text(p)
  <2>1. {u \in URLs : Fetch!May(u)} = {u \in URLs : FetchProof!May(u)}
    BY SameGuard
  <2>2. ASSUME NEW p PROVE Fetch!Text(p) <=> FetchProof!Text(p)
    <3> DEFINE Queues(pages) ==
                 \/ UNCHANGED visits
                 \/ /\ fetch[p].visit.fatal /\ fetch[p].visit.follows
                    /\ \E n \in 1 .. MaxScripts : \E scripts \in [1 .. n -> pages] :
                          /\ FetchProof!IsInjective(scripts)
                          /\ visits' = [visits EXCEPT ![p] =
                                [i \in 1 .. n |->
                                   FetchProof!Visit(scripts[i], TRUE, TRUE, FALSE)] \o @]
               Ends == fetch' = [fetch EXCEPT ![p] = FetchProof!NoFetch]
    <3>1. Fetch!Text(p) <=> /\ Fetch!Asks(p) /\ Ends
                            /\ Queues({u \in URLs : Fetch!May(u)})
                            /\ UNCHANGED <<scope, now>>
      BY DEF Fetch!Text, Fetch!NoFetch, FetchProof!NoFetch, Fetch!Visit, FetchProof!Visit,
             Fetch!IsInjective, FetchProof!IsInjective
    <3>2. FetchProof!Text(p) <=> /\ FetchProof!Asks(p) /\ Ends
                                 /\ Queues({u \in URLs : FetchProof!May(u)})
                                 /\ UNCHANGED <<scope, now>>
      BY DEF FetchProof!Text
    <3> HIDE DEF Queues, Ends
    <3> QED
      BY <1>5, <2>1, <3>1, <3>2
  <2> QED
    BY <2>2
<1>7. \A p : Fetch!Redirect(p) <=> FetchProof!Redirect(p)
  <2>1. \A f, u : Fetch!Refuses(f, u) <=> FetchProof!Refuses(f, u)
    BY SameGuard DEF Fetch!Refuses, FetchProof!Refuses
  <2> QED
    BY <1>2, <1>5, <2>1 DEF Fetch!Redirect, FetchProof!Redirect, Fetch!NoFetch, FetchProof!NoFetch
<1>8. \A p : Fetch!Breaks(p) <=> FetchProof!Breaks(p)
  BY <1>5 DEF Fetch!Breaks, FetchProof!Breaks
<1>9. \A p : Fetch!Refused(p) <=> FetchProof!Refused(p)
  BY DEF Fetch!Refused, FetchProof!Refused, Fetch!NoFetch, FetchProof!NoFetch
<1>10. Fetch!Tick <=> FetchProof!Tick
  BY DEF Fetch!Tick, FetchProof!Tick
<1>11. Fetch!Next <=> FetchProof!Next
  BY <1>3, <1>4, <1>6, <1>7, <1>8, <1>9, <1>10 DEF Fetch!Next, FetchProof!Next
<1>12. UNCHANGED requestVars <=> UNCHANGED FetchProof!vars
  BY DEF requestVars, FetchProof!vars
<1> QED
  BY <1>1, <1>11, <1>12

\* The first state of the instance is one where nothing was asked yet.
LEMMA RequestsStart == ASSUME MCInit PROVE FetchProof!IInv
<1>1. CASE part # "requests"
  <2>1. Fetch!Init /\ scope = Open
    BY <1>1 DEF MCInit
  <2> QED
    BY <2>1, SameRequests, FetchBounds, FetchProof!InitHolds
<1>2. CASE part = "requests"
  <2>1. Fetch!MCInit
    BY <1>2 DEF MCInit
  <2>2. /\ now = 0 /\ asked = <<>> /\ scope \in Rules
        /\ limiter = [p \in Procs |-> [h \in FetchProof!Hosts |-> 0]]
    BY <2>1, FetchBounds, SameGuard DEF Fetch!MCInit, Fetch!Open, Open, Fetch!All, All,
         Fetch!P, P, Fetch!Apex, Apex
  <2>3. fetch \in [Procs -> {FetchProof!NoFetch, FetchProof!Idle}]
    BY <2>1 DEF Fetch!MCInit, Fetch!NoFetch, FetchProof!NoFetch, Fetch!Idle, FetchProof!Idle
  <2>4. visits \in [Procs -> Seq(FetchProof!Visited)]
    <3>1. CASE visits = [p \in Procs |-> <<>>]
      <4>1. <<>> \in Seq(FetchProof!Visited)
        OBVIOUS
      <4> QED
        BY <3>1, <4>1
    <3>2. ASSUME NEW u \in URLs, NEW second \in FetchProof!Cors(u) \cup FetchProof!OpenRedirect(u),
                 visits = [p \in Procs |-> FetchProof!Checks(u) \o second]
          PROVE  visits \in [Procs -> Seq(FetchProof!Visited)]
      <4>1. FetchProof!Checks(u) \o second \in FetchProof!Tasks(u)
        BY DEF FetchProof!Tasks, FetchProof!Playbooks
      <4>2. FetchProof!Checks(u) \o second \in Seq(FetchProof!Visited)
        BY <4>1, FetchProof!TasksTyped
      <4> QED
        BY <3>2, <4>2
    <3>3. \/ visits = [p \in Procs |-> <<>>]
          \/ \E u \in URLs : \E second \in FetchProof!Cors(u) \cup FetchProof!OpenRedirect(u) :
                visits = [p \in Procs |-> FetchProof!Checks(u) \o second]
      <4>1. CASE \E u \in URLs : \E second \in Fetch!Cors(u) \cup Fetch!OpenRedirect(u) :
                    visits = [p \in Procs |-> Fetch!Checks(u) \o second]
        <5>1. PICK u \in URLs : \E second \in Fetch!Cors(u) \cup Fetch!OpenRedirect(u) :
                    visits = [p \in Procs |-> Fetch!Checks(u) \o second]
          BY <4>1
        <5>2. /\ Fetch!Checks(u) = FetchProof!Checks(u)
              /\ Fetch!Cors(u) \cup Fetch!OpenRedirect(u)
                     = FetchProof!Cors(u) \cup FetchProof!OpenRedirect(u)
          BY SameTasks
        <5> QED
          BY <5>1, <5>2
      <4>2. \/ visits = [p \in Procs |-> <<>>]
            \/ \E u \in URLs : \E second \in Fetch!Cors(u) \cup Fetch!OpenRedirect(u) :
                    visits = [p \in Procs |-> Fetch!Checks(u) \o second]
        BY <2>1, Zenon DEF Fetch!MCInit
      <4> QED
        BY <4>1, <4>2
    <3> QED
      BY <3>1, <3>2, <3>3
  <2> QED
    BY <2>2, <2>3, <2>4, FetchBounds, FetchProof!StartHolds
<1> QED
  BY <1>1, <1>2

LEMMA RequestsStep ==
    ASSUME FetchProof!IInv, [MCNext]_<<vars, requestVars, part>> PROVE FetchProof!IInv'
<1>1. FetchProof!Next \/ UNCHANGED FetchProof!vars
  BY SameRequests DEF MCNext
<1> QED
  BY <1>1, FetchBounds, FetchProof!StepHolds

LEMMA RequestsSafe == ASSUME FetchProof!IInv PROVE FetchesStay /\ Paced
<1>1. FetchProof!TypeOK /\ FetchProof!FetchesStay /\ FetchProof!Paced
  BY FetchBounds, FetchProof!Typing, FetchProof!Staying, FetchProof!Pacing
<1>2. Fetch!TypeOK
  BY <1>1, SameGuard DEF Fetch!TypeOK, FetchProof!TypeOK
<1>3. Fetch!StaysInScope
  <2>1. \A q : Fetch!Legible(q) <=> FetchProof!Legible(q)
    BY DEF Fetch!Legible, FetchProof!Legible
  <2>2. \A q, u : Fetch!Reads(q, u) <=> FetchProof!Reads(q, u)
    BY DEF Fetch!Reads, FetchProof!Reads, Fetch!Names, FetchProof!Names, Fetch!Blank,
         FetchProof!Blank
  <2>3. \A s, t : Fetch!IsPrefix(s, t) <=> FetchProof!IsPrefix(s, t)
    BY DEF Fetch!IsPrefix, FetchProof!IsPrefix
  <2> QED
    BY <1>1, <2>1, <2>2, <2>3 DEF FetchProof!FetchesStay, Fetch!StaysInScope, FetchProof!StaysInScope
<1>4. Fetch!ChainsEnd
  BY <1>1 DEF FetchProof!FetchesStay, Fetch!ChainsEnd, FetchProof!ChainsEnd
<1>5. Fetch!Paced
  BY <1>1 DEF Fetch!Paced, FetchProof!Paced, Fetch!Cardinality, FetchProof!Cardinality
<1> QED
  BY <1>2, <1>3, <1>4, <1>5 DEF FetchesStay, Paced, Fetch!FetchesStay

\* Whatever is planned and edited meanwhile, under every scope: the requests
\* stay where they may be, chains of redirects end, and what waits is paced.
THEOREM RequestsKeepTheRules == MCSpec => [](FetchesStay /\ Paced)
<1>1. MCInit => FetchProof!IInv
  BY RequestsStart
<1>2. FetchProof!IInv /\ [MCNext]_<<vars, requestVars, part>> => FetchProof!IInv'
  BY RequestsStep
<1>3. FetchProof!IInv => FetchesStay /\ Paced
  BY RequestsSafe
<1> QED
  BY <1>1, <1>2, <1>3, PTL DEF MCSpec
=============================================================================
