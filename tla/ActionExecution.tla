-------------------------- MODULE ActionExecution --------------------------
(***************************************************************************)
(* The `bounty` processes that queue, review and run actions, over the one *)
(* ActionQueue of a workspace:                                             *)
(*   - `actions approve`, `actions block`, `actions review --interactive`; *)
(*   - `actions execute` and `actions run-approved` (ActionExecutor);      *)
(*   - `run`, which queues the actions of its own live phases, runs those  *)
(*     policy allows and settles their rows (WorkflowRunner); its research *)
(*     phase settles them first and does its work afterwards;              *)
(*   - `check` and its siblings, which queue an action, do its work and    *)
(*     leave the row as it was queued (planAllowedAction).                 *)
(* Nothing claims a row: any process may take up an action that another    *)
(* one is working on.  A process may die at any step, and a statement may  *)
(* throw (the database is still locked when busy_timeout is over).         *)
(***************************************************************************)
EXTENDS ActionQueue, FiniteSets

CONSTANTS BatchLimit, \* --limit of run-approved and of review
          MaxFaults   \* bound: deaths and database errors of a behaviour

ASSUME BoundsAssumption == BatchLimit \in Nat /\ MaxFaults \in Nat

VARIABLES
    pc,        \* pc[p]: where process p is
    cur,       \* cur[p]: the action it is at, NoAction between two
    todo,      \* todo[p]: the actions its command still has to take; in the research
               \* phase those it has settled and not told of yet
    decisions, \* decisions[p]: the human decisions still to be stored
    reviews,   \* the action_reviews table: who decided what is left out
    events,    \* the workflow_events about actions
    faults,    \* deaths and database errors so far
    history,   \* what has happened to which action, for the properties only
    raced      \* the actions two processes were at at the same time

vars == <<row, needsApproval, call, pc, cur, todo, decisions,
          reviews, events, faults, history, raced>>

Decisions == [act : Actions, decision : {"approved", "blocked"}]
Events    == [act : Actions, status : {"completed", "failed", "blocked"}]

(***************************************************************************)
(* A process is at one of these places:                                    *)
(*   idle       no command                                                 *)
(*   reviewing  between two decisions     running  between two actions     *)
(*   working    the adapter is at work    direct   so is `check`           *)
(*   recording  the decision is in the row, its review is not stored yet   *)
(*   completed, failed, blocked: the row is settled, the workflow event of *)
(*              that status is not stored yet                              *)
(*   researching  between two seeds of the research phase                  *)
(*   concluding   its ledger is written, its event is not stored yet       *)
(* or it makes the call of the queue that Asks gives its place:            *)
(*   refusing, dropping  execute, before the work: policy, no target       *)
(*   marking, failing    after it: in the try block, in the catch block    *)
(*   settling            the research phase, before the work               *)
(***************************************************************************)
Asks == [approving |-> "approved", blocking |-> "blocked",
         refusing |-> "blocked", dropping |-> "failed",
         marking |-> "executed", failing |-> "failed", settling |-> "executed"]

\* Mutants: the review, or the completed event, is never stored.
AfterReturnUnreviewed == [approving |-> "reviewing", blocking |-> "recording",
                          refusing |-> "blocked", dropping |-> "running",
                          marking |-> "completed", failing |-> "failed",
                          settling |-> "researching"]

\* The place a call that returns leads to, and the one a throw leads to.
AfterReturn == [approving |-> "recording", blocking |-> "recording",
                refusing |-> "blocked", dropping |-> "running",
                marking |-> "completed", failing |-> "failed",
                settling |-> "researching"]
AfterThrow  == [approving |-> "idle", blocking |-> "idle", recording |-> "idle",
                refusing |-> "running", dropping |-> "running",
                marking |-> "failing", failing |-> "running",
                completed |-> "failing", failed |-> "running", blocked |-> "running",
                settling |-> "idle", researching |-> "idle", concluding |-> "idle"]

Places == DOMAIN AfterThrow \cup {"idle", "reviewing", "running", "working", "direct"}

NoHistory == [approved |-> {},  \* a person's approval reached the row
              refused |-> {},   \* queued as blocked by policy
              started |-> {},   \* its work began in some process
              finished |-> {},  \* its work came to a good end
              again |-> {},     \* ... and to a good end once more
              direct |-> {},    \* the action of a command like `check`
              faulted |-> {},   \* a process died or got an error while at it
              dropped |-> {}]   \* settled by a research phase that was then cut off

Note(fields, a) ==
    history' = [f \in DOMAIN NoHistory |->
                   IF f \in fields THEN history[f] \cup {a} ELSE history[f]]

NoteFinished(a) ==
    Note({"finished"} \cup (IF a \in history.finished THEN {"again"} ELSE {}), a)

\* What the research phase of a process has settled and not told of yet.
Research == {"researching", "settling", "concluding"}
InHand(p) == IF pc[p] \in Research THEN todo[p] ELSE {}

At(p, place) == pc[p] = place
Go(p, place, a) == /\ pc' = [pc EXCEPT ![p] = place]
                   /\ cur' = [cur EXCEPT ![p] = a]
Leave(p, place) == Go(p, place, NoAction)
-----------------------------------------------------------------------------
Init == /\ QueueInit
        /\ pc = [p \in Procs |-> "idle"]
        /\ cur = [p \in Procs |-> NoAction]
        /\ todo = [p \in Procs |-> {}]
        /\ decisions = [p \in Procs |-> {}]
        /\ reviews = {}
        /\ events = {}
        /\ faults = 0
        /\ history = NoHistory
        /\ raced = {}
-----------------------------------------------------------------------------
(***************************************************************************)
(* `actions approve` and `actions block`: one decision, whatever the       *)
(* status of the row; the queue itself accepts it or throws.               *)
(***************************************************************************)
DecideOne(p, a) ==
    /\ At(p, "idle")
    /\ row[a] # "absent"
    /\ \E d \in {"approved", "blocked"} :
          decisions' = [decisions EXCEPT ![p] = {[act |-> a, decision |-> d]}]
    /\ Leave(p, "reviewing")
    /\ UNCHANGED <<queueVars, todo, reviews, events, faults, history>>

(***************************************************************************)
(* `actions review --interactive`: the rows are listed, then the decisions *)
(* on all of them are collected, then each is applied to the row as it was *)
(* listed: an approval only of a row listed as pending.                    *)
(***************************************************************************)
Reviewable(D) ==
    /\ \A d \in D : \/ row[d.act] = "pending"
                    \/ row[d.act] = "approved" /\ d.decision = "blocked"
    /\ \A d, e \in D : d.act = e.act => d = e
    /\ Cardinality(D) \in 1 .. BatchLimit

Review(p) ==
    /\ At(p, "idle")
    /\ \E D \in SUBSET Decisions :
          Reviewable(D) /\ decisions' = [decisions EXCEPT ![p] = D]
    /\ Leave(p, "reviewing")
    /\ UNCHANGED <<queueVars, todo, reviews, events, faults, history>>

\* applyInteractiveActionReviewDecision: queue.approve or queue.block.
Decide(p) ==
    /\ At(p, "reviewing")
    /\ \E d \in decisions[p] :
          Go(p, IF d.decision = "approved" THEN "approving" ELSE "blocking", d.act)
    /\ UNCHANGED <<queueVars, todo, decisions, reviews, events, faults, history>>

\* Mutant: an interactive review that forgets what is left after one decision.
RecordAndStop(p) ==
    /\ At(p, "recording")
    /\ \E d \in decisions[p] :
          /\ d.act = cur[p]
          /\ reviews' = reviews \cup {d}
          /\ decisions' = [decisions EXCEPT ![p] = {}]
    /\ Leave(p, "reviewing")
    /\ UNCHANGED <<queueVars, todo, events, faults, history>>

\* recordActionReview: the review row, then the event and the audit line.
Record(p) ==
    /\ At(p, "recording")
    /\ \E d \in decisions[p] :
          /\ d.act = cur[p]
          /\ reviews' = reviews \cup {d}
          /\ decisions' = [decisions EXCEPT ![p] = @ \ {d}]
    /\ Leave(p, "reviewing")
    /\ UNCHANGED <<queueVars, todo, events, faults, history>>
-----------------------------------------------------------------------------
(***************************************************************************)
(* `actions execute`: one action.  `actions run-approved`: the approved    *)
(* rows of the moment the command lists them, at most --limit.             *)
(***************************************************************************)
ExecuteOne(p, a) ==
    /\ At(p, "idle")
    /\ row[a] # "absent"
    /\ todo' = [todo EXCEPT ![p] = {a}]
    /\ Leave(p, "running")
    /\ UNCHANGED <<queueVars, decisions, reviews, events, faults, history>>

RunApproved(p) ==
    /\ At(p, "idle")
    /\ \E S \in SUBSET {a \in Actions : row[a] = "approved"} :
          /\ Cardinality(S) \in 1 .. BatchLimit
          /\ todo' = [todo EXCEPT ![p] = S]
    /\ Leave(p, "running")
    /\ UNCHANGED <<queueVars, decisions, reviews, events, faults, history>>

(***************************************************************************)
(* execute up to its try block.  The verdict of scope and policy depends   *)
(* on the program file as this process loaded it, so an action that was    *)
(* allowed when it was queued may be refused now.                          *)
(***************************************************************************)
Start(p, a) == /\ Note({"started"}, a)
               /\ Go(p, "working", a)

\* Mutants: execute without its status check, with a lax one, and a batch
\* that lists an action again.
TakeUnchecked(p) ==
    /\ At(p, "running")
    /\ \E a \in todo[p] : /\ todo' = [todo EXCEPT ![p] = @ \ {a}]
                          /\ Start(p, a)
    /\ UNCHANGED <<queueVars, decisions, reviews, events, faults>>

TakeExecuted(p) ==
    /\ At(p, "running")
    /\ \E a \in todo[p] :
          /\ todo' = [todo EXCEPT ![p] = @ \ {a}]
          /\ \/ row[a] \in {"approved", "executed"} /\ Start(p, a)
             \/ Leave(p, "running") /\ UNCHANGED history
    /\ UNCHANGED <<queueVars, decisions, reviews, events, faults>>

Take(p) ==
    /\ At(p, "running")
    /\ \E a \in todo[p] :
          /\ todo' = [todo EXCEPT ![p] = @ \ {a}]
          /\ \/ \* not approved, out of scope, or approval needed after all
                Leave(p, "running") /\ UNCHANGED history
             \/ \* no target, or policy blocks it
                /\ row[a] = "approved"
                /\ Go(p, "dropping", a) \/ Go(p, "refusing", a)
                /\ UNCHANGED history
             \/ row[a] = "approved" /\ Start(p, a)
    /\ UNCHANGED <<queueVars, decisions, reviews, events, faults>>
-----------------------------------------------------------------------------
(***************************************************************************)
(* planWorkflowAction and planAllowedAction queue an action as policy      *)
(* decides: blocked (and the command throws), pending, or approved, and    *)
(* then the same process does the work.  `run` settles the row as execute  *)
(* does; `check` never looks at it again.                                  *)
(***************************************************************************)
PlanBlocked(p, a) ==
    /\ At(p, "idle")
    /\ EnqueueBlocked(a)
    /\ Note({"refused"}, a)
    /\ UNCHANGED <<call, pc, cur, todo, decisions, reviews, events, faults>>

PlanPending(p, a) ==
    /\ At(p, "idle")
    /\ Enqueue(a, TRUE)
    /\ UNCHANGED <<call, pc, cur, todo, decisions, reviews, events, faults, history>>

PlanAndRun(p, a) ==
    /\ At(p, "idle")
    /\ Enqueue(a, FALSE)
    /\ Start(p, a)
    /\ UNCHANGED <<call, todo, decisions, reviews, events, faults>>

\* A dry run queues what policy allows and leaves it to run-approved.
PlanOnly(p, a) ==
    /\ At(p, "idle")
    /\ Enqueue(a, FALSE)
    /\ UNCHANGED <<call, pc, cur, todo, decisions, reviews, events, faults, history>>

PlanAndCheck(p, a) ==
    /\ At(p, "idle")
    /\ Enqueue(a, FALSE)
    /\ Note({"started", "direct"}, a)
    /\ Go(p, "direct", a)
    /\ UNCHANGED <<call, todo, decisions, reviews, events, faults>>

CheckEnds(p) ==
    /\ At(p, "direct")
    /\ NoteFinished(cur[p]) \/ UNCHANGED history
    /\ Leave(p, "idle")
    /\ UNCHANGED <<queueVars, todo, decisions, reviews, events, faults>>
(***************************************************************************)
(* runResearchSkill: an action for each seed, executed as soon as it is    *)
(* queued if policy allows it; what policy blocks ends the whole run.      *)
(***************************************************************************)
RunResearch(p) ==
    /\ At(p, "idle")
    /\ Leave(p, "researching") /\ todo' = [todo EXCEPT ![p] = {}]
    /\ UNCHANGED <<queueVars, decisions, reviews, events, faults, history>>

PlanSeed(p, a) ==
    /\ At(p, "researching")
    /\ \/ /\ Enqueue(a, FALSE)
          /\ Note({"started"}, a)
          /\ Go(p, "settling", a) /\ UNCHANGED todo
       \/ Enqueue(a, TRUE) /\ UNCHANGED <<pc, cur, todo, history>>
       \/ /\ EnqueueBlocked(a)
          /\ history' = [history EXCEPT !.refused = @ \cup {a}, !.dropped = @ \cup InHand(p)]
          /\ Leave(p, "idle") /\ todo' = [todo EXCEPT ![p] = {}]
    /\ UNCHANGED <<call, decisions, reviews, events, faults>>

\* The work of all of them, which nothing catches: one ledger, then the event of the phase.
WriteLedger(p) ==
    /\ At(p, "researching")
    /\ history' = [history EXCEPT !.finished = @ \cup todo[p],
                                  !.again = @ \cup (todo[p] \cap history.finished)]
    /\ Leave(p, "concluding")
    /\ UNCHANGED <<queueVars, todo, decisions, reviews, events, faults>>

Conclude(p) ==
    /\ At(p, "concluding")
    /\ events' = events \cup [act : todo[p], status : {"completed"}]
    /\ Leave(p, "idle") /\ todo' = [todo EXCEPT ![p] = {}]
    /\ UNCHANGED <<queueVars, decisions, reviews, faults, history>>
-----------------------------------------------------------------------------
\* Mutants: an exception of the adapter is swallowed, or not caught.
WorkEndsSwallowing(p) ==
    /\ At(p, "working")
    /\ Go(p, "marking", cur[p])
    /\ NoteFinished(cur[p]) \/ UNCHANGED history
    /\ UNCHANGED <<queueVars, todo, decisions, reviews, events, faults>>

(***************************************************************************)
(* The work of the adapter, or of a live phase of `run` other than the     *)
(* research phase: requests, evidence, findings.  It returns and           *)
(* markExecuted is next, or throws into the catch block.                   *)
(***************************************************************************)
WorkEnds(p) ==
    /\ At(p, "working")
    /\ \/ NoteFinished(cur[p]) /\ Go(p, "marking", cur[p])
       \/ Go(p, "failing", cur[p]) /\ UNCHANGED history
    /\ UNCHANGED <<queueVars, todo, decisions, reviews, events, faults>>

\* The SELECT of the call this place makes.
CallQueue(p) ==
    /\ pc[p] \in DOMAIN Asks
    /\ Read(p, cur[p], Asks[pc[p]])
    /\ UNCHANGED <<row, needsApproval, pc, cur, todo, decisions,
                   reviews, events, faults, history>>

\* It returns, with or without the UPDATE.
CallReturns(p) ==
    /\ \/ Return(p) /\ UNCHANGED history
       \/ /\ Write(p)
          /\ IF At(p, "approving") THEN Note({"approved"}, cur[p]) ELSE UNCHANGED history
    /\ Go(p, AfterReturn[pc[p]],
          IF pc[p] \in {"dropping", "settling"} THEN NoAction ELSE cur[p])
    /\ todo' = IF At(p, "settling") THEN [todo EXCEPT ![p] = @ \cup {cur[p]}] ELSE todo
    /\ UNCHANGED <<needsApproval, decisions, reviews, events, faults>>

(***************************************************************************)
(* An exception at a place: the catch block of execute calls fail; one     *)
(* thrown there or before the try block ends this action, and the next one *)
(* of the batch follows; one thrown in a review ends the command, and the  *)
(* decisions not applied yet are gone; so does one in the research phase,  *)
(* and what it has settled stays so.                                       *)
(***************************************************************************)
Unwind(p) ==
    /\ Go(p, AfterThrow[pc[p]], IF AfterThrow[pc[p]] = "failing" THEN cur[p] ELSE NoAction)
    /\ decisions' = [decisions EXCEPT ![p] = {}]
    /\ todo' = [todo EXCEPT ![p] = @ \ InHand(p)]

CallThrows(p) ==
    /\ Throw(p)
    /\ Unwind(p)
    /\ history' = [history EXCEPT !.dropped = @ \cup InHand(p)]
    /\ UNCHANGED <<needsApproval, reviews, events, faults>>

\* recordActionEvent, or recordPhase of the workflow.
Log(p) ==
    /\ pc[p] \in {"completed", "failed", "blocked"}
    /\ events' = events \cup {[act |-> cur[p], status |-> pc[p]]}
    /\ Leave(p, "running")
    /\ UNCHANGED <<queueVars, todo, decisions, reviews, faults, history>>

\* The command is over.
End(p) ==
    /\ \/ At(p, "running") /\ todo[p] = {}
       \/ At(p, "reviewing") /\ decisions[p] = {}
    /\ Leave(p, "idle")
    /\ UNCHANGED <<queueVars, todo, decisions, reviews, events, faults, history>>
-----------------------------------------------------------------------------
(***************************************************************************)
(* Faults.  A statement throws: nothing is written and the exception       *)
(* unwinds.  The process dies: everything but the database is lost.        *)
(***************************************************************************)
Fault(p) ==
    /\ faults < MaxFaults
    /\ faults' = faults + 1
    /\ history' = [history EXCEPT !.faulted = @ \cup ({cur[p]} \ {NoAction}),
                                  !.dropped = @ \cup InHand(p)]
    /\ IF Busy(p) THEN Abandon(p) ELSE UNCHANGED <<row, call>>
    /\ UNCHANGED <<needsApproval, reviews, events>>

DatabaseError(p) ==
    /\ pc[p] \in DOMAIN AfterThrow
    /\ Fault(p)
    /\ Unwind(p)

Crash(p) ==
    /\ pc[p] # "idle"
    /\ Fault(p)
    /\ Leave(p, "idle")
    /\ todo' = [todo EXCEPT ![p] = {}]
    /\ decisions' = [decisions EXCEPT ![p] = {}]
-----------------------------------------------------------------------------
Command(p) ==
    \/ Review(p) \/ RunApproved(p) \/ RunResearch(p)
    \/ \E a \in Actions :
          \/ DecideOne(p, a) \/ ExecuteOne(p, a)
          \/ PlanBlocked(p, a) \/ PlanPending(p, a) \/ PlanOnly(p, a)
          \/ PlanAndRun(p, a) \/ PlanAndCheck(p, a)

\* What a process does on its own once its command has been given.
Step(p) == \/ Decide(p) \/ Record(p) \/ Take(p) \/ CheckEnds(p) \/ WorkEnds(p)
           \/ CallQueue(p) \/ CallReturns(p) \/ CallThrows(p) \/ Log(p) \/ End(p)
           \/ \E a \in Actions : PlanSeed(p, a)
           \/ WriteLedger(p) \/ Conclude(p)

NoteRaces ==
    raced' = raced \cup {a \in Actions :
                \E p, q \in Procs : p # q /\ cur'[p] = a /\ cur'[q] = a}

Next == /\ \E p \in Procs : Command(p) \/ Step(p) \/ DatabaseError(p) \/ Crash(p)
        /\ NoteRaces

Spec == Init /\ [][Next]_vars

(***************************************************************************)
(* A process that runs goes on: nothing in a command waits for another     *)
(* process, statements time out, and the adapters bound their work by      *)
(* timeouts.  Nobody has to give a command.                                *)
(***************************************************************************)
Fairness == \A p \in Procs : WF_vars(Step(p) /\ NoteRaces)
FairSpec == Spec /\ Fairness
-----------------------------------------------------------------------------
(***************************************************************************)
(* Every variable has its type.                                            *)
(***************************************************************************)
TypeOK ==
    /\ QueueTypeOK
    /\ pc \in [Procs -> Places]
    /\ cur \in [Procs -> Actions \cup {NoAction}]
    /\ todo \in [Procs -> SUBSET Actions]
    /\ decisions \in [Procs -> SUBSET Decisions]
    /\ reviews \subseteq Decisions
    /\ events \subseteq Events
    /\ faults \in 0 .. MaxFaults
    /\ history \in [DOMAIN NoHistory -> SUBSET Actions]
    /\ raced \subseteq Actions

(***************************************************************************)
(* The promise of the review gate: work on an action that needs approval   *)
(* never starts in any process before a person's approval was written to   *)
(* its row, whatever else the processes wrote to it in the meantime.       *)
(***************************************************************************)
ApprovedBeforeRun ==
    \A a \in history.started : needsApproval[a] => a \in history.approved

(***************************************************************************)
(* A row says executed only if some process carried the work to its end:   *)
(* no crash, failure or stale write produces an executed action nobody     *)
(* finished.  The one exception is the research phase of `run`, which      *)
(* marks its actions executed before it writes their ledger: its rows say  *)
(* so too early while it is at it, and for good when it is cut off.        *)
(***************************************************************************)
Unfinished(a) == a \in history.dropped \/ \E p \in Procs : a \in InHand(p)
ExecutedWasFinished ==
    \A a \in Actions : row[a] = "executed" => a \in history.finished \/ Unfinished(a)

(***************************************************************************)
(* What policy blocked when it was queued stays blocked and is never run:  *)
(* no reviewer can approve it and no stale write can overwrite it, since   *)
(* no process ever read the row in another status.                         *)
(***************************************************************************)
RefusalStands ==
    \A a \in history.refused : row[a] = "blocked" /\ a \notin history.started

(***************************************************************************)
(* The review history explains every approval: an approval in a row has    *)
(* its action_reviews row, or its command is about to store it, or a fault *)
(* struck between the two statements.                                      *)
(***************************************************************************)
ApprovalIsOnRecord ==
    \A a \in history.approved :
        \/ [act |-> a, decision |-> "approved"] \in reviews
        \/ \E p \in Procs : At(p, "recording") /\ cur[p] = a
        \/ a \in history.faulted

(***************************************************************************)
(* The timeline explains every executed row: its completed event is there, *)
(* or about to be, or a fault struck, or its research phase was cut off.   *)
(***************************************************************************)
ExecutionIsOnRecord ==
    \A a \in Actions : row[a] = "executed" =>
        \/ [act |-> a, status |-> "completed"] \in events
        \/ \E p \in Procs : At(p, "completed") /\ cur[p] = a
        \/ a \in history.faulted \/ Unfinished(a)

(***************************************************************************)
(* What was done about an action is on record: both of the above.          *)
(***************************************************************************)
OnRecord == ApprovalIsOnRecord /\ ExecutionIsOnRecord

(***************************************************************************)
(* The status check stands in for a claim: the work of an action is done   *)
(* twice only when two processes were at the action at the same time, a    *)
(* fault struck one, or a command like `check` left the row approved.      *)
(***************************************************************************)
RepeatedOnlyInARace ==
    history.again \subseteq raced \cup history.faulted \cup history.direct

(***************************************************************************)
(* The timeline contradicts itself about an action, completed and failed,  *)
(* only after a race or a fault.                                           *)
(***************************************************************************)
OneOutcome ==
    \A a \in Actions :
        {[act |-> a, status |-> s] : s \in {"completed", "failed"}} \subseteq events
            => a \in raced \cup history.faulted

(***************************************************************************)
(* A process alone with an action, and spared by faults, does its work     *)
(* once and tells one story of it: both of the above.                      *)
(***************************************************************************)
OnceAndForAll == RepeatedOnlyInARace /\ OneOutcome

(***************************************************************************)
(* A single reviewer loses no decision: each one collected on an action    *)
(* that is still open ends up in the review history, after which the next  *)
(* one follows, unless a fault strikes.  (Another process can take one     *)
(* action out of the review, and the decisions after it are lost.)         *)
(***************************************************************************)
DecisionsLand ==
    \A p \in Procs, d \in Decisions :
        d \in decisions[p] /\ row[d.act] \notin Terminal
            ~> d \in reviews \/ faults > 0

=============================================================================
