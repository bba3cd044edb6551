------------------------------- MODULE MCJobs --------------------------------
(***************************************************************************)
(* What ends, in one instance for TLC: the processes that review and run   *)
(* actions, the commands with a job of their own, and the workflow runs.   *)
(* In a behaviour only one of the three moves.                             *)
(***************************************************************************)
EXTENDS ActionExecution

CONSTANTS
    Commands, People, Nothing, MaxDecisions, MaxStops,
    note, check, Kind, Pipeline, MaxJobs, NoStop

ASSUME CommandsAssumption == MaxDecisions \in Nat /\ MaxStops \in Nat

VARIABLES
    kind, job, script, ended, rows, verdicts, results, lost, saved, written, noting, shared,
    deciding, decided, overtaken, stops,
    jobRow, file, run, parent, fresh, done, strikes, struck, early,
    part

Job == INSTANCE CommandJob
    WITH Procs <- Commands, MaxFaults <- MaxStops, todo <- script, events <- written, faults <- stops

Workflow == INSTANCE WorkflowRun WITH MaxFaults <- NoStop, row <- jobRow, faults <- strikes

commandVars == <<kind, job, script, ended, rows, verdicts, results, lost, saved, written, noting,
                 shared, deciding, decided, overtaken, stops>>
workflowVars == <<jobRow, file, run, parent, fresh, done, strikes, struck, early>>

ASSUME WorkflowAssumption == Workflow!PipelineAssumption

NoteThenCheck == <<note, check>>
KindOfUnit == [u \in {note, check} |-> IF u = note THEN "local" ELSE "seeded"]

MCInit ==
    /\ part \in {"actions", "commands", "workflows"}
    /\ Init
    /\ part # "actions" => \A a \in Actions : row[a] = "absent"
    /\ Job!Init /\ (part # "commands" => \A p \in Commands : kind[p] = "crawl")
    /\ Workflow!Init

Executing(action) == part = "actions" /\ action /\ UNCHANGED <<commandVars, workflowVars, part>>
Commanding(action) == part = "commands" /\ action /\ UNCHANGED <<vars, workflowVars, part>>
Flowing(action) == part = "workflows" /\ action /\ UNCHANGED <<vars, commandVars, part>>

MCNext == Executing(Next) \/ Commanding(Job!Next) \/ Flowing(Workflow!Next)

allvars == <<vars, commandVars, workflowVars, part>>

\* The fairness of each part: only one of them moves.
MCSpec == /\ MCInit /\ [][MCNext]_allvars
          /\ \A p \in Procs : WF_allvars(Executing(Step(p) /\ NoteRaces))
          /\ \A j \in 1 .. MaxJobs : WF_allvars(Flowing(Workflow!Step(j)))
          /\ \A p \in Commands : WF_allvars(Commanding(Job!Command(p)))

-----------------------------------------------------------------------------

(* Jobs, actions and events keep their types, in each part.                *)
TypesOK == CASE part = "actions" -> TypeOK
             [] part = "commands" -> Job!TypeOK
             [] part = "workflows" -> Workflow!TypeOK

(* What the row of a job says was so, and a hunt tells the truth about its *)
(* tools, whatever people decide about the actions meanwhile.              *)
JobsAreTrue == part = "commands" => Job!JobIsTrue /\ Job!HuntIsTrue

(* The numbers of the events of a job are the order in which they were     *)
(* written, unless two processes noted one at once.                        *)
EventsInOrder == part = "commands" => Job!EventsInOrder

(* What is under way, and what has to come of it.  These are the liveness  *)
(* properties of the three modules as two formulas, which is all that TLC  *)
(* has to hold against each state: what a process was told and the work it *)
(* is at, a command with a job, the first and the last workflow run.  The  *)
(* processes of the first part are alike: one stands for all.              *)
Concerns == {"command", "work"}
Any == CHOOSE p \in Procs : TRUE
RunOf(concern) == IF concern = "command" THEN 1 ELSE MaxJobs

UnderWay(concern) ==
    CASE part = "actions"   -> IF concern = "command" THEN pc[Any] # "idle" ELSE At(Any, "working")
      [] part = "commands"  -> \E p \in Commands : job[p] # "none"
      [] part = "workflows" -> Workflow!Alive(RunOf(concern))

Settled(concern) ==
    CASE part = "actions"   ->
           IF concern = "command" THEN pc[Any] = "idle"
           ELSE \A a \in Actions : row[a] \in Terminal \/ a \in raced \cup history.faulted
      [] part = "commands"  -> \A p \in Commands : ended[p] # "no"
      [] part = "workflows" -> \/ jobRow[RunOf(concern)] \in {"failed", "completed"}
                               \/ RunOf(concern) \in struck

(* Every command and every run comes to its end, and work that started     *)
(* settles its action or job.                                              *)
EverythingEnds == \A concern \in Concerns : UnderWay(concern) ~> Settled(concern)
=============================================================================
